---------------------------- MODULE UpkeepProofs ----------------------------
(***************************************************************************)
(* As in ServerProofs: the parts share no variables, so what the steps of   *)
(* one part keep, all steps keep.  First the parts one by one, then the     *)
(* project.  For any cards, projects, people, files and letters, any number *)
(* of requests at once, and whichever calls fail.                           *)
(***************************************************************************)
EXTENDS Upkeep, FlowProofs, FiniteSetTheorems

----------------------------------------------------------------------------
(* Mail.                                                                   *)

Mails == [state: {"none", "draft", "sent", "deleted"}, sender: Staff \cup {NoLetter},
          to: SUBSET Staff, root: Letters \cup {NoLetter}]

MailTyped ==
    /\ present \subseteq Staff
    /\ letter \in [Letters -> Mails]
    /\ desk \in [Desks -> DeskTypes]
    /\ told \in [Letters -> [Staff -> Nat]]

\* Request w is the one that announces letter m, now or later.
Sends(w, m) ==
    \/ w.kind = "announce" /\ w.letter = m
    \/ w.kind = "edit" /\ w.send /\ w.letter = m

Untold(m) == \A p \in Staff : told[m][p] = 0

\* The recipients a request knows are those of its letter still.
UpToDate(w, m) ==
    w.kind = "announce" /\ ~w.all =>
        w.to = letter[m].to \/ m \in overwritten \/ letter[m].state = "deleted"

\* ToldOnce is not inductive: one request at most announces a letter, no request does
\* while it may still be claimed, and nobody was told before.
LetterFits(m) ==
    /\ \A p \in Staff : told[m][p] <= 1
    /\ \A d, e \in Desks : Sends(desk[d], m) /\ Sends(desk[e], m) => d = e
    /\ letter[m].state \in {"none", "draft"} => Untold(m) /\ \A d \in Desks : ~Sends(desk[d], m)
    /\ \A d \in Desks : Sends(desk[d], m) => Untold(m) /\ UpToDate(desk[d], m)
    /\ m \notin lost \cup overwritten /\ letter[m].state = "sent" =>
         \/ \E d \in Desks : Sends(desk[d], m)
         \/ \A p \in letter[m].to : told[m][p] = 1

ClaimsSend == \A d \in Desks : desk[d].kind = "claim" => desk[d].send

MailInv == MailTyped /\ ClaimsSend /\ \A m \in Letters : LetterFits(m)

LEMMA MailStarts == MailInit => MailInv
PROOF
  <1> SUFFICES ASSUME MailInit PROVE MailInv
    OBVIOUS
  <1>1. \A d \in Desks : desk[d].kind = "vacant" /\ desk[d] \in DeskTypes
    BY DEF MailInit, Vacant, DeskTypes
  <1>2. MailTyped
    BY <1>1 DEF MailInit, MailTyped, NoMail, Mails
  <1>3. ClaimsSend
    BY <1>1 DEF ClaimsSend
  <1>4. ASSUME NEW m \in Letters PROVE LetterFits(m)
    <2>1. \A d \in Desks : ~Sends(desk[d], m)
      BY <1>1 DEF Sends
    <2>2. letter[m].state = "none" /\ \A p \in Staff : told[m][p] = 0
      BY DEF MailInit, NoMail
    <2> QED BY <2>1, <2>2 DEF LetterFits, Untold
  <1> QED BY <1>2, <1>3, <1>4 DEF MailInv

\* A letter that a step does not touch, nor the request that announces it.
LEMMA SameLetter ==
    ASSUME NEW x \in Letters, LetterFits(x), letter'[x] = letter[x], told'[x] = told[x],
           \A d \in Desks : Sends(desk'[d], x) => desk'[d] = desk[d],
           \A d \in Desks : Sends(desk[d], x) => desk'[d] = desk[d],
           x \in lost => x \in lost', x \in overwritten => x \in overwritten'
    PROVE  LetterFits(x)'
PROOF
  <1>1. /\ \A p \in Staff : told'[x][p] <= 1
        /\ \A d, e \in Desks : Sends(desk'[d], x) /\ Sends(desk'[e], x) => d = e
    BY DEF LetterFits
  <1>2. letter'[x].state \in {"none", "draft"} =>
           Untold(x)' /\ \A d \in Desks : ~Sends(desk'[d], x)
    BY DEF LetterFits, Untold
  <1>3. \A d \in Desks : Sends(desk'[d], x) => Untold(x)' /\ UpToDate(desk[d], x)'
    BY DEF LetterFits, Untold, UpToDate
  <1>4. x \notin lost' \cup overwritten' /\ letter'[x].state = "sent" =>
           \/ \E d \in Desks : Sends(desk'[d], x)
           \/ \A p \in letter'[x].to : told'[x][p] = 1
    BY DEF LetterFits
  <1> QED BY <1>1, <1>2, <1>3, <1>4 DEF LetterFits

LEMMA DeskIs ==
    ASSUME MailTyped, NEW d \in Desks
    PROVE  /\ desk[d] \in DeskTypes
           /\ desk[d].kind \in {"claim", "edit"} =>
                desk[d] \in [kind : {"claim", "edit"}, letter : Letters, change : BOOLEAN,
                             send : BOOLEAN, to : SUBSET Staff]
           /\ desk[d].kind = "announce" =>
                desk[d] \in [kind : {"announce"}, letter : Letters, to : SUBSET Staff, all : BOOLEAN]
           /\ desk[d].kind = "drop" => desk[d] \in [kind : {"drop"}, letter : Letters]
PROOF
  <1>1. desk[d] \in DeskTypes
    BY DEF MailTyped
  <1> QED BY <1>1 DEF DeskTypes, Vacant

\* A request that begins or ends what it does not announce.
LEMMA SilentDesk ==
    ASSUME MailInv, NEW d \in Desks, NEW w \in DeskTypes,
           desk' = [desk EXCEPT ![d] = w], w.kind = "claim" => w.send,
           UNCHANGED <<letter, told>>, present' \subseteq Staff,
           lost \subseteq lost', overwritten \subseteq overwritten',
           \A m \in Letters : ~Sends(w, m) /\ (Sends(desk[d], m) => m \in lost')
    PROVE  MailInv'
PROOF
  <1>1. \A i \in Desks : desk'[i] = IF i = d THEN w ELSE desk[i]
    BY DEF MailInv, MailTyped, Mails
  <1>2. MailTyped' /\ ClaimsSend'
    BY <1>1 DEF MailInv, MailTyped, Mails, ClaimsSend
  <1>3. ASSUME NEW m \in Letters PROVE LetterFits(m)'
    <2>1. LetterFits(m)
      BY DEF MailInv
    <2>2. \A i \in Desks : Sends(desk'[i], m) => i # d /\ desk'[i] = desk[i]
      BY <1>1
    <2>3. CASE ~Sends(desk[d], m)
      <3>1. \A i \in Desks : Sends(desk[i], m) => desk'[i] = desk[i]
        BY <1>1, <2>3
      <3> QED BY <2>1, <2>2, <3>1, SameLetter
    <2>4. CASE Sends(desk[d], m)
      <3>1. \A i \in Desks : ~Sends(desk'[i], m)
        BY <2>1, <2>2, <2>4 DEF LetterFits
      <3>2. m \in lost' /\ Untold(m)'
        BY <2>1, <2>4 DEF LetterFits, Untold
      <3>3. \A p \in Staff : told'[m][p] <= 1
        BY <2>1 DEF LetterFits
      <3> QED BY <3>1, <3>2, <3>3 DEF LetterFits
    <2> QED BY <2>3, <2>4
  <1> QED BY <1>2, <1>3 DEF MailInv

LEMMA VacantIs == Vacant \in DeskTypes /\ Vacant.kind = "vacant" /\ \A m : ~Sends(Vacant, m)
PROOF
  BY DEF Vacant, DeskTypes, Sends

LEMMA MailWriteKeeps ==
    ASSUME MailInv, NEW d \in Desks, NewLetters # {}, NEW u \in Staff, NEW named,
           NEW draft \in BOOLEAN, NEW root \in Letters \cup {NoLetter},
           Write(d, NewLetter, u, named, draft, root)
    PROVE  MailInv'
PROOF
  <1>1. PICK m : m = NewLetter
    OBVIOUS
  <1>2. m \in Letters /\ letter[m] = NoMail
    BY <1>1 DEF NewLetter, NewLetters
  <1>3. PICK to : to = Resolve(named, u)
    OBVIOUS
  <1>4. to \subseteq Staff
    BY <1>3 DEF Resolve, MailInv, MailTyped
  <1> DEFINE new == [state |-> IF draft THEN "draft" ELSE "sent", sender |-> u, to |-> to,
                     root |-> root]
             w == [kind |-> "announce", letter |-> m, to |-> to, all |-> FALSE]
  <1>5. /\ desk[d] = Vacant
        /\ letter' = [letter EXCEPT ![m] = new]
        /\ desk' = IF draft THEN desk ELSE [desk EXCEPT ![d] = w]
        /\ UNCHANGED <<present, told, lost, overwritten>>
    BY <1>1, <1>3 DEF Write
  <1>6. MailTyped'
    <2>1. w \in DeskTypes
      BY <1>2, <1>4 DEF DeskTypes
    <2>2. new \in Mails
      BY <1>4 DEF Mails
    <2> HIDE DEF w, new
    <2> QED BY <1>2, <1>5, <2>1, <2>2 DEF MailInv, MailTyped, Mails
  <1>7. \A i \in Desks : desk'[i] = IF i = d /\ ~draft THEN w ELSE desk[i]
    BY <1>5 DEF MailInv, MailTyped, Mails
  <1>8. ClaimsSend'
    BY <1>7 DEF MailInv, ClaimsSend
  <1>9. \A x : ~Sends(desk[d], x)
    BY <1>5, VacantIs
  <1>10. ASSUME NEW x \in Letters, x # m PROVE LetterFits(x)'
    <2>1. letter'[x] = letter[x] /\ told'[x] = told[x]
      BY <1>5, <1>10 DEF MailInv, MailTyped, Mails
    <2>2. ~Sends(w, x)
      BY <1>10 DEF Sends
    <2> HIDE DEF w
    <2>3. \A i \in Desks : (Sends(desk'[i], x) => desk'[i] = desk[i])
                           /\ (Sends(desk[i], x) => desk'[i] = desk[i])
      BY <1>7, <1>9, <2>2
    <2> QED BY <1>5, <2>1, <2>3, SameLetter DEF MailInv
  <1>11. LetterFits(m)'
    <2>1. Untold(m) /\ \A i \in Desks : ~Sends(desk[i], m)
      BY <1>2 DEF MailInv, LetterFits, NoMail
    <2>2. Untold(m)' /\ \A p \in Staff : told'[m][p] <= 1
      BY <1>5, <2>1 DEF Untold
    <2>3. letter'[m] = new
      BY <1>2, <1>5 DEF MailInv, MailTyped, Mails
    <2>4. CASE draft
      <3>1. \A i \in Desks : ~Sends(desk'[i], m)
        BY <1>7, <2>1, <2>4
      <3> QED BY <2>2, <2>3, <2>4, <3>1 DEF LetterFits
    <2>5. CASE ~draft
      <3>1. desk'[d] = w /\ Sends(w, m)
        BY <1>7, <2>5 DEF Sends
      <3>2. \A i \in Desks : Sends(desk'[i], m) => i = d
        BY <1>7, <2>1
      <3>3. UpToDate(desk[d], m)'
        BY <2>3, <3>1 DEF UpToDate
      <3>4. letter'[m].state = "sent"
        BY <2>3, <2>5
      <3>5. \A i \in Desks : Sends(desk'[i], m) => UpToDate(desk[i], m)'
        BY <3>2, <3>3
      <3>6. \E i \in Desks : Sends(desk'[i], m)
        BY <3>1
      <3> HIDE DEF w, new
      <3> QED BY <2>2, <3>2, <3>4, <3>5, <3>6 DEF LetterFits
    <2> QED BY <2>4, <2>5
  <1> QED BY <1>6, <1>8, <1>10, <1>11 DEF MailInv

LEMMA ClaimKeepsMail ==
    ASSUME MailInv, NEW d \in Desks, Claim(d)
    PROVE  MailInv'
PROOF
  <1>1. PICK m : m = desk[d].letter
    OBVIOUS
  <1>2. desk[d].kind = "claim" /\ UNCHANGED <<present, told, lost, overwritten>>
    BY DEF Claim
  <1>3. /\ m \in Letters /\ desk[d].send = TRUE
        /\ desk[d] \in [kind : {"claim", "edit"}, letter : Letters, change : BOOLEAN,
                        send : BOOLEAN, to : SUBSET Staff]
    BY <1>1, <1>2, DeskIs DEF MailInv, ClaimsSend
  <1>4. \A x : ~Sends(desk[d], x)
    BY <1>2 DEF Sends
  <1>5. CASE letter[m].state = "draft"
    <2> DEFINE w == [desk[d] EXCEPT !.kind = "edit"]
    <2>1. /\ letter' = [letter EXCEPT ![m].state = "sent"]
          /\ desk' = [desk EXCEPT ![d] = w]
      BY <1>1, <1>5 DEF Claim, Claimable
    <2>2. w \in DeskTypes /\ w.kind = "edit" /\ w.send /\ w.letter = m
      BY <1>1, <1>3 DEF DeskTypes
    <2> HIDE DEF w
    <2>3. \A i \in Desks : desk'[i] = IF i = d THEN w ELSE desk[i]
      BY <2>1 DEF MailInv, MailTyped, Mails
    <2>4. MailTyped'
      <3>1. [letter[m] EXCEPT !.state = "sent"] \in Mails
        <4>1. letter[m] \in Mails
          BY <1>3 DEF MailInv, MailTyped
        <4> QED BY <4>1 DEF Mails
      <3> QED BY <1>2, <1>3, <2>1, <2>2, <3>1 DEF MailInv, MailTyped
    <2>5. ClaimsSend'
      BY <2>2, <2>3 DEF MailInv, ClaimsSend
    <2>6. ASSUME NEW x \in Letters, x # m PROVE LetterFits(x)'
      <3>1. letter'[x] = letter[x]
        BY <2>1, <2>6 DEF MailInv, MailTyped, Mails
      <3>2. ~Sends(w, x)
        BY <2>2, <2>6 DEF Sends
      <3>3. \A i \in Desks : (Sends(desk'[i], x) => desk'[i] = desk[i])
                             /\ (Sends(desk[i], x) => desk'[i] = desk[i])
        BY <1>4, <2>3, <3>2
      <3> QED BY <1>2, <3>1, <3>3, SameLetter DEF MailInv
    <2>7. LetterFits(m)'
      <3>1. Untold(m) /\ \A i \in Desks : ~Sends(desk[i], m)
        BY <1>3, <1>5 DEF MailInv, LetterFits
      <3>2. Untold(m)' /\ \A p \in Staff : told'[m][p] <= 1
        BY <1>2, <3>1 DEF Untold
      <3>3. Sends(w, m) /\ desk'[d] = w
        BY <2>2, <2>3 DEF Sends
      <3>4. \A i \in Desks : Sends(desk'[i], m) => i = d
        BY <2>3, <3>1
      <3>5. UpToDate(desk[d], m)'
        BY <2>2, <3>3 DEF UpToDate
      <3>6. letter'[m].state = "sent"
        BY <1>3, <2>1 DEF MailInv, MailTyped, Mails
      <3>7. \A i \in Desks : Sends(desk'[i], m) => UpToDate(desk[i], m)'
        BY <3>4, <3>5
      <3>8. \E i \in Desks : Sends(desk'[i], m)
        BY <3>3
      <3> QED BY <3>2, <3>4, <3>6, <3>7, <3>8 DEF LetterFits
    <2> QED BY <2>4, <2>5, <2>6, <2>7 DEF MailInv
  <1>6. CASE letter[m].state # "draft"
    <2>1. desk' = [desk EXCEPT ![d] = Vacant] /\ UNCHANGED letter
      BY <1>1, <1>6 DEF Claim, Claimable, Clear
    <2>2. present' \subseteq Staff
      BY <1>2 DEF MailInv, MailTyped, Mails
    <2> QED BY <1>2, <1>4, <2>1, <2>2, VacantIs, SilentDesk
  <1> QED BY <1>5, <1>6

LEMMA RewriteKeeps ==
    ASSUME MailInv, NEW d \in Desks, Rewrite(d)
    PROVE  MailInv'
PROOF
  <1>1. PICK m : m = desk[d].letter
    OBVIOUS
  <1>2. desk[d].kind = "edit" /\ UNCHANGED <<present, told, lost>>
    BY DEF Rewrite
  <1>3. /\ m \in Letters /\ desk[d].to \subseteq Staff /\ desk[d].send \in BOOLEAN
        /\ \A x : Sends(desk[d], x) <=> desk[d].send /\ x = m
    BY <1>1, <1>2, DeskIs DEF MailInv, Sends
  <1>4. present' \subseteq Staff
    BY <1>2 DEF MailInv, MailTyped, Mails
  <1>5. CASE letter[m].state \in {"none", "deleted"}
    <2>1. desk' = [desk EXCEPT ![d] = Vacant] /\ UNCHANGED <<letter, overwritten>>
      BY <1>1, <1>5 DEF Rewrite, Clear
    <2>2. \A i \in Desks : desk'[i] = IF i = d THEN Vacant ELSE desk[i]
      BY <2>1 DEF MailInv, MailTyped, Mails
    <2>3. MailTyped' /\ ClaimsSend'
      BY <1>2, <2>1, <2>2, VacantIs DEF MailInv, MailTyped, Mails, ClaimsSend
    <2>4. \A i \in Desks, x \in Letters : Sends(desk'[i], x) => desk'[i] = desk[i]
      BY <2>2, VacantIs
    <2>5. ASSUME NEW x \in Letters, x # m PROVE LetterFits(x)'
      <3>1. \A i \in Desks : Sends(desk[i], x) => desk'[i] = desk[i]
        BY <1>3, <2>2, <2>5
      <3> QED BY <1>2, <2>1, <2>4, <3>1, SameLetter DEF MailInv
    <2>6. LetterFits(m)'
      <3>1. LetterFits(m)
        BY <1>3 DEF MailInv
      <3>2. \A i \in Desks : Sends(desk'[i], m) => Sends(desk[i], m) /\ desk'[i] = desk[i]
        BY <1>3, <2>4
      <3>3. letter'[m].state # "sent"
        BY <1>5, <2>1
      <3>4. /\ \A p \in Staff : told'[m][p] <= 1
            /\ \A i, e \in Desks : Sends(desk'[i], m) /\ Sends(desk'[e], m) => i = e
        BY <1>2, <3>1, <3>2 DEF LetterFits
      <3>5. letter'[m].state \in {"none", "draft"} =>
               Untold(m)' /\ \A i \in Desks : ~Sends(desk'[i], m)
        BY <1>2, <2>1, <3>1, <3>2 DEF LetterFits, Untold
      <3>6. \A i \in Desks : Sends(desk'[i], m) => Untold(m)' /\ UpToDate(desk[i], m)'
        BY <1>2, <2>1, <3>1, <3>2 DEF LetterFits, Untold, UpToDate
      <3> QED BY <3>3, <3>4, <3>5, <3>6 DEF LetterFits
    <2> QED BY <2>3, <2>5, <2>6 DEF MailInv
  <1>6. CASE letter[m].state \notin {"none", "deleted"}
    <2>1. PICK w : w = IF desk[d].send THEN [kind |-> "announce", letter |-> m, to |-> {}, all |-> TRUE]
                       ELSE Vacant
      OBVIOUS
    <2>2. /\ letter' = letter \/ letter' = [letter EXCEPT ![m].to = desk[d].to]
          /\ desk' = [desk EXCEPT ![d] = w]
          /\ overwritten' = IF ~desk[d].send /\ letter[m].state = "sent" THEN overwritten \cup {m}
                            ELSE overwritten
      BY <1>1, <1>3, <1>6, <2>1 DEF Rewrite, Clear
    <2>3. /\ w \in DeskTypes /\ w.kind # "claim" /\ (w.kind = "announce" => w.all)
          /\ \A x : Sends(w, x) <=> Sends(desk[d], x)
      BY <1>3, <2>1, VacantIs DEF Sends, DeskTypes
    <2>4. \A i \in Desks : desk'[i] = IF i = d THEN w ELSE desk[i]
      BY <2>2 DEF MailInv, MailTyped, Mails
    <2>5. MailTyped' /\ ClaimsSend'
      <3>0. letter[m] \in Mails
        BY <1>3 DEF MailInv, MailTyped
      <3>1. [letter[m] EXCEPT !.to = desk[d].to] \in Mails
        BY <1>3, <3>0 DEF Mails
      <3>2. letter' \in [Letters -> Mails]
        BY <2>2, <3>1 DEF MailInv, MailTyped
      <3>3. desk' \in [Desks -> DeskTypes]
        BY <2>2, <2>3 DEF MailInv, MailTyped
      <3>4. MailTyped'
        BY <1>2, <3>2, <3>3 DEF MailInv, MailTyped
      <3> QED BY <2>3, <2>4, <3>4 DEF MailInv, ClaimsSend
    <2>6. \A i \in Desks, x \in Letters : Sends(desk'[i], x) <=> Sends(desk[i], x)
      BY <2>3, <2>4
    <2>7. ASSUME NEW x \in Letters, x # m PROVE LetterFits(x)'
      <3>1. letter'[x] = letter[x]
        BY <2>2, <2>7 DEF MailInv, MailTyped, Mails
      <3>2. \A i \in Desks : Sends(desk[i], x) => desk'[i] = desk[i]
        BY <1>3, <2>4, <2>7
      <3>3. \A i \in Desks : Sends(desk'[i], x) => desk'[i] = desk[i]
        BY <2>6, <3>2
      <3> QED BY <1>2, <2>2, <3>1, <3>2, <3>3, SameLetter DEF MailInv
    <2>8. LetterFits(m)'
      <3>1. LetterFits(m) /\ letter'[m].state = letter[m].state
        BY <1>3, <2>2 DEF MailInv, MailTyped, Mails
      <3>2. /\ \A p \in Staff : told'[m][p] <= 1
            /\ \A i, e \in Desks : Sends(desk'[i], m) /\ Sends(desk'[e], m) => i = e
        BY <1>2, <1>3, <2>6, <3>1 DEF LetterFits
      <3>3. letter'[m].state \in {"none", "draft"} =>
               Untold(m)' /\ \A i \in Desks : ~Sends(desk'[i], m)
        BY <1>2, <1>3, <2>6, <3>1 DEF LetterFits, Untold
      <3>4. ASSUME NEW i \in Desks, Sends(desk'[i], m) PROVE Untold(m)' /\ UpToDate(desk[i], m)'
        <4>1. Sends(desk[i], m)
          BY <1>3, <2>6, <3>4
        <4>2. Untold(m)'
          BY <1>2, <3>1, <4>1 DEF LetterFits, Untold
        <4>3. CASE i = d
          BY <2>3, <2>4, <4>2, <4>3 DEF UpToDate
        <4>4. CASE i # d
          <5>1. ~desk[d].send /\ letter[m].state # "draft"
            BY <1>3, <3>1, <4>1, <4>4 DEF LetterFits
          <5>2. letter[m].state = "sent"
            BY <1>3, <1>6, <5>1 DEF MailInv, MailTyped, Mails
          <5>3. m \in overwritten'
            BY <2>2, <5>1, <5>2
          <5> QED BY <4>2, <5>3 DEF UpToDate
        <4> QED BY <4>3, <4>4
      <3>5. ASSUME m \notin lost' \cup overwritten', letter'[m].state = "sent"
            PROVE  \E i \in Desks : Sends(desk'[i], m)
        <4>1. desk[d].send
          BY <2>2, <3>1, <3>5
        <4> QED BY <1>3, <2>6, <4>1
      <3> QED BY <3>2, <3>3, <3>4, <3>5 DEF LetterFits
    <2> QED BY <2>5, <2>7, <2>8 DEF MailInv
  <1> QED BY <1>5, <1>6

LEMMA AnnounceKeeps ==
    ASSUME MailInv, NEW d \in Desks, Announce(d)
    PROVE  MailInv'
PROOF
  <1>1. PICK m : m = desk[d].letter
    OBVIOUS
  <1>2. PICK to : to = IF desk[d].all THEN letter[m].to ELSE desk[d].to
    OBVIOUS
  <1>3. /\ desk[d].kind = "announce"
        /\ told' = [told EXCEPT ![m] = [p \in Staff |-> IF p \in to THEN told[m][p] + 1 ELSE told[m][p]]]
        /\ desk' = [desk EXCEPT ![d] = Vacant]
        /\ UNCHANGED <<present, letter, lost, overwritten>>
    BY <1>1, <1>2 DEF Announce, Announced, Clear
  <1>4. m \in Letters /\ \A x : Sends(desk[d], x) <=> x = m
    BY <1>1, <1>3, DeskIs DEF MailInv, Sends
  <1>5. \A i \in Desks : desk'[i] = IF i = d THEN Vacant ELSE desk[i]
    BY <1>3 DEF MailInv, MailTyped, Mails
  <1>6. MailTyped' /\ ClaimsSend'
    BY <1>3, <1>4, <1>5, VacantIs DEF MailInv, MailTyped, Mails, ClaimsSend
  <1>7. ASSUME NEW x \in Letters, x # m PROVE LetterFits(x)'
    <2>1. told'[x] = told[x]
      BY <1>3, <1>7 DEF MailInv, MailTyped, Mails
    <2>2. \A i \in Desks : (Sends(desk'[i], x) => desk'[i] = desk[i])
                           /\ (Sends(desk[i], x) => desk'[i] = desk[i])
      BY <1>4, <1>5, <1>7, VacantIs
    <2> QED BY <1>3, <2>1, <2>2, SameLetter DEF MailInv
  <1>8. LetterFits(m)'
    <2>1. LetterFits(m) /\ Sends(desk[d], m)
      BY <1>4 DEF MailInv
    <2>2. Untold(m) /\ UpToDate(desk[d], m) /\ letter[m].state \notin {"none", "draft"}
      BY <2>1 DEF LetterFits
    <2>3. \A i \in Desks : ~Sends(desk'[i], m)
      BY <1>5, <2>1, VacantIs DEF LetterFits
    <2>4. \A p \in Staff : told'[m][p] = IF p \in to THEN 1 ELSE 0
      BY <1>3, <1>4, <2>2 DEF Untold, MailInv, MailTyped
    <2>5. letter'[m].state = "sent" /\ m \notin overwritten' => letter'[m].to = to
      BY <1>2, <1>3, <2>2 DEF UpToDate
    <2>6. letter'[m].to \subseteq Staff
      BY <1>3, <1>4 DEF MailInv, MailTyped, Mails
    <2>7. \A p \in Staff : told'[m][p] <= 1
      BY <2>4
    <2>8. letter'[m].state \notin {"none", "draft"}
      BY <1>3, <2>2
    <2>9. m \notin lost' \cup overwritten' /\ letter'[m].state = "sent" =>
            \A p \in letter'[m].to : told'[m][p] = 1
      BY <2>4, <2>5, <2>6
    <2> QED BY <2>3, <2>7, <2>8, <2>9 DEF LetterFits
  <1> QED BY <1>6, <1>7, <1>8 DEF MailInv

LEMMA DroppedKeeps ==
    ASSUME MailInv, NEW d \in Desks, Dropped(d)
    PROVE  MailInv'
PROOF
  <1>1. PICK m : m = desk[d].letter
    OBVIOUS
  <1>2. /\ desk[d].kind = "drop"
        /\ letter' = [letter EXCEPT ![m].state = "deleted", ![m].to = {}]
        /\ desk' = [desk EXCEPT ![d] = Vacant]
        /\ UNCHANGED <<present, told, lost, overwritten>>
    BY <1>1 DEF Dropped, Clear
  <1>3. m \in Letters /\ \A x : ~Sends(desk[d], x)
    BY <1>1, <1>2, DeskIs DEF MailInv, Sends
  <1>4. \A i \in Desks : desk'[i] = IF i = d THEN Vacant ELSE desk[i]
    BY <1>2 DEF MailInv, MailTyped, Mails
  <1>5. MailTyped' /\ ClaimsSend'
    <2>0. letter[m] \in Mails
      BY <1>3 DEF MailInv, MailTyped
    <2>1. [letter[m] EXCEPT !.state = "deleted", !.to = {}] \in Mails
      BY <2>0 DEF Mails
    <2>2. letter' = [letter EXCEPT ![m] = [letter[m] EXCEPT !.state = "deleted", !.to = {}]]
      BY <1>2
    <2>3. letter' \in [Letters -> Mails]
      BY <2>1, <2>2 DEF MailInv, MailTyped
    <2>4. desk' \in [Desks -> DeskTypes]
      BY <1>2, VacantIs DEF MailInv, MailTyped
    <2>5. MailTyped'
      BY <1>2, <2>3, <2>4 DEF MailInv, MailTyped
    <2> QED BY <1>4, <2>5, VacantIs DEF MailInv, ClaimsSend
  <1>6. \A x \in Letters, i \in Desks : (Sends(desk'[i], x) => desk'[i] = desk[i])
                         /\ (Sends(desk[i], x) => desk'[i] = desk[i])
    BY <1>3, <1>4, VacantIs
  <1>7. ASSUME NEW x \in Letters, x # m PROVE LetterFits(x)'
    <2>1. letter'[x] = letter[x]
      BY <1>2, <1>7 DEF MailInv, MailTyped, Mails
    <2> QED BY <1>2, <1>6, <2>1, SameLetter DEF MailInv
  <1>8. LetterFits(m)'
    <2>1. LetterFits(m) /\ letter'[m].state = "deleted"
      BY <1>2, <1>3 DEF MailInv, MailTyped, Mails
    <2>2. \A i \in Desks : Sends(desk'[i], m) => Sends(desk[i], m)
      BY <1>3, <1>6
    <2>3. \A i \in Desks : Sends(desk'[i], m) => Untold(m)' /\ UpToDate(desk[i], m)'
      BY <1>2, <2>1, <2>2 DEF LetterFits, Untold, UpToDate
    <2>4. /\ \A p \in Staff : told'[m][p] <= 1
          /\ \A i, e \in Desks : Sends(desk'[i], m) /\ Sends(desk'[e], m) => i = e
      BY <1>2, <2>1, <2>2 DEF LetterFits
    <2> QED BY <2>1, <2>3, <2>4 DEF LetterFits
  <1> QED BY <1>5, <1>7, <1>8 DEF MailInv

LEMMA RequestKeeps ==
    ASSUME MailInv, NEW d \in Desks, NEW m \in Letters,
           \/ \E send, change \in BOOLEAN, named \in SUBSET Staff : UpdateDraft(d, m, send, change, named)
           \/ DropDraft(d, m)
           \/ StopDesk(d)
    PROVE  MailInv'
PROOF
  <1>1. present \subseteq Staff
    BY DEF MailInv, MailTyped, Mails
  <1>2. ASSUME NEW send \in BOOLEAN, NEW change \in BOOLEAN, NEW named \in SUBSET Staff,
               UpdateDraft(d, m, send, change, named)
        PROVE  MailInv'
    <2>1. PICK to : to = IF change THEN Resolve(named, letter[m].sender) ELSE {}
      OBVIOUS
    <2>2. PICK w : w = [kind |-> IF send THEN "claim" ELSE "edit", letter |-> m, change |-> change,
                        send |-> send, to |-> to]
      OBVIOUS
    <2>3. /\ desk[d] = Vacant /\ desk' = [desk EXCEPT ![d] = w]
          /\ UNCHANGED <<present, letter, told, lost, overwritten>>
      BY <1>2, <2>1, <2>2 DEF UpdateDraft
    <2>4. to \subseteq Staff
      BY <1>1, <2>1 DEF Resolve
    <2>5. w \in DeskTypes /\ (w.kind = "claim" => w.send) /\ \A x : ~Sends(w, x)
      BY <2>2, <2>4 DEF DeskTypes, Sends
    <2> QED BY <1>1, <2>3, <2>5, VacantIs, SilentDesk
  <1>3. CASE DropDraft(d, m)
    <2>1. PICK w : w = [kind |-> "drop", letter |-> m]
      OBVIOUS
    <2>2. /\ desk[d] = Vacant /\ desk' = [desk EXCEPT ![d] = w]
          /\ UNCHANGED <<present, letter, told, lost, overwritten>>
      BY <1>3, <2>1 DEF DropDraft
    <2>3. w \in DeskTypes /\ w.kind # "claim" /\ \A x : ~Sends(w, x)
      BY <2>1 DEF DeskTypes, Sends
    <2> QED BY <1>1, <2>2, <2>3, VacantIs, SilentDesk
  <1>4. CASE StopDesk(d)
    <2>1. /\ desk' = [desk EXCEPT ![d] = Vacant]
          /\ UNCHANGED <<present, letter, told, overwritten>>
          /\ lost \subseteq lost'
          /\ \A x : Sends(desk[d], x) => x \in lost'
      BY <1>4 DEF StopDesk, Clear, Sends
    <2> QED BY <1>1, <2>1, VacantIs, SilentDesk
  <1> QED BY <1>2, <1>3, <1>4

LEMMA MailStays ==
    ASSUME MailInv, UNCHANGED <<letter, desk, told, lost, overwritten>>, present' \subseteq Staff
    PROVE  MailInv'
PROOF
  BY DEF MailInv, MailTyped, Mails, ClaimsSend, LetterFits, Untold, UpToDate

LEMMA MailKeeps == MailInv /\ [DraftNext \/ ReplyNext]_mailVars => MailInv'
PROOF
  <1> SUFFICES ASSUME MailInv, [DraftNext \/ ReplyNext]_mailVars PROVE MailInv'
    OBVIOUS
  <1>1. present \subseteq Staff
    BY DEF MailInv, MailTyped, Mails
  <1>2. CASE UNCHANGED mailVars
    BY <1>1, <1>2, MailStays DEF mailVars
  <1>3. ASSUME NEW p \in Staff, JoinOrLeave(p) PROVE MailInv'
    <2>1. present' \subseteq Staff
      BY <1>1, <1>3 DEF JoinOrLeave
    <2> QED BY <1>3, <2>1, MailStays DEF JoinOrLeave
  <1>4. ASSUME NEW p \in Staff, NEW m \in Letters, DiscardMail(p, m) PROVE MailInv'
    BY <1>1, <1>4, MailStays DEF DiscardMail
  <1>5. ASSUME NEW d \in Desks, NEW u \in Staff, NEW named \in SUBSET Staff, NEW draft \in BOOLEAN,
               \/ ComposeMail(d, u, named, draft)
               \/ \E n \in Letters : ReplyToMail(d, n, u, named, draft)
        PROVE  MailInv'
    <2>1. CASE ComposeMail(d, u, named, draft)
      <3>1. PICK root : root = NewLetter
        OBVIOUS
      <3>2. NewLetters # {} /\ Write(d, NewLetter, u, named, draft, root)
        BY <2>1, <3>1 DEF ComposeMail
      <3>3. root \in Letters
        BY <3>1, <3>2 DEF NewLetter, NewLetters
      <3> QED BY <3>2, <3>3, MailWriteKeeps
    <2>2. ASSUME NEW n \in Letters, ReplyToMail(d, n, u, named, draft) PROVE MailInv'
      <3>1. PICK root : root = letter[n].root
        OBVIOUS
      <3>2. NewLetters # {} /\ Write(d, NewLetter, u, named, draft, root)
        BY <2>2, <3>1 DEF ReplyToMail
      <3>3. root \in Letters \cup {NoLetter}
        BY <3>1 DEF MailInv, MailTyped, Mails
      <3> QED BY <3>2, <3>3, MailWriteKeeps
    <2> QED BY <1>5, <2>1, <2>2
  <1>6. ASSUME NEW d \in Desks, StopDesk(d) PROVE MailInv'
    <2>1. CASE Letters = {}
      <3>1. desk' = [desk EXCEPT ![d] = Vacant] /\ UNCHANGED <<present, letter, told>>
        BY <1>6 DEF StopDesk, Clear
      <3>2. MailTyped' /\ ClaimsSend'
        BY <3>1, VacantIs DEF MailInv, MailTyped, Mails, ClaimsSend
      <3> QED BY <2>1, <3>2 DEF MailInv
    <2>2. CASE Letters # {}
      BY <1>6, <2>2, RequestKeeps
    <2> QED BY <2>1, <2>2
  <1>7. CASE DraftNext
    BY <1>3, <1>5, <1>6, <1>7, RequestKeeps, ClaimKeepsMail, RewriteKeeps, AnnounceKeeps, DroppedKeeps
       DEF DraftNext
  <1>8. CASE ReplyNext
    <2>1. FALSE \in BOOLEAN
      OBVIOUS
    <2> QED BY <1>4, <1>5, <1>6, <1>8, <2>1, AnnounceKeeps DEF ReplyNext
  <1> QED BY <1>2, <1>7, <1>8

LEMMA MailToldOnce == MailInv => ToldOnce
PROOF
  BY DEF MailInv, LetterFits, ToldOnce, Sends, Sending

\* A mail that was written stays written, with the sender and the conversation it had.
Real(m) ==
    /\ letter[m].state # "none" /\ letter[m].sender \in Staff
    /\ letter[m].root \in Letters /\ letter[letter[m].root].root = letter[m].root

RootsInv ==
    /\ \A m \in Letters : letter[m] = NoMail \/ Real(m)
    /\ \A d \in Desks : desk[d].kind # "vacant" => letter[desk[d].letter].state # "none"
    /\ discarded \in [Letters -> SUBSET Staff]
    /\ lost \subseteq Letters /\ overwritten \subseteq Letters

LEMMA RootsStart == MailInit => RootsInv
PROOF
  BY DEF MailInit, RootsInv, Vacant

LEMMA MailTypes == MailTyped /\ RootsInv => MailTypeOK
PROOF
  <1> SUFFICES ASSUME MailTyped, RootsInv PROVE MailTypeOK
    OBVIOUS
  <1>1. ASSUME NEW m \in Letters, letter[m] # NoMail
        PROVE  /\ letter[m].state \in {"draft", "sent", "deleted"}
               /\ letter[m].sender \in Staff /\ letter[m].to \subseteq Staff
               /\ letter[letter[m].root].root = letter[m].root
    BY <1>1 DEF MailTyped, RootsInv, Real, Mails
  <1> QED BY <1>1 DEF MailTyped, RootsInv, MailTypeOK

\* A mail changes, its sender and conversation do not.
LEMMA SameRoots ==
    ASSUME MailTyped, RootsInv, NEW m \in Letters, NEW c, letter' = [letter EXCEPT ![m] = c],
           letter[m].state # "none", c.state # "none", c.sender = letter[m].sender, c.root = letter[m].root
    PROVE  /\ \A n \in Letters : letter'[n] = NoMail \/ Real(n)'
           /\ \A n \in Letters : letter[n].state # "none" => letter'[n].state # "none"
PROOF
  <1>1. \A n \in Letters : letter'[n] = IF n = m THEN c ELSE letter[n]
    BY DEF MailTyped
  <1>2. \A n \in Letters : letter'[n].root = letter[n].root
    BY <1>1
  <1>3. ASSUME NEW n \in Letters, letter'[n] # NoMail PROVE Real(n)'
    <2>1. Real(n)
      BY <1>1, <1>3 DEF RootsInv, NoMail
    <2>2. letter'[n].state # "none" /\ letter'[n].sender = letter[n].sender
      BY <1>1, <2>1 DEF Real
    <2> QED BY <1>2, <2>1, <2>2 DEF Real
  <1> QED BY <1>1, <1>3

LEMMA DeskLetter ==
    ASSUME MailTyped, NEW d \in Desks, desk[d].kind # "vacant"
    PROVE  desk[d].letter \in Letters
PROOF
  <1>1. desk[d] \in DeskTypes
    BY DEF MailTyped
  <1> QED BY <1>1 DEF DeskTypes, Vacant

LEMMA DeskRoots ==
    ASSUME MailTyped, RootsInv, NEW d \in Desks, NEW w, desk' = [desk EXCEPT ![d] = w],
           \A n \in Letters : letter'[n] = NoMail \/ Real(n)',
           \A n \in Letters : letter[n].state # "none" => letter'[n].state # "none",
           w.kind # "vacant" => letter'[w.letter].state # "none",
           discarded' \in [Letters -> SUBSET Staff],
           lost' \subseteq Letters, overwritten' \subseteq Letters
    PROVE  RootsInv'
PROOF
  <1>1. ASSUME NEW e \in Desks, desk'[e].kind # "vacant" PROVE letter'[desk'[e].letter].state # "none"
    <2>1. CASE e = d
      BY <1>1, <2>1 DEF MailTyped
    <2>2. CASE e # d
      <3>1. desk'[e] = desk[e]
        BY <2>2 DEF MailTyped
      <3>2. desk[e].letter \in Letters
        BY <1>1, <3>1, DeskLetter
      <3> QED BY <1>1, <3>1, <3>2 DEF RootsInv
    <2> QED BY <2>1, <2>2
  <1> QED BY <1>1 DEF RootsInv

LEMMA VacantRoots ==
    ASSUME NEW d, Clear(d)
    PROVE  desk' = [desk EXCEPT ![d] = Vacant] /\ Vacant.kind = "vacant"
PROOF
  BY DEF Clear, Vacant

LEMMA WriteRoots ==
    ASSUME MailTyped, RootsInv, NewLetters # {}, NEW d \in Desks, NEW u, NEW named, NEW draft \in BOOLEAN,
           NEW root \in Letters, root = NewLetter \/ (root # NewLetter /\ letter[root].root = root),
           Write(d, NewLetter, u, named, draft, root)
    PROVE  RootsInv'
PROOF
  <1>1. PICK m : m = NewLetter /\ m \in Letters /\ letter[m] = NoMail
    BY DEF NewLetter, NewLetters
  <1>2. PICK to, c : to = Resolve(named, u) /\ c = [state |-> IF draft THEN "draft" ELSE "sent",
                                                    sender |-> u, to |-> to, root |-> root]
    OBVIOUS
  <1>3. letter' = [letter EXCEPT ![m] = c] /\ u \in Staff
    BY <1>1, <1>2 DEF Write, MailTyped
  <1>4. \A n \in Letters : letter'[n] = IF n = m THEN c ELSE letter[n]
    BY <1>3 DEF MailTyped
  <1>5. ASSUME NEW n \in Letters, letter'[n] # NoMail PROVE Real(n)'
    <2>1. CASE n = m
      <3>1. letter'[root].root = root
        BY <1>1, <1>2, <1>4
      <3> QED BY <1>2, <1>3, <1>4, <2>1, <3>1 DEF Real
    <2>2. CASE n # m
      <3>1. Real(n) /\ letter'[n] = letter[n]
        BY <1>4, <1>5, <2>2 DEF RootsInv
      <3>2. letter[n].root # m
        BY <1>1, <3>1, MailAssumption DEF MailAssumption, Real, NoMail
      <3> QED BY <1>4, <3>1, <3>2 DEF Real
    <2> QED BY <2>1, <2>2
  <1>6. \A n \in Letters : letter[n].state # "none" => letter'[n].state # "none"
    BY <1>1, <1>4 DEF NoMail
  <1>7. letter'[m].state # "none"
    BY <1>1, <1>2, <1>4
  <1>8. discarded' \in [Letters -> SUBSET Staff] /\ lost' = lost /\ overwritten' = overwritten
    BY <1>1 DEF Write, RootsInv
  <1>9. PICK w : desk' = [desk EXCEPT ![d] = w] /\ (w.kind # "vacant" => w.letter = m)
    <2>1. CASE draft
      <3>1. desk' = [desk EXCEPT ![d] = desk[d]] /\ desk[d].kind = "vacant"
        BY <2>1 DEF Write, MailTyped, Vacant
      <3> QED BY <3>1
    <2>2. CASE ~draft
      <3>1. PICK w : w = [kind |-> "announce", letter |-> m, to |-> to, all |-> FALSE]
        OBVIOUS
      <3>2. desk' = [desk EXCEPT ![d] = w]
        BY <1>1, <1>2, <2>2, <3>1 DEF Write
      <3>3. w.letter = m
        BY <3>1
      <3> QED BY <3>2, <3>3, Zenon
    <2> QED BY <2>1, <2>2
  <1> QED BY <1>5, <1>6, <1>7, <1>8, <1>9, DeskRoots DEF RootsInv

\* Nothing is written to a mail.
LEMMA ReadsRoots ==
    ASSUME MailTyped, RootsInv, UNCHANGED letter, NEW d \in Desks, NEW w, desk' = [desk EXCEPT ![d] = w],
           w.kind # "vacant" => letter[w.letter].state # "none",
           discarded' = discarded, lost' \subseteq Letters, overwritten' \subseteq Letters
    PROVE  RootsInv'
PROOF
  <1>1. \A n \in Letters : letter'[n] = NoMail \/ Real(n)'
    BY DEF RootsInv, Real
  <1> QED BY <1>1, DeskRoots DEF RootsInv

LEMMA DraftRoots ==
    ASSUME MailTyped, RootsInv, NEW d \in Desks, NEW m \in Letters, NEW send, NEW change, NEW named,
           UpdateDraft(d, m, send, change, named) \/ DropDraft(d, m)
    PROVE  RootsInv'
PROOF
  <1>1. letter[m].state # "none"
    BY DEF UpdateDraft, DropDraft
  <1>2. PICK w : desk' = [desk EXCEPT ![d] = w] /\ w.letter = m
    <2>1. CASE DropDraft(d, m)
      <3>1. PICK w : w = [kind |-> "drop", letter |-> m]
        OBVIOUS
      <3>2. desk' = [desk EXCEPT ![d] = w] /\ w.letter = m
        BY <2>1, <3>1 DEF DropDraft
      <3> QED BY <3>2, Zenon
    <2>2. CASE UpdateDraft(d, m, send, change, named)
      <3>1. PICK to : to = IF change THEN Resolve(named, letter[m].sender) ELSE letter[m].to
        OBVIOUS
      <3>2. PICK w : w = [kind |-> IF send THEN "claim" ELSE "edit", letter |-> m, change |-> change,
                          send |-> send, to |-> IF change THEN to ELSE {}]
        OBVIOUS
      <3>3. desk' = [desk EXCEPT ![d] = w]
        BY <2>2, <3>1, <3>2 DEF UpdateDraft
      <3>4. w.letter = m
        BY <3>2
      <3> QED BY <3>3, <3>4, Zenon
    <2> QED BY <2>1, <2>2
  <1> QED BY <1>1, <1>2, ReadsRoots DEF UpdateDraft, DropDraft, RootsInv

LEMMA ClaimRoots ==
    ASSUME MailTyped, RootsInv, NEW d \in Desks, Claim(d)
    PROVE  RootsInv'
PROOF
  <1>1. PICK m : m = desk[d].letter /\ m \in Letters
    BY DeskIs DEF Claim
  <1>2. CASE Claimable(m)
    <2>1. PICK c, w : c = [letter[m] EXCEPT !.state = "sent"] /\ w = [desk[d] EXCEPT !.kind = "edit"]
      OBVIOUS
    <2>2. letter' = [letter EXCEPT ![m] = c] /\ desk' = [desk EXCEPT ![d] = w]
      BY <1>1, <1>2, <2>1 DEF Claim, MailTyped
    <2>3. /\ letter[m].state # "none" /\ c.state = "sent"
          /\ c.sender = letter[m].sender /\ c.root = letter[m].root
      BY <1>1, <1>2, <2>1 DEF Claimable, MailTyped, Mails
    <2>4. w.letter = m /\ letter'[m] = c
      BY <1>1, <2>1, <2>2, DeskIs DEF Claim, MailTyped
    <2>5. /\ \A n \in Letters : letter'[n] = NoMail \/ Real(n)'
          /\ \A n \in Letters : letter[n].state # "none" => letter'[n].state # "none"
      BY <1>1, <2>2, <2>3, SameRoots
    <2>6. letter'[w.letter].state # "none"
      BY <2>3, <2>4
    <2>7. discarded' = discarded /\ lost' = lost /\ overwritten' = overwritten
      BY DEF Claim
    <2> QED BY <2>2, <2>5, <2>6, <2>7, DeskRoots DEF RootsInv
  <1>3. CASE ~Claimable(m)
    BY <1>1, <1>3, VacantRoots, ReadsRoots DEF Claim, RootsInv
  <1> QED BY <1>2, <1>3

LEMMA RewriteRoots ==
    ASSUME MailTyped, RootsInv, NEW d \in Desks, Rewrite(d)
    PROVE  RootsInv'
PROOF
  <1>1. PICK m : m = desk[d].letter /\ m \in Letters
    BY DeskIs DEF Rewrite
  <1>2. CASE letter[m].state \in {"none", "deleted"}
    BY <1>1, <1>2, VacantRoots, ReadsRoots DEF Rewrite, RootsInv
  <1>3. CASE letter[m].state \notin {"none", "deleted"}
    <2>1. PICK c : /\ letter' = [letter EXCEPT ![m] = c]
                   /\ c.state = letter[m].state /\ c.sender = letter[m].sender /\ c.root = letter[m].root
      <3>1. CASE desk[d].change
        <4>1. PICK c : c = [letter[m] EXCEPT !.to = desk[d].to]
          OBVIOUS
        <4>2. letter' = [letter EXCEPT ![m] = c]
          BY <1>1, <1>3, <3>1, <4>1 DEF Rewrite, MailTyped
        <4>3. c.state = letter[m].state /\ c.sender = letter[m].sender /\ c.root = letter[m].root
          BY <1>1, <4>1 DEF MailTyped, Mails
        <4> QED BY <4>2, <4>3
      <3>2. CASE ~desk[d].change
        <4>1. letter' = [letter EXCEPT ![m] = letter[m]]
          BY <1>1, <1>3, <3>2 DEF Rewrite, MailTyped
        <4> QED BY <4>1
      <3> QED BY <3>1, <3>2
    <2>2. letter'[m] = c
      BY <1>1, <2>1 DEF MailTyped
    <2>3. PICK w : desk' = [desk EXCEPT ![d] = w] /\ (w.kind # "vacant" => w.letter = m)
      BY <1>1, <1>3, VacantRoots DEF Rewrite
    <2>4. discarded' \in [Letters -> SUBSET Staff] /\ lost' = lost /\ overwritten' \subseteq Letters
      BY <1>1, <1>3 DEF Rewrite, RootsInv
    <2>5. /\ \A n \in Letters : letter'[n] = NoMail \/ Real(n)'
          /\ \A n \in Letters : letter[n].state # "none" => letter'[n].state # "none"
      <3>1. letter[m].state # "none" /\ c.state # "none"
        BY <1>3, <2>1
      <3> QED BY <1>1, <2>1, <3>1, SameRoots
    <2>6. w.kind # "vacant" => letter'[w.letter].state # "none"
      BY <1>3, <2>1, <2>2, <2>3
    <2>7. lost' \subseteq Letters
      BY <2>4 DEF RootsInv
    <2> QED BY <2>3, <2>4, <2>5, <2>6, <2>7, DeskRoots
  <1> QED BY <1>2, <1>3

LEMMA DroppedRoots ==
    ASSUME MailTyped, RootsInv, NEW d \in Desks, Dropped(d)
    PROVE  RootsInv'
PROOF
  <1>1. PICK m : m = desk[d].letter /\ m \in Letters
    BY DeskIs DEF Dropped
  <1>2. PICK c : c = [letter[m] EXCEPT !.state = "deleted", !.to = {}]
    OBVIOUS
  <1>3. letter' = [letter EXCEPT ![m] = c]
    BY <1>1, <1>2 DEF Dropped, MailTyped
  <1>4. c.state = "deleted" /\ c.sender = letter[m].sender /\ c.root = letter[m].root
    BY <1>1, <1>2 DEF MailTyped, Mails
  <1>5. letter[m].state # "none"
    BY <1>1 DEF Dropped, RootsInv
  <1>6. /\ \A n \in Letters : letter'[n] = NoMail \/ Real(n)'
        /\ \A n \in Letters : letter[n].state # "none" => letter'[n].state # "none"
    <2>1. c.state # "none"
      BY <1>4
    <2> QED BY <1>1, <1>3, <1>4, <1>5, <2>1, SameRoots
  <1>7. desk' = [desk EXCEPT ![d] = Vacant] /\ Vacant.kind = "vacant"
    BY VacantRoots DEF Dropped
  <1>8. discarded' = discarded /\ lost' = lost /\ overwritten' = overwritten
    BY DEF Dropped
  <1> QED BY <1>6, <1>7, <1>8, DeskRoots DEF RootsInv

LEMMA RestRoots ==
    ASSUME MailTyped, RootsInv, NEW d \in Desks, Announce(d) \/ StopDesk(d)
    PROVE  RootsInv'
PROOF
  <1>1. desk[d].kind \in {"announce", "edit"} => desk[d].letter \in Letters
    BY DeskIs
  <1>2. lost' \subseteq Letters /\ overwritten' \subseteq Letters
    BY <1>1 DEF Announce, StopDesk, RootsInv
  <1> QED BY <1>2, ReadsRoots, VacantRoots DEF Announce, StopDesk

LEMMA RootsKeep == MailTyped /\ RootsInv /\ [DraftNext \/ ReplyNext]_mailVars => RootsInv'
PROOF
  <1> SUFFICES ASSUME MailTyped, RootsInv, [DraftNext \/ ReplyNext]_mailVars PROVE RootsInv'
    OBVIOUS
  <1>1. CASE UNCHANGED mailVars
    BY <1>1 DEF mailVars, RootsInv, Real
  <1>2. ASSUME NEW d \in Desks, NEW u, NEW named, NEW draft \in BOOLEAN, ComposeMail(d, u, named, draft)
        PROVE  RootsInv'
    <2>1. NewLetter \in Letters
      BY <1>2 DEF ComposeMail, NewLetter, NewLetters
    <2> QED BY <1>2, <2>1, WriteRoots DEF ComposeMail
  <1>3. ASSUME NEW d \in Desks, NEW n \in Letters, NEW u, NEW named, ReplyToMail(d, n, u, named, FALSE)
        PROVE  RootsInv'
    <2>1. Real(n)
      BY <1>3 DEF ReplyToMail, RootsInv, NoMail
    <2>2. letter[NewLetter] = NoMail
      BY <1>3 DEF ReplyToMail, NewLetter, NewLetters
    <2>3. letter[n].root # NewLetter
      BY <2>1, <2>2, MailAssumption DEF MailAssumption, Real, NoMail
    <2>4. FALSE \in BOOLEAN
      OBVIOUS
    <2> QED BY <1>3, <2>1, <2>3, <2>4, WriteRoots DEF ReplyToMail, Real
  <1>4. ASSUME NEW p \in Staff, NEW m \in Letters, DiscardMail(p, m) PROVE RootsInv'
    BY <1>4 DEF DiscardMail, RootsInv, Real
  <1>5. ASSUME NEW p, JoinOrLeave(p) PROVE RootsInv'
    BY <1>5 DEF JoinOrLeave, RootsInv, Real
  <1>6. FALSE \in BOOLEAN
    OBVIOUS
  <1>7. CASE DraftNext
    BY <1>2, <1>5, <1>7, DraftRoots, ClaimRoots, RewriteRoots, DroppedRoots, RestRoots DEF DraftNext
  <1>8. CASE ReplyNext
    BY <1>2, <1>3, <1>4, <1>6, <1>8, RestRoots DEF ReplyNext
  <1> QED BY <1>1, <1>7, <1>8

----------------------------------------------------------------------------
(* Notifications.                                                          *)

Strands == [phase : {"rest", "search", "next", "tell"}, todo : SUBSET People,
            user : People \cup {Nobody}, text : Wordings]

Counts == [NoticeTypes -> [Wordings -> Nat]]

NoticesTyped ==
    /\ assignees \subseteq People
    /\ unread \in [People -> Counts]
    /\ wording \in [ScanTypes -> Wordings]
    /\ strand \in [Scans -> [ScanTypes -> Strands]]

\* Of one matter a user has one notification at most.
OneOfEach(u, type) ==
    \A s, t \in Wordings :
        SameMatter(type, s, t) /\ unread[u][type][s] > 0 /\ unread[u][type][t] > 0
            => s = t /\ unread[u][type][s] = 1

\* NotifiedOnce is not inductive: who is about to be told of a matter has nothing unread
\* of it, and is about to be told of it by one run.
ToldFits(u, type) ==
    <<u, type>> \notin doubled =>
        /\ OneOfEach(u, type)
        /\ \A r \in Scans, w \in Wordings : Telling(r, type, u, w) => unread[u][type][w] = 0
        /\ \A q, r \in Scans, w \in Wordings :
             Telling(q, type, u, w) /\ Telling(r, type, u, w) => q = r

NoticesInv == NoticesTyped /\ \A u \in People, type \in ScanTypes : ToldFits(u, type)

LEMMA ScanTypesAre == ScanTypes \subseteq NoticeTypes
PROOF
  BY DEF NoticeTypes

LEMMA RestingIs == SomeWords \in Wordings /\ Resting \in Strands /\ Resting.phase = "rest"
PROOF
  BY NoticesAssumption DEF NoticesAssumption, SomeWords, Resting, Strands

LEMMA NothingNewIs ==
    NothingNew \in Counts /\ \A type \in NoticeTypes, w \in Wordings : NothingNew[type][w] = 0
PROOF
  BY DEF NothingNew, Counts

\* What it is to be of the same matter.
LEMMA Matters ==
    ASSUME NEW type, NEW s, NEW t, SameMatter(type, s, t)
    PROVE  /\ SameMatter(type, t, s)
           /\ \A q, u : Telling(q, type, u, s) => Telling(q, type, u, t)
PROOF
  BY DEF SameMatter, Telling

LEMMA NoticesStart == NoticesInit => NoticesInv
PROOF
  <1> SUFFICES ASSUME NoticesInit PROVE NoticesInv
    OBVIOUS
  <1>1. NoticesTyped
    BY RestingIs, NothingNewIs DEF NoticesInit, NoticesTyped
  <1>2. \A r \in Scans, type \in ScanTypes : \A u, w : ~Telling(r, type, u, w)
    BY RestingIs DEF NoticesInit, Telling
  <1>3. \A u \in People, type \in ScanTypes, w \in Wordings : unread[u][type][w] = 0
    BY ScanTypesAre, NothingNewIs DEF NoticesInit
  <1> QED BY <1>1, <1>2, <1>3 DEF NoticesInv, ToldFits, OneOfEach

\* Counts only go down, so what was one at most is.
LEMMA FewerOfEach ==
    ASSUME NEW u \in People, NEW type \in ScanTypes, OneOfEach(u, type),
           \A w \in Wordings : /\ unread[u][type][w] \in Nat /\ unread'[u][type][w] \in Nat
                               /\ unread'[u][type][w] <= unread[u][type][w]
    PROVE  OneOfEach(u, type)'
PROOF
  <1> SUFFICES ASSUME NEW s \in Wordings, NEW t \in Wordings, SameMatter(type, s, t),
                      unread'[u][type][s] > 0, unread'[u][type][t] > 0
               PROVE  s = t /\ unread'[u][type][s] = 1
    BY DEF OneOfEach
  <1>1. unread[u][type][s] > 0 /\ unread[u][type][t] > 0
    OBVIOUS
  <1>2. s = t /\ unread[u][type][s] = 1
    BY <1>1 DEF OneOfEach
  <1> QED BY <1>2

\* Steps of the scans that begin to tell nobody, and steps of users that add no
\* notification of a scan.
LEMMA NobodyMoreTold ==
    ASSUME NoticesInv, NoticesTyped', doubled' = doubled,
           \A u \in People, type \in ScanTypes, w \in Wordings :
              unread'[u][type][w] <= unread[u][type][w],
           \A r \in Scans, type \in ScanTypes : \A u, w :
              Telling(r, type, u, w)' => Telling(r, type, u, w)
    PROVE  NoticesInv'
PROOF
  <1> SUFFICES ASSUME NEW u \in People, NEW type \in ScanTypes,
                      <<u, type>> \notin doubled
               PROVE  /\ OneOfEach(u, type)'
                      /\ \A r \in Scans, w \in Wordings :
                           Telling(r, type, u, w)' => unread'[u][type][w] = 0
                      /\ \A q, r \in Scans, w \in Wordings :
                           Telling(q, type, u, w)' /\ Telling(r, type, u, w)' => q = r
    BY DEF NoticesInv, ToldFits
  <1>1. /\ OneOfEach(u, type)
        /\ \A r \in Scans, w \in Wordings : Telling(r, type, u, w) => unread[u][type][w] = 0
        /\ \A q, r \in Scans, w \in Wordings :
             Telling(q, type, u, w) /\ Telling(r, type, u, w) => q = r
    BY DEF NoticesInv, ToldFits
  <1>2. \A w \in Wordings : /\ unread[u][type][w] \in Nat /\ unread'[u][type][w] \in Nat
                            /\ unread'[u][type][w] <= unread[u][type][w]
    BY ScanTypesAre DEF NoticesInv, NoticesTyped, Counts
  <1>3. OneOfEach(u, type)'
    BY <1>1, <1>2, FewerOfEach
  <1>4. \A r \in Scans, w \in Wordings : Telling(r, type, u, w)' => unread'[u][type][w] = 0
    BY <1>1, <1>2
  <1> QED BY <1>1, <1>3, <1>4

LEMMA NotifyTypes ==
    ASSUME NoticesTyped, NEW users, NEW type \in NoticeTypes, NEW text \in Wordings,
           Notify(users, type, text)
    PROVE  /\ unread' \in [People -> Counts]
           /\ \A u \in People, t \in NoticeTypes, w \in Wordings :
                t # type \/ u \notin users \/ w # text => unread'[u][t][w] = unread[u][t][w]
           /\ \A u \in People : unread'[u][type][text] <= unread[u][type][text] + 1
PROOF
  <1> DEFINE More(u) == [unread[u] EXCEPT ![type] = [unread[u][type] EXCEPT ![text] = @ + 1]]
  <1>1. unread' = [u \in People |-> IF u \in users /\ Hears(u, type) THEN More(u) ELSE unread[u]]
    BY DEF Notify
  <1>2. ASSUME NEW u \in People
        PROVE  /\ unread[u] \in Counts /\ More(u) \in Counts
               /\ \A t \in NoticeTypes, w \in Wordings :
                    t # type \/ w # text => More(u)[t][w] = unread[u][t][w]
               /\ More(u)[type][text] = unread[u][type][text] + 1
               /\ unread[u][type][text] \in Nat
    <2>1. unread[u] \in [NoticeTypes -> [Wordings -> Nat]]
      BY DEF NoticesTyped, Counts
    <2>2. PICK f : f = [unread[u][type] EXCEPT ![text] = @ + 1]
      OBVIOUS
    <2>3. /\ f \in [Wordings -> Nat] /\ f[text] = unread[u][type][text] + 1
          /\ \A w \in Wordings : w # text => f[w] = unread[u][type][w]
      BY <2>1, <2>2
    <2>4. More(u) = [unread[u] EXCEPT ![type] = f]
      BY <2>2
    <2> QED BY <2>1, <2>3, <2>4 DEF Counts
  <1>3. \A u \in People : unread'[u] = IF u \in users /\ Hears(u, type) THEN More(u) ELSE unread[u]
    BY <1>1
  <1> HIDE DEF More
  <1>4. unread' \in [People -> Counts]
    BY <1>1, <1>2
  <1>5. \A u \in People, t \in NoticeTypes, w \in Wordings :
           t # type \/ u \notin users \/ w # text => unread'[u][t][w] = unread[u][t][w]
    BY <1>2, <1>3
  <1>6. \A u \in People : unread'[u][type][text] <= unread[u][type][text] + 1
    BY <1>2, <1>3
  <1> QED BY <1>4, <1>5, <1>6

\* Requests of users write other types, or take notifications away.
LEMMA TalkKeepsNotices == NoticesInv /\ TalkNext => NoticesInv'
PROOF
  <1> SUFFICES ASSUME NoticesInv, TalkNext PROVE NoticesInv'
    OBVIOUS
  <1>1. /\ NoticesTyped
        /\ \A u \in People, t \in NoticeTypes, w \in Wordings : unread[u][t][w] \in Nat
    BY DEF NoticesInv, NoticesTyped, Counts
  <1>2. ASSUME NEW users, NEW type \in NoticeTypes \ ScanTypes, Notify(users, type, SomeWords),
               UNCHANGED <<assignees, wording, strand, doubled>>
        PROVE  NoticesInv'
    <2>1. PICK text \in Wordings : Notify(users, type, text)
      BY <1>2, RestingIs
    <2>2. type \in NoticeTypes
      OBVIOUS
    <2>3. NoticesTyped
      BY <1>1
    <2>4. /\ unread' \in [People -> Counts]
          /\ \A u \in People, t \in NoticeTypes, w \in Wordings :
               t # type \/ u \notin users \/ w # text => unread'[u][t][w] = unread[u][t][w]
          /\ \A u \in People : unread'[u][type][text] <= unread[u][type][text] + 1
      BY <2>1, <2>2, <2>3, NotifyTypes, Zenon
    <2>5. /\ unread' \in [People -> Counts]
          /\ \A u \in People, t \in NoticeTypes, w \in Wordings :
               t # type => unread'[u][t][w] = unread[u][t][w]
      BY <2>4
    <2>6. NoticesTyped'
      BY <1>1, <1>2, <2>5 DEF NoticesTyped
    <2>7. \A u \in People, t \in ScanTypes, w \in Wordings : unread'[u][t][w] <= unread[u][t][w]
      BY <1>1, <2>5, ScanTypesAre
    <2> QED BY <1>2, <2>6, <2>7, NobodyMoreTold DEF Telling
  <1>3. ASSUME UNCHANGED <<assignees, unread, wording, strand, doubled>> PROVE NoticesInv'
    <2>1. \A u \in People, t \in ScanTypes, w \in Wordings : unread'[u][t][w] <= unread[u][t][w]
      BY <1>1, <1>3, ScanTypesAre
    <2>2. NoticesTyped'
      BY <1>1, <1>3 DEF NoticesTyped
    <2> QED BY <1>3, <2>1, <2>2, NobodyMoreTold DEF Telling
  <1>4. ASSUME NEW u \in People, MarkAllAsRead(u) PROVE NoticesInv'
    <2>1. /\ unread' = [unread EXCEPT ![u] = NothingNew]
          /\ UNCHANGED <<assignees, wording, strand, doubled>>
      BY <1>4 DEF MarkAllAsRead
    <2>2. NoticesTyped'
      BY <1>1, <2>1, NothingNewIs DEF NoticesTyped
    <2>3. \A x \in People : unread'[x] = IF x = u THEN NothingNew ELSE unread[x]
      BY <1>1, <2>1 DEF NoticesTyped
    <2>4. \A x \in People, t \in ScanTypes, w \in Wordings : unread'[x][t][w] <= unread[x][t][w]
      BY <1>1, <2>3, ScanTypesAre, NothingNewIs
    <2> QED BY <2>1, <2>2, <2>4, NobodyMoreTold DEF Telling
  <1>5. {"MENTIONED", "WATCHED_CARD_ACTIVITY", "BLOCKER_RESOLVED"} \subseteq NoticeTypes \ ScanTypes
    BY DEF NoticeTypes, ScanTypes
  <1>6. ASSUME NEW k \in Talks, NEW named, Mention(k, named) PROVE NoticesInv'
    BY <1>2, <1>5, <1>6 DEF Mention
  <1>7. ASSUME NEW k \in Talks, TellWatchers(k) PROVE NoticesInv'
    BY <1>2, <1>5, <1>7 DEF TellWatchers
  <1>8. ASSUME BlockerResolved PROVE NoticesInv'
    BY <1>2, <1>5, <1>8 DEF BlockerResolved
  <1>9. ASSUME NEW k \in Talks,
               \/ \E u \in People, to \in Comments \cup {Nobody} : BeginComment(k, u, to)
               \/ InsertComment(k) \/ AutoWatch(k)
        PROVE  NoticesInv'
    BY <1>3, <1>9 DEF BeginComment, InsertComment, AutoWatch
  <1>10. ASSUME NEW u \in People, Watch(u) \/ ComeAndGo(u) \/ SetPref(u, "WATCHED_CARD_ACTIVITY")
         PROVE  NoticesInv'
    BY <1>3, <1>10 DEF Watch, ComeAndGo, SetPref
  <1>11. ASSUME NEW x \in Comments, DeleteComment(x) PROVE NoticesInv'
    BY <1>3, <1>11 DEF DeleteComment
  <1> QED
    BY <1>4, <1>6, <1>7, <1>8, <1>9, <1>10, <1>11 DEF TalkNext

LEMMA LookKeeps ==
    ASSUME NoticesInv, NEW r \in Scans, NEW type \in ScanTypes, NEW u \in People, Look(r, type, u)
    PROVE  NoticesInv'
PROOF
  <1>1. PICK s : s = strand[r][type]
    OBVIOUS
  <1>2. s \in Strands /\ NoticesTyped
    BY <1>1 DEF NoticesInv, NoticesTyped
  <1>3. PICK left : left = [s EXCEPT !.todo = @ \ {u}]
    OBVIOUS
  <1>4. left \in Strands /\ left.phase = s.phase
    BY <1>2, <1>3 DEF Strands
  <1>5. s.phase = "next" /\ UNCHANGED <<unread, assignees, wording>>
    BY <1>1 DEF Look
  <1>6. ASSUME NEW t \in Strands, strand' = [strand EXCEPT ![r][type] = t]
        PROVE  /\ NoticesTyped'
               /\ \A q \in Scans, x \in ScanTypes : \A v, w :
                    Telling(q, x, v, w)' <=>
                       IF q = r /\ x = type
                       THEN t.phase = "tell" /\ t.user = v /\ SameMatter(x, w, t.text)
                       ELSE Telling(q, x, v, w)
    <2>1. strand \in [Scans -> [ScanTypes -> Strands]]
      BY <1>2 DEF NoticesTyped
    <2>2. strand' \in [Scans -> [ScanTypes -> Strands]]
      BY <1>6, <2>1
    <2>3. \A q \in Scans, x \in ScanTypes :
             strand'[q][x] = IF q = r /\ x = type THEN t ELSE strand[q][x]
      BY <1>6, <2>1
    <2>4. NoticesTyped'
      BY <1>2, <1>5, <2>2 DEF NoticesTyped
    <2> QED BY <2>3, <2>4 DEF Telling
  <1>7. CASE Known(u, type, left.text)
    <2>1. PICK t : t = IF left.todo = {} THEN Resting ELSE left
      OBVIOUS
    <2>2. strand' = [strand EXCEPT ![r][type] = t] /\ doubled' = doubled
      BY <1>1, <1>3, <1>7, <2>1 DEF Look
    <2>3. t \in Strands /\ t.phase # "tell"
      BY <1>4, <1>5, <2>1, RestingIs
    <2>4. \A x \in People, y \in ScanTypes, w \in Wordings : unread'[x][y][w] <= unread[x][y][w]
      BY <1>2, <1>5, ScanTypesAre DEF NoticesTyped, Counts
    <2> QED BY <1>6, <2>2, <2>3, <2>4, NobodyMoreTold
  <1>8. CASE ~Known(u, type, left.text)
    <2>0. PICK m \in Wordings : m = left.text
      BY <1>4 DEF Strands
    <2>1. PICK t : t = [left EXCEPT !.phase = "tell", !.user = u]
      OBVIOUS
    <2>2. /\ strand' = [strand EXCEPT ![r][type] = t]
          /\ doubled' = IF \E q \in Scans : Telling(q, type, u, m)
                        THEN doubled \cup {<<u, type>>} ELSE doubled
      BY <1>1, <1>3, <1>8, <2>0, <2>1 DEF Look
    <2>3. t \in Strands /\ t.phase = "tell" /\ t.user = u /\ t.text = m
      BY <1>4, <2>0, <2>1 DEF Strands
    <2>4. \A w \in Wordings : SameMatter(type, w, m) => unread[u][type][w] = 0
      BY <1>2, <1>8, <2>0, ScanTypesAre, Matters DEF Known, NoticesTyped, Counts
    <2>5. NoticesTyped' /\ \A q \in Scans, x \in ScanTypes : \A v, w :
                    Telling(q, x, v, w)' <=> IF q = r /\ x = type THEN u = v /\ SameMatter(x, w, m)
                                             ELSE Telling(q, x, v, w)
      BY <1>6, <2>2, <2>3
    <2>6. ASSUME NEW x \in People, NEW y \in ScanTypes PROVE ToldFits(x, y)'
      <3>1. ToldFits(x, y)
        BY DEF NoticesInv
      <3>2. CASE x = u /\ y = type
        <4>1. CASE \E q \in Scans : Telling(q, type, u, m)
          BY <2>2, <3>2, <4>1 DEF ToldFits
        <4>2. CASE \A q \in Scans : ~Telling(q, type, u, m)
          <5> SUFFICES ASSUME <<u, type>> \notin doubled'
                       PROVE  ToldFits(u, type)'
            BY <3>2 DEF ToldFits
          <5>1. <<u, type>> \notin doubled
            BY <2>2
          <5>2. \A q \in Scans, w \in Wordings :
                   Telling(q, type, u, w)' => IF q = r THEN SameMatter(type, w, m)
                                              ELSE Telling(q, type, u, w) /\ ~SameMatter(type, w, m)
            BY <2>5, <4>2, Matters
          <5>3. OneOfEach(u, type)'
            BY <1>5, <3>1, <3>2, <5>1 DEF ToldFits, OneOfEach
          <5>4. \A q \in Scans, w \in Wordings : Telling(q, type, u, w)' => unread'[u][type][w] = 0
            BY <1>5, <2>4, <3>1, <3>2, <5>1, <5>2 DEF ToldFits
          <5>5. \A p, q \in Scans, w \in Wordings :
                   Telling(p, type, u, w)' /\ Telling(q, type, u, w)' => p = q
            BY <3>1, <3>2, <5>1, <5>2 DEF ToldFits
          <5> QED BY <5>3, <5>4, <5>5 DEF ToldFits
        <4> QED BY <4>1, <4>2
      <3>3. CASE x # u \/ y # type
        <4>1. \A q \in Scans, w \in Wordings : Telling(q, y, x, w)' => Telling(q, y, x, w)
          BY <2>5, <3>3
        <4>2. <<x, y>> \notin doubled' => <<x, y>> \notin doubled
          BY <2>2
        <4> QED BY <1>5, <3>1, <4>1, <4>2 DEF ToldFits, OneOfEach
      <3> QED BY <3>2, <3>3
    <2> QED BY <2>5, <2>6 DEF NoticesInv
  <1> QED BY <1>7, <1>8

LEMMA TellKeeps ==
    ASSUME NoticesInv, NEW r \in Scans, NEW type \in ScanTypes, Tell(r, type)
    PROVE  NoticesInv'
PROOF
  <1>1. PICK s : s = strand[r][type]
    OBVIOUS
  <1>2. PICK t : t = IF s.todo = {} THEN Resting ELSE [s EXCEPT !.phase = "next"]
    OBVIOUS
  <1>3. /\ s.phase = "tell"
        /\ Notify({s.user}, type, s.text)
        /\ strand' = [strand EXCEPT ![r][type] = t]
        /\ UNCHANGED <<assignees, wording, doubled>>
    BY <1>1, <1>2 DEF Tell, Rest
  <1>4. NoticesTyped /\ s \in Strands /\ s.text \in Wordings
    BY <1>1 DEF NoticesInv, NoticesTyped, Strands
  <1>5. t \in Strands /\ t.phase # "tell"
    BY <1>2, <1>4, RestingIs DEF Strands
  <1>6. type \in NoticeTypes
    BY ScanTypesAre
  <1>7. /\ unread' \in [People -> Counts]
        /\ \A u \in People, y \in NoticeTypes, w \in Wordings :
             y # type \/ u # s.user \/ w # s.text => unread'[u][y][w] = unread[u][y][w]
        /\ \A u \in People : unread'[u][type][s.text] <= unread[u][type][s.text] + 1
    <2>1. /\ unread' \in [People -> Counts]
          /\ \A u \in People, y \in NoticeTypes, w \in Wordings :
               y # type \/ u \notin {s.user} \/ w # s.text => unread'[u][y][w] = unread[u][y][w]
          /\ \A u \in People : unread'[u][type][s.text] <= unread[u][type][s.text] + 1
      BY <1>3, <1>4, <1>6, NotifyTypes, Zenon
    <2> QED BY <2>1, Zenon
  <1>8. /\ strand' \in [Scans -> [ScanTypes -> Strands]]
        /\ \A q \in Scans, x \in ScanTypes :
             strand'[q][x] = IF q = r /\ x = type THEN t ELSE strand[q][x]
    BY <1>3, <1>4, <1>5 DEF NoticesTyped
  <1>9. NoticesTyped'
    BY <1>3, <1>4, <1>7, <1>8 DEF NoticesTyped
  <1>10. \A q \in Scans, x \in ScanTypes : \A v, w :
            Telling(q, x, v, w)' => Telling(q, x, v, w) /\ ~(q = r /\ x = type)
    BY <1>5, <1>8 DEF Telling
  <1>11. ASSUME NEW x \in People, NEW y \in ScanTypes PROVE ToldFits(x, y)'
    <2>1. ToldFits(x, y)
      BY DEF NoticesInv
    <2>2. CASE x = s.user /\ y = type
      <3> SUFFICES ASSUME <<x, type>> \notin doubled PROVE ToldFits(x, type)'
        BY <1>3, <2>2 DEF ToldFits
      <3>1. \A w \in Wordings : SameMatter(type, w, s.text) => Telling(r, type, x, w)
        BY <1>1, <1>3, <2>2 DEF Telling
      <3>2. \A w \in Wordings : SameMatter(type, w, s.text) =>
               unread[x][type][w] = 0 /\ \A q \in Scans : ~Telling(q, type, x, w)'
        BY <1>10, <2>1, <2>2, <3>1 DEF ToldFits
      <3>3. SameMatter(type, s.text, s.text)
        BY DEF SameMatter
      <3>4. \A w \in Wordings : unread[x][type][w] \in Nat /\ unread'[x][type][w] \in Nat
        BY <1>4, <1>6, <1>7 DEF NoticesTyped, Counts
      <3>5. \A w \in Wordings : w # s.text => unread'[x][type][w] = unread[x][type][w]
        BY <1>6, <1>7
      <3>6. unread'[x][type][s.text] <= 1
        BY <1>4, <1>7, <3>2, <3>3, <3>4
      <3>7. OneOfEach(x, type)'
        <4> SUFFICES ASSUME NEW a \in Wordings, NEW b \in Wordings, SameMatter(type, a, b),
                            unread'[x][type][a] > 0, unread'[x][type][b] > 0
                     PROVE  a = b /\ unread'[x][type][a] = 1
          BY DEF OneOfEach
        <4>1. CASE SameMatter(type, a, s.text) /\ SameMatter(type, b, s.text)
          <5>1. a = s.text /\ b = s.text
            BY <3>2, <3>5, <4>1
          <5> QED BY <3>4, <3>6, <5>1
        <4>2. CASE ~(SameMatter(type, a, s.text) /\ SameMatter(type, b, s.text))
          <5>1. a = b /\ a # s.text
            BY <4>2 DEF SameMatter
          <5> QED BY <2>1, <2>2, <3>5, <5>1 DEF ToldFits, OneOfEach
        <4> QED BY <4>1, <4>2
      <3>8. \A q \in Scans, w \in Wordings : Telling(q, type, x, w)' => unread'[x][type][w] = 0
        BY <1>4, <1>10, <2>1, <2>2, <3>2, <3>3, <3>5 DEF ToldFits
      <3>9. \A p, q \in Scans, w \in Wordings :
               Telling(p, type, x, w)' /\ Telling(q, type, x, w)' => p = q
        BY <1>10, <2>1, <2>2 DEF ToldFits
      <3> QED BY <3>7, <3>8, <3>9 DEF ToldFits
    <2>3. CASE x # s.user \/ y # type
      <3>1. \A w \in Wordings : unread'[x][y][w] = unread[x][y][w]
        BY <1>7, <2>3, ScanTypesAre
      <3> QED BY <1>3, <1>10, <2>1, <3>1 DEF ToldFits, OneOfEach
    <2> QED BY <2>2, <2>3
  <1> QED BY <1>9, <1>11 DEF NoticesInv

LEMMA ScanKeeps ==
    ASSUME NoticesInv, NEW scanned \in ScanTypes, ScanNext(scanned)
    PROVE  NoticesInv'
PROOF
  <1>1. /\ NoticesTyped
        /\ \A u \in People, t \in ScanTypes, w \in Wordings : unread[u][t][w] \in Nat
    BY ScanTypesAre DEF NoticesInv, NoticesTyped, Counts
  <1>0. ASSUME UNCHANGED unread
        PROVE  \A u \in People, t \in ScanTypes, w \in Wordings : unread'[u][t][w] <= unread[u][t][w]
    BY <1>0, <1>1
  <1>2. ASSUME NEW r \in Scans, StartScan(r) PROVE NoticesInv'
    <2>1. PICK t : t = [Resting EXCEPT !.phase = "search"]
      OBVIOUS
    <2>2. t \in Strands /\ t.phase # "tell"
      BY <2>1, RestingIs DEF Strands
    <2>3. /\ strand' = [strand EXCEPT ![r] = [type \in ScanTypes |-> t]]
          /\ UNCHANGED <<assignees, unread, wording, doubled>>
      BY <1>2, <2>1 DEF StartScan
    <2>4. /\ strand' \in [Scans -> [ScanTypes -> Strands]]
          /\ \A q \in Scans, x \in ScanTypes : strand'[q][x] = IF q = r THEN t ELSE strand[q][x]
      BY <1>1, <2>2, <2>3 DEF NoticesTyped
    <2>5. NoticesTyped'
      BY <1>1, <2>3, <2>4 DEF NoticesTyped
    <2>6. \A q \in Scans, x \in ScanTypes : \A v, w : Telling(q, x, v, w)' => Telling(q, x, v, w)
      BY <2>2, <2>4 DEF Telling
    <2> QED BY <1>0, <2>3, <2>5, <2>6, NobodyMoreTold
  <1>3. ASSUME NEW r \in Scans, NEW type \in ScanTypes, SearchCards(r, type) PROVE NoticesInv'
    <2>1. PICK t : t = IF type \in flagged
                       THEN [phase |-> "next", todo |-> Audience(type), user |-> Nobody,
                             text |-> wording[type]]
                       ELSE Resting
      OBVIOUS
    <2>2. Audience(type) \subseteq People /\ wording[type] \in Wordings
      BY <1>1, NoticesAssumption DEF NoticesAssumption, NoticesTyped, Audience, Targets
    <2>3. t \in Strands /\ t.phase # "tell"
      BY <2>1, <2>2, RestingIs DEF Strands
    <2>4. /\ strand' = [strand EXCEPT ![r][type] = t]
          /\ UNCHANGED <<assignees, unread, wording, doubled>>
      BY <1>3, <2>1 DEF SearchCards
    <2>5. /\ strand' \in [Scans -> [ScanTypes -> Strands]]
          /\ \A q \in Scans, x \in ScanTypes :
               strand'[q][x] = IF q = r /\ x = type THEN t ELSE strand[q][x]
      BY <1>1, <2>3, <2>4 DEF NoticesTyped
    <2>6. NoticesTyped'
      BY <1>1, <2>4, <2>5 DEF NoticesTyped
    <2>7. \A q \in Scans, x \in ScanTypes : \A v, w : Telling(q, x, v, w)' => Telling(q, x, v, w)
      BY <2>3, <2>5 DEF Telling
    <2> QED BY <1>0, <2>4, <2>6, <2>7, NobodyMoreTold
  <1>4. ASSUME NEW u \in People, NEW text \in Wordings, MarkAsRead(u, scanned, text) PROVE NoticesInv'
    <2>1. /\ unread[u][scanned][text] > 0
          /\ unread' = [unread EXCEPT ![u][scanned][text] = @ - 1]
          /\ UNCHANGED <<assignees, wording, strand, doubled>>
      BY <1>4 DEF MarkAsRead
    <2>2. unread \in [People -> [NoticeTypes -> [Wordings -> Nat]]] /\ scanned \in NoticeTypes
      BY <1>1, ScanTypesAre DEF NoticesTyped, Counts
    <2>3. PICK f : f = [unread[u][scanned] EXCEPT ![text] = @ - 1]
      OBVIOUS
    <2>4. /\ f \in [Wordings -> Nat]
          /\ \A w \in Wordings : f[w] <= unread[u][scanned][w]
      BY <2>1, <2>2, <2>3
    <2>5. PICK g : g = [unread[u] EXCEPT ![scanned] = f]
      OBVIOUS
    <2>6. /\ g \in Counts
          /\ \A y \in NoticeTypes : g[y] = IF y = scanned THEN f ELSE unread[u][y]
      BY <2>2, <2>4, <2>5 DEF Counts
    <2>7. unread' = [unread EXCEPT ![u] = g]
      BY <2>1, <2>3, <2>5
    <2>8. /\ unread' \in [People -> Counts]
          /\ \A x \in People : unread'[x] = IF x = u THEN g ELSE unread[x]
      BY <2>2, <2>6, <2>7 DEF Counts
    <2>9. \A x \in People, y \in ScanTypes, w \in Wordings : unread'[x][y][w] <= unread[x][y][w]
      BY <1>1, <2>4, <2>6, <2>8, ScanTypesAre
    <2>10. NoticesTyped'
      BY <1>1, <2>1, <2>8 DEF NoticesTyped
    <2> QED BY <2>1, <2>9, <2>10, NobodyMoreTold DEF Telling
  <1>5. ASSUME UNCHANGED <<unread, strand, doubled>>, assignees' \subseteq People,
               wording' \in [ScanTypes -> Wordings]
        PROVE  NoticesInv'
    <2>1. NoticesTyped'
      BY <1>1, <1>5 DEF NoticesTyped
    <2> QED BY <1>0, <1>5, <2>1, NobodyMoreTold DEF Telling
  <1>6. ASSUME NEW u \in People, Assign(u) PROVE NoticesInv'
    <2>1. assignees' \subseteq People
      BY <1>1, <1>6 DEF Assign, NoticesTyped
    <2> QED BY <1>1, <1>5, <1>6, <2>1 DEF Assign, NoticesTyped
  <1>7. ASSUME NEW u \in People, SetPref(u, scanned) PROVE NoticesInv'
    BY <1>1, <1>5, <1>7 DEF SetPref, NoticesTyped
  <1>8. CASE Change(scanned)
    BY <1>1, <1>5, <1>8 DEF Change, NoticesTyped
  <1>9. ASSUME NEW text \in Wordings, Reword(scanned, text) PROVE NoticesInv'
    <2>1. wording' \in [ScanTypes -> Wordings]
      BY <1>1, <1>9 DEF Reword, NoticesTyped
    <2> QED BY <1>1, <1>5, <1>9, <2>1 DEF Reword, NoticesTyped
  <1> QED
    BY <1>2, <1>3, <1>4, <1>6, <1>7, <1>8, <1>9, LookKeeps, TellKeeps DEF ScanNext

LEMMA NoticesKeep ==
    NoticesInv /\ [TalkNext \/ \E type \in ScanTypes : ScanNext(type)]_noticeVars => NoticesInv'
PROOF
  <1>1. NoticesInv /\ UNCHANGED noticeVars => NoticesInv'
    BY DEF noticeVars, NoticesInv, NoticesTyped, ToldFits, OneOfEach, Telling
  <1> QED BY <1>1, TalkKeepsNotices, ScanKeeps

LEMMA NoticesOnce == NoticesInv => NotifiedOnce
PROOF
  BY DEF NoticesInv, ToldFits, OneOfEach, NotifiedOnce

\* A thread has one level, because what a request is about to answer is a root: it may
\* be deleted meanwhile, but its id is not used again.
Talkings == [kind: {"insert", "mention", "tell", "watch"}, author: People, root: Comments \cup {Nobody}]

ThreadsTyped ==
    /\ comments \in [Comments -> [author: People \cup {Nobody}, root: Comments \cup {Nobody, "deleted"}]]
    /\ talk \in [Talks -> {Quiet} \cup Talkings]

IsRoot(x) == x \in Comments /\ comments[x].root = Nobody

Answers(x) == comments[x].root # Nobody => Written(comments[x].root) /\ IsRoot(comments[x].root)

Rooted(q) == q.kind = "insert" /\ q.root # Nobody =>
    comments[q.root] # Unwritten /\ (Written(q.root) => IsRoot(q.root))

ThreadsInv ==
    /\ ThreadsTyped
    /\ \A x \in Comments : Written(x) => comments[x].author \in People /\ Answers(x)
    /\ \A k \in Talks : Rooted(talk[k])

SettingsTyped ==
    /\ members \subseteq People /\ watchers \subseteq People
    /\ muted \in [People -> SUBSET NoticeTypes]
    /\ flagged \subseteq ScanTypes
    /\ scans \in 0 .. MaxScans
    /\ doubled \subseteq People \X ScanTypes

LEMMA QuietIs == Quiet.kind = "quiet" /\ Quiet \notin Talkings
PROOF
  BY DEF Quiet, Talkings

LEMMA NobodyIs ==
    /\ Nobody \notin People /\ Nobody \notin Comments /\ Nobody # "deleted" /\ Unwritten # Gone
    /\ Unwritten.author = Nobody /\ Gone.author = Nobody /\ Unwritten.root = Nobody
PROOF
  BY NoticesAssumption DEF NoticesAssumption, Unwritten, Gone

LEMMA ThreadsStart == NoticesInit => ThreadsInv /\ SettingsTyped
PROOF
  <1> SUFFICES ASSUME NoticesInit PROVE ThreadsInv /\ SettingsTyped
    OBVIOUS
  <1>1. ThreadsTyped
    BY DEF NoticesInit, ThreadsTyped, Unwritten
  <1>2. \A x \in Comments : ~Written(x)
    BY DEF NoticesInit, Written
  <1>3. \A k \in Talks : Rooted(talk[k])
    BY QuietIs DEF NoticesInit, Rooted
  <1>4. SettingsTyped
    BY NoticesAssumption DEF NoticesAssumption, NoticesInit, SettingsTyped
  <1> QED BY <1>1, <1>2, <1>3, <1>4 DEF ThreadsInv

\* Who can be told and what is muted, in all steps.
LEMMA SettingsKeep ==
    ASSUME SettingsTyped, ThreadsInv, TalkNext \/ \E type \in ScanTypes : ScanNext(type)
    PROVE  SettingsTyped'
PROOF
  <1> USE DEF SettingsTyped
  <1>1. ASSUME NEW u \in People, NEW type \in NoticeTypes,
               \/ Watch(u) \/ ComeAndGo(u) \/ SetPref(u, type) \/ MarkAllAsRead(u)
               \/ Assign(u) \/ BlockerResolved
               \/ \E text : MarkAsRead(u, type, text) \/ Reword(type, text)
        PROVE  SettingsTyped'
    BY <1>1 DEF Watch, ComeAndGo, SetPref, MarkAllAsRead, MarkAsRead, Reword, Assign, BlockerResolved
  <1>2. ASSUME NEW k \in Talks, NEW u, NEW to, BeginComment(k, u, to) \/ InsertComment(k)
        PROVE  SettingsTyped'
    BY <1>2 DEF BeginComment, InsertComment
  <1>12. ASSUME NEW k \in Talks, NEW named, Mention(k, named) \/ TellWatchers(k)
         PROVE  SettingsTyped'
    BY <1>12 DEF Mention, TellWatchers
  <1>3. ASSUME NEW x, DeleteComment(x) PROVE SettingsTyped'
    BY <1>3 DEF DeleteComment
  <1>4. ASSUME NEW k \in Talks, AutoWatch(k) PROVE SettingsTyped'
    <2>1. talk[k].author \in People
      BY <1>4, QuietIs DEF AutoWatch, ThreadsInv, ThreadsTyped, Talkings
    <2> QED BY <1>4, <2>1 DEF AutoWatch
  <1>5. ASSUME NEW r, NEW t, SearchCards(r, t) \/ Tell(r, t) PROVE SettingsTyped'
    BY <1>5 DEF SearchCards, Tell
  <1>6. ASSUME NEW r, StartScan(r) PROVE SettingsTyped'
    BY <1>6, NoticesAssumption DEF NoticesAssumption, StartScan
  <1>7. ASSUME NEW r, NEW t \in ScanTypes, NEW u \in People, Look(r, t, u) PROVE SettingsTyped'
    BY <1>7 DEF Look
  <1>8. ASSUME NEW type \in ScanTypes, Change(type) PROVE SettingsTyped'
    BY <1>8 DEF Change
  <1>9. "WATCHED_CARD_ACTIVITY" \in NoticeTypes /\ ScanTypes \subseteq NoticeTypes
    BY DEF NoticeTypes
  <1>10. CASE TalkNext
    <2>1. CASE \E k \in Talks : \/ \E u \in People, to \in Comments \cup {Nobody} : BeginComment(k, u, to)
                              \/ InsertComment(k) \/ AutoWatch(k) \/ TellWatchers(k)
                              \/ \E named \in SUBSET People : Mention(k, named)
      BY <1>2, <1>4, <1>12, <2>1
    <2>2. CASE \E u \in People : \/ Watch(u) \/ ComeAndGo(u) \/ SetPref(u, "WATCHED_CARD_ACTIVITY")
                                \/ MarkAllAsRead(u)
      BY <1>1, <1>9, <2>2
    <2>3. CASE BlockerResolved
      BY <2>3 DEF BlockerResolved
    <2>4. CASE \E x \in Comments : DeleteComment(x)
      BY <1>3, <2>4
    <2> QED BY <1>10, <2>1, <2>2, <2>3, <2>4 DEF TalkNext
  <1>11. CASE \E type \in ScanTypes : ScanNext(type)
    <2>1. PICK type \in ScanTypes : ScanNext(type)
      BY <1>11
    <2>2. type \in NoticeTypes
      BY <1>9
    <2>3. CASE \E u \in People : Assign(u) \/ SetPref(u, type)
      BY <1>1, <2>2, <2>3
    <2>4. CASE \E u \in People, text \in Wordings : Reword(type, text) \/ MarkAsRead(u, type, text)
      BY <1>1, <2>2, <2>4
    <2>5. CASE \E text \in Wordings : Reword(type, text)
      BY <1>1, <2>2, <2>4, <2>5, NoticesAssumption DEF NoticesAssumption
    <2> QED BY <1>1, <1>5, <1>6, <1>7, <1>8, <2>1, <2>3, <2>4, <2>5 DEF ScanNext
  <1> QED BY <1>10, <1>11

\* Comments are as they were, and one request goes on with the author and root it had.
LEMMA RequestKeepsThreads ==
    ASSUME ThreadsInv, UNCHANGED comments, NEW k \in Talks, NEW q, talk' = [talk EXCEPT ![k] = q],
           q \in {Quiet} \cup Talkings, q.kind = "insert" => Rooted(q)
    PROVE  ThreadsInv'
PROOF
  <1>1. ThreadsTyped'
    BY DEF ThreadsInv, ThreadsTyped
  <1>2. \A n \in Talks : Rooted(talk'[n])
    BY DEF ThreadsInv, ThreadsTyped, Rooted
  <1> QED BY <1>1, <1>2 DEF ThreadsInv, Rooted, IsRoot, Written, Answers

LEMMA BeginKeeps ==
    ASSUME ThreadsInv, SettingsTyped, NEW k \in Talks, NEW u, NEW to \in Comments \cup {Nobody},
           BeginComment(k, u, to)
    PROVE  ThreadsInv'
PROOF
  <1>1. PICK q : q = [kind |-> "insert", author |-> u,
                      root |-> IF to = Nobody THEN Nobody ELSE Root(to)]
    OBVIOUS
  <1>2. talk' = [talk EXCEPT ![k] = q] /\ UNCHANGED comments /\ u \in People
    BY <1>1 DEF BeginComment, SettingsTyped
  <1>3. ASSUME to # Nobody PROVE q.root \in Comments /\ Written(q.root) /\ IsRoot(q.root)
    <2>1. to \in Comments /\ Written(to) /\ Answers(to)
      BY <1>3 DEF BeginComment, ThreadsInv
    <2> QED BY <1>1, <1>3, <2>1 DEF Root, Answers, IsRoot
  <1>4. q \in Talkings
    BY <1>1, <1>2, <1>3 DEF Talkings
  <1>5. Rooted(q)
    BY <1>1, <1>3 DEF Rooted, Written
  <1> QED BY <1>2, <1>4, <1>5, RequestKeepsThreads

LEMMA InsertKeeps ==
    ASSUME ThreadsInv, NEW k \in Talks, InsertComment(k)
    PROVE  ThreadsInv'
PROOF
  <1>1. talk[k] \in Talkings /\ talk[k].kind = "insert"
    BY QuietIs DEF InsertComment, ThreadsInv, ThreadsTyped
  <1>2. PICK r : r = talk[k].root
    OBVIOUS
  <1>3. CASE r # Nobody => Written(r)
    <2>1. PICK x : x = CHOOSE y \in NewComments : TRUE
      OBVIOUS
    <2>2. x \in Comments /\ comments[x] = Unwritten
      BY <2>1 DEF InsertComment, NewComments
    <2>3. PICK c : c = [author |-> talk[k].author, root |-> r]
      OBVIOUS
    <2>4. PICK q : q = [talk[k] EXCEPT !.kind = "mention"]
      OBVIOUS
    <2>5. comments' = [comments EXCEPT ![x] = c] /\ talk' = [talk EXCEPT ![k] = q]
      BY <1>2, <1>3, <2>1, <2>3, <2>4 DEF InsertComment, ThreadsInv, ThreadsTyped
    <2>6. /\ c \in [author: People, root: Comments \cup {Nobody}] /\ c.author \in People /\ c.root = r
          /\ q \in Talkings /\ q.kind = "mention"
      BY <1>1, <1>2, <2>3, <2>4 DEF Talkings
    <2>7. /\ \A y \in Comments : comments'[y] = IF y = x THEN c ELSE comments[y]
          /\ \A n \in Talks : talk'[n] = IF n = k THEN q ELSE talk[n]
      BY <2>5 DEF ThreadsInv, ThreadsTyped
    <2>8. ThreadsTyped'
      BY <2>5, <2>6 DEF ThreadsInv, ThreadsTyped
    <2>9. /\ Written(x)' /\ ~Written(x)
          /\ \A y \in Comments \ {x} : Written(y)' <=> Written(y)
      BY <2>2, <2>6, <2>7, NobodyIs DEF Written
    <2>10. \A y \in Comments \ {x} : IsRoot(y)' <=> IsRoot(y)
      BY <2>7 DEF IsRoot
    <2>11. r # Nobody => r \in Comments \ {x} /\ Written(r)' /\ IsRoot(r)'
      <3>1. r # Nobody => r \in Comments /\ Written(r) /\ IsRoot(r)
        BY <1>1, <1>2, <1>3 DEF ThreadsInv, Rooted, Talkings
      <3> QED BY <2>9, <2>10, <3>1
    <2>12. ASSUME NEW y \in Comments, Written(y)'
           PROVE  comments'[y].author \in People /\ Answers(y)'
      <3>1. CASE y = x
        <4>1. comments'[y] = c
          BY <2>7, <3>1
        <4> QED BY <2>6, <2>11, <4>1 DEF Answers
      <3>2. CASE y # x
        <4>1. Written(y) /\ comments'[y] = comments[y]
          BY <2>7, <2>9, <2>12, <3>2
        <4>2. comments[y].author \in People /\ Answers(y)
          BY <4>1 DEF ThreadsInv
        <4>3. comments[y].root # Nobody => comments[y].root \in Comments \ {x}
          BY <2>9, <4>2 DEF Answers, IsRoot
        <4> QED BY <2>9, <2>10, <4>1, <4>2, <4>3 DEF Answers
      <3> QED BY <3>1, <3>2
    <2>13. ASSUME NEW n \in Talks PROVE Rooted(talk[n])'
      <3>1. CASE n = k
        BY <2>6, <2>7, <3>1 DEF Rooted
      <3>2. CASE n # k
        <4>1. talk'[n] = talk[n] /\ Rooted(talk[n])
          BY <2>7, <3>2 DEF ThreadsInv
        <4>2. talk[n].kind = "insert" => talk[n] \in Talkings
          BY QuietIs DEF ThreadsInv, ThreadsTyped
        <4>3. CASE talk[n].kind = "insert" /\ talk[n].root # Nobody
          <5>1. talk[n].root \in Comments \ {x}
            BY <2>2, <4>1, <4>2, <4>3 DEF Rooted, Talkings
          <5> QED BY <2>7, <2>9, <2>10, <4>1, <5>1 DEF Rooted
        <4> QED BY <4>1, <4>3 DEF Rooted
      <3> QED BY <3>1, <3>2
    <2> QED BY <2>8, <2>12, <2>13 DEF ThreadsInv
  <1>4. CASE ~(r # Nobody => Written(r))
    <2>1. talk' = [talk EXCEPT ![k] = Quiet] /\ UNCHANGED comments
      BY <1>2, <1>4 DEF InsertComment
    <2> QED BY <2>1, QuietIs, RequestKeepsThreads
  <1> QED BY <1>3, <1>4

\* The request of a user, past its insert.
LEMMA AfterInsert ==
    ASSUME ThreadsInv, NEW k \in Talks, NEW named, Mention(k, named) \/ TellWatchers(k) \/ AutoWatch(k)
    PROVE  ThreadsInv'
PROOF
  <1>1. talk[k] \in Talkings
    BY QuietIs DEF Mention, TellWatchers, AutoWatch, ThreadsInv, ThreadsTyped
  <1>2. PICK q \in {Quiet} \cup Talkings :
           talk' = [talk EXCEPT ![k] = q] /\ q.kind # "insert" /\ UNCHANGED comments
    <2>1. CASE Mention(k, named)
      <3>1. PICK q : q = [talk[k] EXCEPT !.kind = "tell"]
        OBVIOUS
      <3>2. talk' = [talk EXCEPT ![k] = q] /\ UNCHANGED comments
        BY <2>1, <3>1 DEF Mention, ThreadsInv, ThreadsTyped
      <3>3. q \in Talkings /\ q.kind = "tell"
        BY <1>1, <3>1 DEF Talkings
      <3> QED BY <3>2, <3>3
    <2>2. CASE TellWatchers(k)
      <3>1. PICK q : q = [talk[k] EXCEPT !.kind = "watch"]
        OBVIOUS
      <3>2. talk' = [talk EXCEPT ![k] = q] /\ UNCHANGED comments
        BY <2>2, <3>1 DEF TellWatchers, ThreadsInv, ThreadsTyped
      <3>3. q \in Talkings /\ q.kind = "watch"
        BY <1>1, <3>1 DEF Talkings
      <3> QED BY <3>2, <3>3
    <2>3. CASE AutoWatch(k)
      BY <2>3, QuietIs DEF AutoWatch
    <2> QED BY <2>1, <2>2, <2>3
  <1> QED BY <1>2, RequestKeepsThreads

LEMMA DeleteKeeps ==
    ASSUME ThreadsInv, NEW x \in Comments, DeleteComment(x)
    PROVE  ThreadsInv'
PROOF
  <1>1. /\ comments' = [y \in Comments |-> IF y = x \/ comments[y].root = x THEN Gone ELSE comments[y]]
        /\ UNCHANGED talk
    BY DEF DeleteComment
  <1>2. ThreadsTyped'
    BY <1>1 DEF ThreadsInv, ThreadsTyped, Gone
  <1>3. \A y \in Comments : Written(y)' => Written(y) /\ comments'[y] = comments[y] /\ y # x /\ comments[y].root # x
    BY <1>1 DEF Written
  <1>4. \A y \in Comments : IsRoot(y) /\ y # x => comments'[y] = comments[y] /\ IsRoot(y)'
    BY <1>1, NobodyIs DEF IsRoot
  <1>5. ASSUME NEW y \in Comments, Written(y)'
        PROVE  comments'[y].author \in People /\ Answers(y)'
    <2>1. comments[y].author \in People /\ Answers(y) /\ comments'[y] = comments[y] /\ comments[y].root # x
      BY <1>3, <1>5 DEF ThreadsInv
    <2>2. ASSUME comments[y].root # Nobody
          PROVE  Written(comments[y].root)' /\ IsRoot(comments[y].root)'
      <3>1. Written(comments[y].root) /\ IsRoot(comments[y].root) /\ comments[y].root # x
        BY <2>1, <2>2 DEF Answers
      <3>2. comments'[comments[y].root] = comments[comments[y].root]
        BY <1>4, <3>1 DEF IsRoot
      <3> QED BY <2>1, <3>1, <3>2, <1>4 DEF Written, IsRoot
    <2> QED BY <2>1, <2>2 DEF Answers, IsRoot, Written
  <1>6. ASSUME NEW n \in Talks PROVE Rooted(talk[n])'
    <2>1. Rooted(talk[n]) /\ (talk[n].kind = "insert" => talk[n] \in Talkings)
      BY QuietIs DEF ThreadsInv, ThreadsTyped
    <2>2. CASE talk[n].kind = "insert" /\ talk[n].root # Nobody
      <3>1. PICK r : r = talk[n].root /\ r \in Comments
        BY <2>1, <2>2 DEF Talkings
      <3>2. comments'[r] \in {Gone, comments[r]}
        BY <1>1, <3>1
      <3>3. comments'[r] # Unwritten
        BY <2>1, <2>2, <3>1, <3>2, NobodyIs DEF Rooted
      <3>4. Written(r)' => IsRoot(r)'
        BY <1>3, <1>4, <2>1, <2>2, <3>1 DEF Rooted
      <3> QED BY <1>1, <3>1, <3>3, <3>4 DEF Rooted, Written, IsRoot
    <2> QED BY <1>1, <2>2 DEF Rooted
  <1> QED BY <1>2, <1>5, <1>6 DEF ThreadsInv

LEMMA NoticesAreTyped == NoticesTyped /\ ThreadsInv /\ SettingsTyped => NoticesTypeOK
PROOF
  <1> SUFFICES ASSUME NoticesTyped, ThreadsInv, SettingsTyped PROVE NoticesTypeOK
    OBVIOUS
  <1>1. ASSUME NEW x \in Comments, Written(x)
        PROVE  /\ comments[x].author \in People
               /\ comments[x].root # Nobody =>
                    Written(comments[x].root) /\ comments[comments[x].root].root = Nobody
    BY <1>1 DEF ThreadsInv, Answers, IsRoot
  <1>2. \A r \in Scans :
           strand[r] \in [ScanTypes -> [phase : {"rest", "search", "next", "tell"}, todo : SUBSET People,
                                        user : People \cup {Nobody}, text : Wordings]]
    BY DEF NoticesTyped, Strands
  <1>3. members \cup watchers \cup assignees \subseteq People
    BY DEF NoticesTyped, SettingsTyped
  <1> QED BY <1>1, <1>2, <1>3 DEF NoticesTyped, Counts, SettingsTyped, NoticesTypeOK

LEMMA ThreadsKeep ==
    ASSUME ThreadsInv, SettingsTyped, TalkNext \/ \E type \in ScanTypes : ScanNext(type)
    PROVE  ThreadsInv'
PROOF
  <1>1. CASE UNCHANGED <<comments, talk>>
    BY <1>1 DEF ThreadsInv, ThreadsTyped, Rooted, IsRoot, Written, Answers
  <1>2. CASE TalkNext
    BY <1>1, <1>2, BeginKeeps, InsertKeeps, AfterInsert, DeleteKeeps
       DEF TalkNext, Watch, ComeAndGo, SetPref, MarkAllAsRead, BlockerResolved
  <1>3. ASSUME NEW type \in ScanTypes, ScanNext(type) PROVE ThreadsInv'
    <2>1. ASSUME NEW r, NEW t, NEW p, StartScan(r) \/ SearchCards(r, t) \/ Tell(r, t) \/ Look(r, t, p)
          PROVE  UNCHANGED <<comments, talk>>
      BY <2>1 DEF StartScan, SearchCards, Tell, Look
    <2>2. ASSUME NEW p, Change(type) \/ (\E text : MarkAsRead(p, type, text) \/ Reword(type, text)) \/ Assign(p) \/ SetPref(p, type)
          PROVE  UNCHANGED <<comments, talk>>
      BY <2>2 DEF Change, MarkAsRead, Reword, Assign, SetPref
    <2> QED BY <1>1, <1>3, <2>1, <2>2 DEF ScanNext
  <1> QED BY <1>2, <1>3

----------------------------------------------------------------------------
(* Links between cards, and values.                                        *)

LinksNext == DependencyNext \/ ParentNext \/ FieldNext

NoParents == \A c \in Tasks : parent[c] = NoTask

LinksTypes ==
    /\ tasks \subseteq Tasks
    /\ board \in [Tasks -> Boards]
    /\ blocks \subseteq tasks \X tasks /\ related \subseteq tasks \X tasks
    /\ parent \in [Tasks -> tasks \cup {NoTask}]
    /\ edit \in [Edits -> EditTypes]

\* A link of two cards of one project, or of cards one of which changed project.
AtHome(c, d) == board[c] = board[d] \/ c \in relocated \/ d \in relocated

LinkKinds == {"blocks", "related", "adopt"}

\* What is being linked was of one project when that was checked.
HomeInv ==
    /\ LinksTypes
    /\ \A l \in blocks \cup related : AtHome(l[1], l[2])
    /\ \A c \in tasks : parent[c] # NoTask => AtHome(c, parent[c])
    /\ \A e \in Edits : edit[e].kind \in LinkKinds => AtHome(edit[e].link[1], edit[e].link[2])

At(e, kind, c) == edit[e].kind = kind /\ edit[e].link[1] = c

\* Of a card whose relocation meets no writing of a value, one relocation is under way
\* at a time, and once it has dropped the values it read there are none.
Uncrossed(c) ==
    /\ values[c] \subseteq {board[c]}
    /\ \A e \in Edits : At(e, "value", c) => edit[e].link[2] = board[c]
    /\ \A e \in Edits : At(e, "relocate", c) /\ ~edit[e].drop => values[c] = {}
    /\ \A e, f \in Edits : At(e, "relocate", c) /\ At(f, "relocate", c) => e = f
    /\ \A e, f \in Edits : ~(At(e, "relocate", c) /\ At(f, "value", c))

ValuesInv ==
    /\ LinksTypes
    /\ values \in [Tasks -> SUBSET Boards]
    /\ \A c \in Tasks \ crossed : Uncrossed(c)

LEMMA LinksStart == GraphInit => HomeInv /\ ValuesInv
PROOF
  <1> SUFFICES ASSUME GraphInit PROVE HomeInv /\ ValuesInv
    OBVIOUS
  <1>0. Free \in EditTypes /\ Free.kind = "free"
    BY DEF EditTypes, Free
  <1>1. LinksTypes
    BY <1>0, GraphAssumption DEF GraphAssumption, GraphInit, LinksTypes
  <1>2. HomeInv
    BY <1>0, <1>1 DEF GraphInit, HomeInv, LinkKinds
  <1>3. ValuesInv
    BY <1>0, <1>1 DEF GraphInit, ValuesInv, Uncrossed, At
  <1> QED BY <1>2, <1>3

LEMMA TypesKept == LinksTypes /\ LinksNext => LinksTypes'
PROOF
  <1> SUFFICES ASSUME LinksTypes, LinksNext PROVE LinksTypes'
    OBVIOUS
  <1>0. Free \in EditTypes
    BY DEF EditTypes
  <1>1. ASSUME NEW e \in Edits, NEW a \in Tasks, NEW b \in Tasks, NEW type \in {"blocks", "related"},
               AddDependency(e, a, b, type)
        PROVE LinksTypes'
    <2> DEFINE r == [kind |-> type, link |-> <<a, b>>, alone |-> TRUE,
             seen |-> {b}, next |-> IF type = "related" THEN {} ELSE {b}]
    <2>1. r \in EditTypes
      BY DEF EditTypes
    <2> QED BY <1>1, <2>1 DEF AddDependency, LinksTypes
  <1>2. ASSUME NEW e \in Edits, Search(e) PROVE LinksTypes'
    <2>1. edit[e] \in EditTypes /\ edit[e].kind = "blocks"
      BY <1>2 DEF Search, LinksTypes
    <2>2. /\ edit[e] \in [kind : {"blocks", "related"}, link : Tasks \X Tasks, alone : BOOLEAN,
              seen : SUBSET Tasks, next : SUBSET Tasks]
      BY <2>1 DEF EditTypes, Free
    <2>3. Blocked(edit[e].next) \subseteq Tasks
      BY DEF Blocked, LinksTypes
    <2>4. \A F \in SUBSET Tasks : [edit[e] EXCEPT !.seen = @ \cup F, !.next = F] \in EditTypes
      BY <2>2 DEF EditTypes
    <2>5. PICK r \in EditTypes : edit' = [edit EXCEPT ![e] = r]
      BY <1>2, <1>0, <2>3, <2>4 DEF Search, Done, LinksTypes
    <2> QED BY <1>2, <2>5 DEF Search, LinksTypes
  <1>o. ASSUME NEW e \in Edits, NEW k, Overtake(e, k), k \in {"blocks", "adopt"}
        PROVE edit' \in [Edits -> EditTypes]
    <2>1. ASSUME NEW f \in Edits, edit[f].kind = k
          PROVE [edit[f] EXCEPT !.alone = FALSE] \in EditTypes
      <3>1. edit[f] \in EditTypes
        BY DEF LinksTypes
      <3>2. \/ edit[f] \in [kind : {"blocks", "related"}, link : Tasks \X Tasks, alone : BOOLEAN,
                            seen : SUBSET Tasks, next : SUBSET Tasks]
            \/ edit[f] \in [kind : {"adopt"}, link : Tasks \X Tasks, alone : BOOLEAN,
                            seen : SUBSET Tasks, next : Tasks \cup {NoTask}]
        BY <1>o, <2>1, <3>1 DEF EditTypes, Free
      <3> QED BY <3>2 DEF EditTypes
    <2> QED BY <1>o, <1>0, <2>1 DEF Overtake, LinksTypes
  <1>d. ASSUME NEW e \in Edits, Done(e) PROVE edit' \in [Edits -> EditTypes]
    BY <1>0, <1>d DEF Done, LinksTypes
  <1>3. ASSUME NEW e \in Edits, WriteDependency(e) PROVE LinksTypes'
    <2>1. edit' \in [Edits -> EditTypes]
      BY <1>3, <1>o, <1>d DEF WriteDependency
    <2>2. edit[e].link \in Tasks \X Tasks
      BY <1>3 DEF WriteDependency, LinksTypes, EditTypes, Free
    <2>3. Insertable(edit[e].link) => edit[e].link \in tasks \X tasks
      BY <2>2 DEF Insertable
    <2> QED BY <1>3, <2>1, <2>3 DEF WriteDependency, LinksTypes
  <1>4. ASSUME NEW link \in blocks \cup related, RemoveDependency(link) PROVE LinksTypes'
    BY <1>4 DEF RemoveDependency, LinksTypes
  <1>5. ASSUME NEW e \in Edits, NEW c \in Tasks, NEW p \in Tasks, SetParent(e, c, p)
        PROVE LinksTypes'
    <2> DEFINE r == [kind |-> "adopt", link |-> <<c, p>>, alone |-> TRUE,
                     seen |-> {p}, next |-> parent[p]]
    <2>1. parent[p] \in Tasks \cup {NoTask}
      BY DEF LinksTypes
    <2>2. r \in EditTypes
      BY <2>1 DEF EditTypes
    <2> QED BY <1>5, <2>2 DEF SetParent, LinksTypes
  <1>6. ASSUME NEW e \in Edits, Climb(e) PROVE LinksTypes'
    <2>1. edit[e] \in [kind : {"adopt"}, link : Tasks \X Tasks, alone : BOOLEAN,
                       seen : SUBSET Tasks, next : Tasks \cup {NoTask}]
      BY <1>6 DEF Climb, LinksTypes, EditTypes, Free
    <2>2. ASSUME NEW n \in Tasks \cup {NoTask}, NEW a \in Tasks
          PROVE [edit[e] EXCEPT !.seen = @ \cup {a}, !.next = n] \in EditTypes
      BY <2>1 DEF EditTypes
    <2>3. edit[e].next \in Tasks
      BY <1>6, <2>1 DEF Climb
    <2>4. parent[edit[e].next] \in Tasks \cup {NoTask}
      BY <2>3 DEF LinksTypes
    <2>5. PICK r \in EditTypes : edit' = [edit EXCEPT ![e] = r]
      BY <1>6, <1>0, <2>2, <2>3, <2>4 DEF Climb, Done, LinksTypes
    <2> QED BY <1>6, <2>5 DEF Climb, LinksTypes
  <1>7. ASSUME NEW e \in Edits, WriteParent(e) PROVE LinksTypes'
    <2>1. edit' \in [Edits -> EditTypes]
      BY <1>7, <1>o, <1>d DEF WriteParent
    <2> QED BY <1>7, <2>1 DEF WriteParent, LinksTypes
  <1>8. ASSUME NEW c \in Tasks, ClearParent(c) PROVE LinksTypes'
    BY <1>8 DEF ClearParent, LinksTypes
  <1>9. ASSUME NEW e \in Edits, NEW c \in Tasks, NEW b \in Boards, SetValue(e, c, b)
        PROVE LinksTypes'
    <2>1. [kind |-> "value", link |-> <<c, b>>] \in EditTypes
      BY DEF EditTypes
    <2> QED BY <1>9, <2>1 DEF SetValue, LinksTypes
  <1>10. ASSUME NEW e \in Edits, WriteValue(e) PROVE LinksTypes'
    BY <1>10, <1>d DEF WriteValue, LinksTypes
  <1>11. ASSUME NEW e \in Edits, NEW c \in Tasks, NEW b \in Boards, Relocate(e, c, b)
        PROVE LinksTypes'
    <2>1. [kind |-> "relocate", link |-> <<c, b>>, drop |-> values[c] # {}] \in EditTypes
      BY DEF EditTypes
    <2> QED BY <1>11, <2>1 DEF Relocate, LinksTypes
  <1>12. ASSUME NEW e \in Edits, DropValues(e) PROVE LinksTypes'
    <2>1. edit[e] \in [kind : {"relocate"}, link : Tasks \X Boards, drop : BOOLEAN]
      BY <1>12 DEF DropValues, LinksTypes, EditTypes, Free
    <2>2. [edit[e] EXCEPT !.drop = FALSE] \in EditTypes
      BY <2>1 DEF EditTypes
    <2> QED BY <1>12, <2>2 DEF DropValues, LinksTypes
  <1>13. ASSUME NEW e \in Edits, Arrive(e) PROVE LinksTypes'
    <2>1. edit[e].link \in Tasks \X Boards
      BY <1>13 DEF Arrive, LinksTypes, EditTypes, Free
    <2> QED BY <1>13, <1>d, <2>1 DEF Arrive, LinksTypes
  <1>14. ASSUME NEW c \in Tasks, Delete(c) PROVE LinksTypes'
    BY <1>14 DEF Delete, Without, LinksTypes
  <1> QED BY <1>1, <1>2, <1>3, <1>4, <1>5, <1>6, <1>7, <1>8, <1>9, <1>10, <1>11, <1>12, <1>13, <1>14
       DEF LinksNext, DependencyNext, ParentNext, FieldNext, MovesNext

\* What a step leaves of the requests under way.
EditKept(f) ==
    \/ edit'[f] = Free
    \/ edit'[f].kind = edit[f].kind /\ edit'[f].link = edit[f].link

LEMMA Overtaken ==
    ASSUME LinksTypes, NEW e \in Edits, NEW k \in {"blocks", "adopt"}, Overtake(e, k)
    PROVE  \A f \in Edits : EditKept(f)
PROOF
  <1> SUFFICES ASSUME NEW f \in Edits PROVE EditKept(f)
    OBVIOUS
  <1>1. CASE edit[f].kind = k /\ f # e
    <2>1. edit'[f] = [edit[f] EXCEPT !.alone = FALSE]
      BY <1>1 DEF Overtake
    <2>2. \/ edit[f] \in [kind : {"blocks", "related"}, link : Tasks \X Tasks, alone : BOOLEAN,
                          seen : SUBSET Tasks, next : SUBSET Tasks]
          \/ edit[f] \in [kind : {"adopt"}, link : Tasks \X Tasks, alone : BOOLEAN,
                          seen : SUBSET Tasks, next : Tasks \cup {NoTask}]
      BY <1>1 DEF LinksTypes, EditTypes, Free
    <2> QED BY <2>1, <2>2 DEF EditKept
  <1>2. CASE ~(edit[f].kind = k /\ f # e)
    BY <1>2 DEF Overtake, EditKept
  <1> QED BY <1>1, <1>2

\* One request goes on as it is, or is over.
LEMMA OneGoesOn ==
    ASSUME NEW e \in Edits, NEW r, edit' = [edit EXCEPT ![e] = r],
           r = Free \/ (r.kind = edit[e].kind /\ r.link = edit[e].link), LinksTypes
    PROVE  \A f \in Edits : EditKept(f)
PROOF
  BY DEF EditKept, LinksTypes

\* A step that begins no request keeps what is known of those under way.
LEMMA HomeOfEdits ==
    ASSUME HomeInv, \A f \in Edits : EditKept(f), UNCHANGED <<board, relocated>>
    PROVE  (\A e \in Edits : edit[e].kind \in LinkKinds => AtHome(edit[e].link[1], edit[e].link[2]))'
PROOF
  BY DEF EditKept, HomeInv, AtHome, LinkKinds, Free

\* A request that begins is for a link of cards of one project, or no link.
LEMMA HomeOfNew ==
    ASSUME HomeInv, NEW e \in Edits, NEW r, edit' = [edit EXCEPT ![e] = r],
           r.kind \in LinkKinds => board[r.link[1]] = board[r.link[2]],
           UNCHANGED <<tasks, board, blocks, related, parent, relocated>>, LinksTypes'
    PROVE  HomeInv'
PROOF
  BY DEF HomeInv, AtHome, LinkKinds, LinksTypes

LEMMA HomeKept == HomeInv /\ LinksNext => HomeInv'
PROOF
  <1> SUFFICES ASSUME HomeInv, LinksNext PROVE HomeInv'
    OBVIOUS
  <1>t. LinksTypes /\ LinksTypes'
    BY TypesKept DEF HomeInv
  <1>d. ASSUME NEW e \in Edits, Done(e) PROVE \A f \in Edits : EditKept(f)
    BY <1>d, <1>t, OneGoesOn DEF Done
  <1>1. ASSUME NEW e \in Edits, NEW a \in Tasks, NEW b \in Tasks, NEW type \in {"blocks", "related"},
               AddDependency(e, a, b, type)
        PROVE HomeInv'
    <2> DEFINE r == [kind |-> type, link |-> <<a, b>>, alone |-> TRUE,
             seen |-> {b}, next |-> IF type = "related" THEN {} ELSE {b}]
    <2>1. board[r.link[1]] = board[r.link[2]] /\ edit' = [edit EXCEPT ![e] = r]
      BY <1>1 DEF AddDependency
    <2> QED BY <1>1, <1>t, <2>1, HomeOfNew DEF AddDependency
  <1>2. ASSUME NEW e \in Edits, Search(e) PROVE HomeInv'
    <2>1. \A f \in Edits : EditKept(f)
      <3>1. CASE Done(e)
        BY <1>d, <3>1
      <3>2. CASE ~Done(e)
        <4>1. PICK F : edit' = [edit EXCEPT ![e].seen = @ \cup F, ![e].next = F]
          BY <1>2, <3>2 DEF Search
        <4>2. edit' = [edit EXCEPT ![e] = [edit[e] EXCEPT !.seen = @ \cup F, !.next = F]]
          BY <4>1, <1>t DEF LinksTypes
        <4> DEFINE r == [edit[e] EXCEPT !.seen = @ \cup F, !.next = F]
        <4>3. r.kind = edit[e].kind /\ r.link = edit[e].link
          OBVIOUS
        <4> QED BY <4>2, <4>3, <1>t, OneGoesOn
      <3> QED BY <3>1, <3>2
    <2> QED BY <1>2, <1>t, <2>1, HomeOfEdits DEF Search, HomeInv, AtHome
  <1>3. ASSUME NEW e \in Edits, WriteDependency(e) PROVE HomeInv'
    <2>1. \A f \in Edits : EditKept(f)
      BY <1>3, <1>t, <1>d, Overtaken DEF WriteDependency
    <2>2. AtHome(edit[e].link[1], edit[e].link[2])
      BY <1>3 DEF WriteDependency, HomeInv, LinkKinds
    <2>3. \A l \in blocks' \cup related' : AtHome(l[1], l[2])
      BY <1>3, <2>2 DEF WriteDependency, HomeInv
    <2> QED BY <1>3, <1>t, <2>1, <2>3, HomeOfEdits DEF WriteDependency, HomeInv, AtHome
  <1>4. ASSUME NEW link \in blocks \cup related, RemoveDependency(link) PROVE HomeInv'
    BY <1>4, <1>t DEF RemoveDependency, HomeInv, AtHome
  <1>5. ASSUME NEW e \in Edits, NEW c \in Tasks, NEW p \in Tasks, SetParent(e, c, p)
        PROVE HomeInv'
    <2> DEFINE r == [kind |-> "adopt", link |-> <<c, p>>, alone |-> TRUE,
                     seen |-> {p}, next |-> parent[p]]
    <2>1. board[r.link[1]] = board[r.link[2]] /\ edit' = [edit EXCEPT ![e] = r]
      BY <1>5 DEF SetParent
    <2> QED BY <1>5, <1>t, <2>1, HomeOfNew DEF SetParent
  <1>6. ASSUME NEW e \in Edits, Climb(e) PROVE HomeInv'
    <2>1. \A f \in Edits : EditKept(f)
      <3>1. CASE Done(e)
        BY <1>d, <3>1
      <3>2. CASE ~Done(e)
        <4>1. PICK a, n : edit' = [edit EXCEPT ![e].seen = @ \cup {a}, ![e].next = n]
          BY <1>6, <3>2 DEF Climb
        <4> DEFINE r == [edit[e] EXCEPT !.seen = @ \cup {a}, !.next = n]
        <4>2. edit' = [edit EXCEPT ![e] = r]
          BY <4>1, <1>t DEF LinksTypes
        <4>3. r.kind = edit[e].kind /\ r.link = edit[e].link
          OBVIOUS
        <4> QED BY <4>2, <4>3, <1>t, OneGoesOn
      <3> QED BY <3>1, <3>2
    <2> QED BY <1>6, <1>t, <2>1, HomeOfEdits DEF Climb, HomeInv, AtHome
  <1>7. ASSUME NEW e \in Edits, WriteParent(e) PROVE HomeInv'
    <2>1. \A f \in Edits : EditKept(f)
      BY <1>7, <1>t, <1>d, Overtaken DEF WriteParent
    <2>2. AtHome(edit[e].link[1], edit[e].link[2])
      BY <1>7 DEF WriteParent, HomeInv, LinkKinds
    <2>3. \A c \in tasks : parent'[c] # NoTask => AtHome(c, parent'[c])
      <3>1. UNCHANGED parent \/ parent' = [parent EXCEPT ![edit[e].link[1]] = edit[e].link[2]]
        BY <1>7 DEF WriteParent
      <3> QED BY <3>1, <2>2, <1>t DEF HomeInv, LinksTypes
    <2> QED BY <1>7, <1>t, <2>1, <2>3, HomeOfEdits DEF WriteParent, HomeInv, AtHome
  <1>8. ASSUME NEW c \in Tasks, ClearParent(c) PROVE HomeInv'
    BY <1>8, <1>t DEF ClearParent, HomeInv, AtHome, LinksTypes
  <1>9. ASSUME NEW e \in Edits, NEW c \in Tasks, NEW b \in Boards, SetValue(e, c, b)
        PROVE HomeInv'
    <2> DEFINE r == [kind |-> "value", link |-> <<c, b>>]
    <2>1. r.kind \notin LinkKinds /\ edit' = [edit EXCEPT ![e] = r]
      BY <1>9 DEF SetValue, LinkKinds
    <2> HIDE DEF r
    <2> QED BY <1>9, <1>t, <2>1, HomeOfNew DEF SetValue
  <1>10. ASSUME NEW e \in Edits, WriteValue(e) PROVE HomeInv'
    <2>1. \A f \in Edits : EditKept(f)
      BY <1>10, <1>d DEF WriteValue
    <2> QED BY <1>10, <1>t, <2>1, HomeOfEdits DEF WriteValue, HomeInv, AtHome
  <1>11. ASSUME NEW e \in Edits, NEW c \in Tasks, NEW b \in Boards, Relocate(e, c, b)
        PROVE HomeInv'
    <2> DEFINE r == [kind |-> "relocate", link |-> <<c, b>>, drop |-> values[c] # {}]
    <2>1. r.kind \notin LinkKinds /\ edit' = [edit EXCEPT ![e] = r]
      BY <1>11 DEF Relocate, LinkKinds
    <2> HIDE DEF r
    <2> QED BY <1>11, <1>t, <2>1, HomeOfNew DEF Relocate
  <1>12. ASSUME NEW e \in Edits, DropValues(e) PROVE HomeInv'
    <2> DEFINE r == [edit[e] EXCEPT !.drop = FALSE]
    <2>1. edit' = [edit EXCEPT ![e] = r]
      BY <1>12, <1>t DEF DropValues, LinksTypes
    <2>2. r.kind = edit[e].kind /\ r.link = edit[e].link
      OBVIOUS
    <2>3. \A f \in Edits : EditKept(f)
      BY <2>1, <2>2, <1>t, OneGoesOn
    <2> QED BY <1>12, <1>t, <2>3, HomeOfEdits DEF DropValues, HomeInv, AtHome
  <1>13. ASSUME NEW e \in Edits, Arrive(e) PROVE HomeInv'
    <2>1. \A f \in Edits : EditKept(f)
      BY <1>13, <1>d DEF Arrive
    <2>2. \A c, d \in Tasks : AtHome(c, d) => AtHome(c, d)'
      <3>1. PICK c : \/ UNCHANGED <<board, relocated>>
                     \/ board' = [board EXCEPT ![c] = edit[e].link[2]] /\ relocated' = relocated \cup {c}
        BY <1>13 DEF Arrive
      <3>2. ASSUME NEW d \in Tasks PROVE d \in relocated' \/ (board'[d] = board[d] /\ ~(d \in relocated))
        BY <3>1, <1>t DEF LinksTypes
      <3>3. relocated \subseteq relocated'
        BY <3>1
      <3> QED BY <3>2, <3>3 DEF AtHome
    <2>3. (\A f \in Edits : edit[f].kind \in LinkKinds => AtHome(edit[f].link[1], edit[f].link[2]))'
      <3> SUFFICES ASSUME NEW f \in Edits, edit'[f].kind \in LinkKinds
                   PROVE  AtHome(edit[f].link[1], edit[f].link[2])'
        OBVIOUS
      <3>1. edit'[f].kind = edit[f].kind /\ edit'[f].link = edit[f].link
        BY <2>1 DEF EditKept, Free, LinkKinds
      <3>2. edit[f].link \in Tasks \X Tasks
        BY <1>t, <3>1 DEF LinksTypes, LinkKinds, EditTypes, Free
      <3> QED BY <2>2, <3>1, <3>2 DEF HomeInv
    <2>4. UNCHANGED <<tasks, blocks, related, parent>>
      BY <1>13 DEF Arrive
    <2>5. /\ \A l \in blocks \cup related : l[1] \in Tasks /\ l[2] \in Tasks
          /\ \A c \in tasks : c \in Tasks /\ (parent[c] # NoTask => parent[c] \in Tasks)
      BY <1>t DEF LinksTypes
    <2> QED BY <1>t, <2>2, <2>3, <2>4, <2>5 DEF HomeInv
  <1>14. ASSUME NEW c \in Tasks, Delete(c) PROVE HomeInv'
    BY <1>14, <1>t DEF Delete, Without, HomeInv, AtHome, LinksTypes
  <1> QED BY <1>1, <1>2, <1>3, <1>4, <1>5, <1>6, <1>7, <1>8, <1>9, <1>10, <1>11, <1>12, <1>13, <1>14
       DEF LinksNext, DependencyNext, ParentNext, FieldNext, MovesNext

\* Requests about other cards, or none of values and relocations, tell a card nothing.
LEMMA ValuesOfOthers ==
    ASSUME ValuesInv, LinksTypes', \A f \in Edits : EditKept(f),
           \A f \in Edits : edit[f].kind = "relocate" /\ edit'[f] # Free => edit'[f].drop = edit[f].drop,
           UNCHANGED <<board, values, crossed>>
    PROVE  ValuesInv'
PROOF
  <1> SUFFICES ASSUME NEW c \in Tasks \ crossed PROVE Uncrossed(c)'
    BY DEF ValuesInv
  <1>1. Uncrossed(c)
    BY DEF ValuesInv
  <1>2. \A f \in Edits, k \in {"value", "relocate"} : At(f, k, c)' =>
            /\ At(f, k, c)
            /\ edit'[f].link = edit[f].link
            /\ k = "relocate" => edit'[f].drop = edit[f].drop
    BY DEF At, EditKept, Free
  <1> QED BY <1>1, <1>2 DEF Uncrossed

\* A request begins that is about no value.
LEMMA ValuesOfNew ==
    ASSUME ValuesInv, LinksTypes', NEW e \in Edits, NEW r, edit' = [edit EXCEPT ![e] = r],
           r.kind \notin {"value", "relocate"},
           UNCHANGED <<board, values, crossed>>
    PROVE  ValuesInv'
PROOF
  <1> SUFFICES ASSUME NEW c \in Tasks \ crossed PROVE Uncrossed(c)'
    BY DEF ValuesInv
  <1>1. Uncrossed(c)
    BY DEF ValuesInv
  <1>2. \A f \in Edits, k \in {"value", "relocate"} : At(f, k, c)' => At(f, k, c) /\ edit'[f] = edit[f]
    BY DEF At, ValuesInv, LinksTypes
  <1> QED BY <1>1, <1>2 DEF Uncrossed

\* One request is over, and a value of one card may be written.
LEMMA ValuesWhenDone ==
    ASSUME ValuesInv, LinksTypes', NEW e \in Edits, Done(e), UNCHANGED <<board, crossed>>,
           values' \in [Tasks -> SUBSET Boards],
           \A c \in Tasks \ crossed : values'[c] # values[c] =>
               At(e, "value", c) /\ values'[c] = values[c] \cup {edit[e].link[2]}
    PROVE  ValuesInv'
PROOF
  <1> SUFFICES ASSUME NEW c \in Tasks \ crossed PROVE Uncrossed(c)'
    BY DEF ValuesInv
  <1>1. Uncrossed(c)
    BY DEF ValuesInv
  <1>2. \A f \in Edits, k \in {"value", "relocate"} : At(f, k, c)' => At(f, k, c) /\ edit'[f] = edit[f]
    BY DEF At, Done, Free, ValuesInv, LinksTypes
  <1> QED BY <1>1, <1>2 DEF Uncrossed

LEMMA ValuesKept == ValuesInv /\ LinksNext => ValuesInv'
PROOF
  <1> SUFFICES ASSUME ValuesInv, LinksNext PROVE ValuesInv'
    OBVIOUS
  <1>t. LinksTypes /\ LinksTypes'
    BY TypesKept DEF ValuesInv
  <1>v. values \in [Tasks -> SUBSET Boards]
    BY DEF ValuesInv
  <1>1. ASSUME NEW e \in Edits, NEW a \in Tasks, NEW b \in Tasks, NEW type \in {"blocks", "related"},
               AddDependency(e, a, b, type)
        PROVE ValuesInv'
    <2> DEFINE r == [kind |-> type, link |-> <<a, b>>, alone |-> TRUE,
             seen |-> {b}, next |-> IF type = "related" THEN {} ELSE {b}]
    <2>1. r.kind \notin {"value", "relocate"} /\ edit' = [edit EXCEPT ![e] = r]
      BY <1>1 DEF AddDependency
    <2> HIDE DEF r
    <2> QED BY <1>1, <1>t, <2>1, ValuesOfNew DEF AddDependency
  <1>2. ASSUME NEW e \in Edits, Search(e) PROVE ValuesInv'
    <2>1. CASE Done(e)
      BY <1>2, <1>t, <1>v, <2>1, ValuesWhenDone DEF Search
    <2>2. CASE ~Done(e)
      <3>1. PICK F : edit' = [edit EXCEPT ![e].seen = @ \cup F, ![e].next = F]
        BY <1>2, <2>2 DEF Search
      <3> DEFINE r == [edit[e] EXCEPT !.seen = @ \cup F, !.next = F]
      <3>2. edit' = [edit EXCEPT ![e] = r]
        BY <3>1, <1>t DEF LinksTypes
      <3>3. r.kind = "blocks"
        BY <1>2 DEF Search
      <3> HIDE DEF r
      <3> QED BY <1>2, <1>t, <3>2, <3>3, ValuesOfNew DEF Search
    <2> QED BY <2>1, <2>2
  <1>o. ASSUME NEW e \in Edits, NEW k \in {"blocks", "adopt"}, Overtake(e, k),
               UNCHANGED <<board, values, crossed>>
        PROVE ValuesInv'
    <2>1. \A f \in Edits : edit[f].kind = "relocate" => edit'[f] \in {Free, edit[f]}
      BY <1>o DEF Overtake
    <2> QED BY <1>o, <1>t, <2>1, Overtaken, ValuesOfOthers
  <1>3. ASSUME NEW e \in Edits, WriteDependency(e) PROVE ValuesInv'
    <2>1. CASE Done(e)
      BY <1>3, <1>t, <1>v, <2>1, ValuesWhenDone DEF WriteDependency
    <2> QED BY <1>3, <1>o, <2>1 DEF WriteDependency
  <1>4. ASSUME NEW link \in blocks \cup related, RemoveDependency(link) PROVE ValuesInv'
    BY <1>4, <1>t DEF RemoveDependency, ValuesInv, Uncrossed, At
  <1>5. ASSUME NEW e \in Edits, NEW c \in Tasks, NEW p \in Tasks, SetParent(e, c, p)
        PROVE ValuesInv'
    <2> DEFINE r == [kind |-> "adopt", link |-> <<c, p>>, alone |-> TRUE,
                     seen |-> {p}, next |-> parent[p]]
    <2>1. r.kind \notin {"value", "relocate"} /\ edit' = [edit EXCEPT ![e] = r]
      BY <1>5 DEF SetParent
    <2> HIDE DEF r
    <2> QED BY <1>5, <1>t, <2>1, ValuesOfNew DEF SetParent
  <1>6. ASSUME NEW e \in Edits, Climb(e) PROVE ValuesInv'
    <2>1. CASE Done(e)
      BY <1>6, <1>t, <1>v, <2>1, ValuesWhenDone DEF Climb
    <2>2. CASE ~Done(e)
      <3>1. PICK a, n : edit' = [edit EXCEPT ![e].seen = @ \cup {a}, ![e].next = n]
        BY <1>6, <2>2 DEF Climb
      <3> DEFINE r == [edit[e] EXCEPT !.seen = @ \cup {a}, !.next = n]
      <3>2. edit' = [edit EXCEPT ![e] = r]
        BY <3>1, <1>t DEF LinksTypes
      <3>3. r.kind = "adopt"
        BY <1>6 DEF Climb
      <3> HIDE DEF r
      <3> QED BY <1>6, <1>t, <3>2, <3>3, ValuesOfNew DEF Climb
    <2> QED BY <2>1, <2>2
  <1>7. ASSUME NEW e \in Edits, WriteParent(e) PROVE ValuesInv'
    <2>1. CASE Done(e)
      BY <1>7, <1>t, <1>v, <2>1, ValuesWhenDone DEF WriteParent
    <2> QED BY <1>7, <1>o, <2>1 DEF WriteParent
  <1>8. ASSUME NEW c \in Tasks, ClearParent(c) PROVE ValuesInv'
    BY <1>8, <1>t DEF ClearParent, ValuesInv, Uncrossed, At
  <1>9. ASSUME NEW e \in Edits, NEW c \in Tasks, NEW b \in Boards, SetValue(e, c, b)
        PROVE ValuesInv'
    <2> DEFINE r == [kind |-> "value", link |-> <<c, b>>]
    <2> SUFFICES ASSUME NEW d \in Tasks \ crossed' PROVE Uncrossed(d)'
      BY <1>9, <1>t, <1>v DEF SetValue, ValuesInv
    <2>1. edit' = [edit EXCEPT ![e] = r] /\ board[c] = b /\ UNCHANGED <<board, values>>
      BY <1>9 DEF SetValue
    <2>2. d \notin crossed /\ (d = c => ~Meets(c, "relocate"))
      BY <1>9 DEF SetValue
    <2>3. Uncrossed(d)
      BY <2>2 DEF ValuesInv
    <2>4. edit'[e] = r /\ r.kind = "value" /\ r.link[1] = c /\ r.link[2] = b
      BY <2>1, <1>t DEF LinksTypes
    <2>5. \A f \in Edits, k \in {"value", "relocate"} : f # e /\ At(f, k, d)' => At(f, k, d) /\ edit'[f] = edit[f]
      BY <2>1, <1>t DEF At, LinksTypes
    <2> HIDE DEF r
    <2>6. ~At(e, "relocate", d)' /\ (At(e, "value", d)' => d = c /\ edit'[e].link[2] = b)
      BY <2>4 DEF At
    <2>7. \A f \in Edits : At(f, "relocate", d)' => d # c
      BY <2>2, <2>5, <2>6 DEF At, Meets
    <2> QED BY <2>1, <2>3, <2>5, <2>6, <2>7 DEF Uncrossed
  <1>10. ASSUME NEW e \in Edits, WriteValue(e) PROVE ValuesInv'
    <2>1. edit[e].link \in Tasks \X Boards
      BY <1>10, <1>t DEF WriteValue, LinksTypes, EditTypes, Free
    <2>2. values' \in [Tasks -> SUBSET Boards]
      BY <1>10, <1>v, <2>1 DEF WriteValue
    <2>3. \A c \in Tasks : values'[c] # values[c] =>
            At(e, "value", c) /\ values'[c] = values[c] \cup {edit[e].link[2]}
      BY <1>10, <1>v, <2>1 DEF WriteValue, At
    <2> QED BY <1>10, <1>t, <2>2, <2>3, ValuesWhenDone DEF WriteValue
  <1>11. ASSUME NEW e \in Edits, NEW c \in Tasks, NEW b \in Boards, Relocate(e, c, b)
        PROVE ValuesInv'
    <2> DEFINE r == [kind |-> "relocate", link |-> <<c, b>>, drop |-> values[c] # {}]
    <2> SUFFICES ASSUME NEW d \in Tasks \ crossed' PROVE Uncrossed(d)'
      BY <1>11, <1>t, <1>v DEF Relocate, ValuesInv
    <2>1. edit' = [edit EXCEPT ![e] = r] /\ UNCHANGED <<board, values>>
      BY <1>11 DEF Relocate
    <2>2. d \notin crossed /\ (d = c => ~Meets(c, "value") /\ ~Meets(c, "relocate"))
      BY <1>11 DEF Relocate
    <2>3. Uncrossed(d)
      BY <2>2 DEF ValuesInv
    <2>4. edit'[e] = r /\ r.kind = "relocate" /\ r.link[1] = c /\ r.drop = (values[c] # {})
      BY <2>1, <1>t DEF LinksTypes
    <2>5. \A f \in Edits, k \in {"value", "relocate"} : f # e /\ At(f, k, d)' => At(f, k, d) /\ edit'[f] = edit[f]
      BY <2>1, <1>t DEF At, LinksTypes
    <2> HIDE DEF r
    <2>6. ~At(e, "value", d)' /\ (At(e, "relocate", d)' => d = c)
      BY <2>4 DEF At
    <2>7. \A f \in Edits, k \in {"value", "relocate"} : f # e /\ At(f, k, d)' => d # c
      BY <2>2, <2>5 DEF At, Meets
    <2>8. d = c /\ ~edit'[e].drop => values[d] = {}
      BY <2>4
    <2> QED BY <2>1, <2>3, <2>5, <2>6, <2>7, <2>8 DEF Uncrossed
  <1>12. ASSUME NEW e \in Edits, DropValues(e) PROVE ValuesInv'
    <2> DEFINE r == [edit[e] EXCEPT !.drop = FALSE]
               x == edit[e].link[1]
    <2>1. edit' = [edit EXCEPT ![e] = r] /\ UNCHANGED <<board, crossed>>
      BY <1>12, <1>t DEF DropValues, LinksTypes
    <2>2. r.kind = "relocate" /\ r.link = edit[e].link /\ edit[e].kind = "relocate"
      BY <1>12 DEF DropValues
    <2>3. values' = [values EXCEPT ![x] = {}]
      BY <1>12 DEF DropValues
    <2> SUFFICES ASSUME NEW d \in Tasks \ crossed PROVE Uncrossed(d)'
      BY <1>t, <1>v, <2>1, <2>3 DEF ValuesInv
    <2>4. Uncrossed(d)
      BY DEF ValuesInv
    <2> HIDE DEF r
    <2>5. \A f \in Edits, k \in {"value", "relocate"} : At(f, k, d)' =>
            At(f, k, d) /\ edit'[f].link = edit[f].link /\ (f # e => edit'[f] = edit[f])
      BY <2>1, <2>2, <1>t DEF At, LinksTypes
    <2>6. values'[d] = IF d = x THEN {} ELSE values[d]
      BY <2>3, <1>v
    <2>7. At(e, "relocate", d)' => d = x
      BY <2>5 DEF At
    <2> QED BY <2>1, <2>4, <2>5, <2>6, <2>7 DEF Uncrossed
  <1>13. ASSUME NEW e \in Edits, Arrive(e) PROVE ValuesInv'
    <2> DEFINE x == edit[e].link[1]
    <2>1. /\ edit[e].kind = "relocate" /\ ~edit[e].drop /\ Done(e)
          /\ UNCHANGED <<values, crossed>>
          /\ UNCHANGED board \/ board' = [board EXCEPT ![x] = edit[e].link[2]]
      BY <1>13 DEF Arrive
    <2> SUFFICES ASSUME NEW d \in Tasks \ crossed PROVE Uncrossed(d)'
      BY <1>t, <1>v, <2>1 DEF ValuesInv
    <2>2. Uncrossed(d)
      BY DEF ValuesInv
    <2>3. \A f \in Edits, k \in {"value", "relocate"} : At(f, k, d)' =>
            At(f, k, d) /\ edit'[f] = edit[f] /\ f # e
      BY <2>1, <1>t DEF At, Done, Free, LinksTypes
    <2>4. CASE d # x
      <3>1. board'[d] = board[d]
        BY <2>1, <2>4, <1>t DEF LinksTypes
      <3> QED BY <2>1, <2>2, <2>3, <3>1 DEF Uncrossed
    <2>5. CASE d = x
      <3>1. At(e, "relocate", d) /\ values[d] = {}
        BY <2>1, <2>2, <2>5 DEF At, Uncrossed
      <3>2. \A f \in Edits, k \in {"value", "relocate"} : ~At(f, k, d)'
        BY <2>2, <2>3, <3>1 DEF Uncrossed
      <3> QED BY <2>1, <3>1, <3>2 DEF Uncrossed
    <2> QED BY <2>4, <2>5
  <1>14. ASSUME NEW c \in Tasks, Delete(c) PROVE ValuesInv'
    BY <1>14, <1>t, <1>v DEF Delete, ValuesInv, Uncrossed, At
  <1> QED BY <1>1, <1>2, <1>3, <1>4, <1>5, <1>6, <1>7, <1>8, <1>9, <1>10, <1>11, <1>12, <1>13, <1>14
       DEF LinksNext, DependencyNext, ParentNext, FieldNext, MovesNext

----------------------------------------------------------------------------
(* Cycles of links.                                                        *)

\* A link added to where a search ends, from a card the search did not meet.
LEMMA LinkFromUnseen ==
    ASSUME NEW L, NoCycle(L), NEW seen, NEW b, NEW d, d \in seen, b \notin seen,
           \A x, y : x \in seen /\ <<x, y>> \in L => y \in seen,
           NEW K, K \subseteq L \cup {<<b, d>>}
    PROVE  NoCycle(K)
PROOF
  <1> SUFFICES ASSUME NEW S \in (SUBSET Tasks) \ {{}}
               PROVE  \E c \in S : \A x \in S : <<c, x>> \notin K
    BY DEF NoCycle
  <1>1. CASE S \cap seen = {}
    <2>1. PICK c \in S : \A x \in S : <<c, x>> \notin L
      BY DEF NoCycle
    <2>2. \A x \in S : <<c, x>> # <<b, d>>
      BY <1>1
    <2> QED BY <2>1, <2>2
  <1>2. CASE S \cap seen # {}
    <2>1. PICK c \in S \cap seen : \A x \in S \cap seen : <<c, x>> \notin L
      <3>1. S \cap seen \in (SUBSET Tasks) \ {{}}
        BY <1>2
      <3> QED BY <3>1 DEF NoCycle
    <2>2. \A x \in S : <<c, x>> \notin L /\ <<c, x>> # <<b, d>>
      BY <2>1
    <2> QED BY <2>1, <2>2
  <1> QED BY <1>1, <1>2

LEMMA FewerNoCycle ==
    ASSUME NEW L, NoCycle(L), NEW K, K \subseteq L
    PROVE  NoCycle(K)
PROOF
  BY DEF NoCycle

\* What a search has seen is closed under the links, but for the cards it goes on from.
Frontier(q) ==
    /\ q.link[2] \in q.seen /\ q.next \subseteq q.seen
    /\ q.link[1] \notin q.seen \ q.next
    /\ \A x, y : x \in q.seen \ q.next /\ <<x, y>> \in blocks => y \in q.seen

Alone(q, kind) == q.kind = kind /\ q.alone

BlocksInv ==
    /\ LinksTypes /\ NoParents
    /\ NoCycle(blocks \ late)
    /\ \A e \in Edits : Alone(edit[e], "blocks") => Frontier(edit[e])

\* Links go, and requests begin or end that search no dependency.
LEMMA FewerLinks ==
    ASSUME BlocksInv, LinksTypes', NoParents', blocks' \subseteq blocks,
           blocks' \ late' \subseteq blocks \ late,
           \A f \in Edits : Alone(edit'[f], "blocks") => edit'[f] = edit[f]
    PROVE  BlocksInv'
PROOF
  <1>1. NoCycle(blocks' \ late')
    BY FewerNoCycle DEF BlocksInv
  <1>2. \A e \in Edits : Alone(edit'[e], "blocks") => Frontier(edit[e])
    BY DEF BlocksInv
  <1> QED BY <1>1, <1>2 DEF BlocksInv, Frontier, NoCycle, Alone

LEMMA BlocksKept == BlocksInv /\ DependencyNext => BlocksInv'
PROOF
  <1> SUFFICES ASSUME BlocksInv, DependencyNext PROVE BlocksInv'
    OBVIOUS
  <1>t. LinksTypes /\ LinksTypes'
    BY TypesKept DEF BlocksInv, LinksNext
  <1>n. NoParents
    BY DEF BlocksInv
  <1>p. UNCHANGED parent => NoParents'
    BY <1>n DEF NoParents
  <1>d. ASSUME NEW e \in Edits, Done(e) PROVE \A f \in Edits : Alone(edit'[f], "blocks") => edit'[f] = edit[f]
    BY <1>d, <1>t DEF Done, LinksTypes, Alone, Free
  <1>1. ASSUME NEW e \in Edits, NEW a \in Tasks, NEW b \in Tasks, NEW type \in {"blocks", "related"},
               AddDependency(e, a, b, type)
        PROVE BlocksInv'
    <2> DEFINE r == [kind |-> type, link |-> <<a, b>>, alone |-> TRUE,
             seen |-> {b}, next |-> IF type = "related" THEN {} ELSE {b}]
    <2>1. /\ edit' = [edit EXCEPT ![e] = r] /\ UNCHANGED <<blocks, late, parent>>
      BY <1>1 DEF AddDependency
    <2>2. Alone(r, "blocks") => Frontier(r)'
      BY DEF Frontier, Alone
    <2> HIDE DEF r
    <2>3. ASSUME NEW f \in Edits, Alone(edit'[f], "blocks") PROVE Frontier(edit[f])'
      <3>1. CASE f = e
        BY <2>1, <2>2, <2>3, <3>1, <1>t DEF LinksTypes
      <3>2. CASE f # e
        BY <2>1, <2>3, <3>2, <1>t DEF LinksTypes, BlocksInv, Frontier
      <3> QED BY <3>1, <3>2
    <2> QED BY <1>t, <1>p, <2>1, <2>3 DEF BlocksInv, NoCycle
  <1>2. ASSUME NEW e \in Edits, Search(e) PROVE BlocksInv'
    <2>1. CASE Done(e)
      BY <1>2, <1>t, <1>d, <1>p, <2>1, FewerLinks DEF Search
    <2>2. CASE ~Done(e)
      <3> DEFINE q == edit[e]
      <3>0. PICK found : found = Blocked(q.next) \ q.seen
        OBVIOUS
      <3>1. /\ edit' = [edit EXCEPT ![e].seen = @ \cup found, ![e].next = found]
            /\ q.link[1] \notin q.next /\ q.kind = "blocks"
            /\ UNCHANGED <<blocks, late, parent>>
        BY <1>2, <2>2, <3>0 DEF Search
      <3> DEFINE r == [q EXCEPT !.seen = @ \cup found, !.next = found]
      <3>2. edit' = [edit EXCEPT ![e] = r]
        BY <3>1, <1>t DEF LinksTypes
      <3>3. q \in [kind : {"blocks", "related"}, link : Tasks \X Tasks, alone : BOOLEAN,
              seen : SUBSET Tasks, next : SUBSET Tasks]
        BY <3>1, <1>t DEF LinksTypes, EditTypes, Free
      <3>4. /\ r.link = q.link /\ r.alone = q.alone /\ r.kind = q.kind
            /\ r.seen = q.seen \cup found /\ r.next = found
        BY <3>3
      <3>5. Alone(q, "blocks") => Frontier(q)
        BY DEF BlocksInv
      <3>7. \A x, y : x \in q.next /\ <<x, y>> \in blocks => y \in q.seen \cup found
        BY <3>0, <1>t DEF Blocked, LinksTypes
      <3> HIDE DEF r, q
      <3>6. Frontier(q) => Frontier(r)
        BY <3>0, <3>1, <3>4, <3>7 DEF Frontier
      <3>8. ASSUME NEW f \in Edits, Alone(edit'[f], "blocks") PROVE Frontier(edit[f])'
        <4>1. CASE f = e
          <5>1. edit'[f] = r
            BY <3>2, <4>1, <1>t DEF LinksTypes
          <5>2. Alone(q, "blocks")
            BY <3>4, <3>8, <5>1 DEF Alone
          <5> QED BY <3>1, <3>5, <3>6, <5>1, <5>2 DEF Frontier
        <4>2. CASE f # e
          BY <3>1, <3>2, <3>8, <4>2, <1>t DEF LinksTypes, BlocksInv, Frontier
        <4> QED BY <4>1, <4>2
      <3> QED BY <1>t, <1>p, <3>1, <3>8 DEF BlocksInv, NoCycle
    <2> QED BY <2>1, <2>2
  <1>3. ASSUME NEW e \in Edits, WriteDependency(e) PROVE BlocksInv'
    <2> DEFINE link == edit[e].link
    <2>1. CASE Done(e) /\ UNCHANGED <<blocks, related, late>>
      BY <1>3, <1>t, <1>d, <1>p, <2>1, FewerLinks DEF WriteDependency
    <2>2. CASE /\ Overtake(e, "blocks")
               /\ late' = IF edit[e].alone THEN late ELSE late \cup {link}
      <3>1. \A f \in Edits : ~Alone(edit'[f], "blocks")
        <4> SUFFICES ASSUME NEW f \in Edits PROVE ~Alone(edit'[f], "blocks")
          OBVIOUS
        <4>1. CASE f = e
          BY <2>2, <4>1 DEF Overtake, Alone, Free
        <4>2. CASE f # e /\ edit[f].kind = "blocks"
          <5>1. edit'[f] = [edit[f] EXCEPT !.alone = FALSE]
            BY <2>2, <4>2 DEF Overtake
          <5>2. edit[f] \in [kind : {"blocks", "related"}, link : Tasks \X Tasks, alone : BOOLEAN,
                  seen : SUBSET Tasks, next : SUBSET Tasks]
            BY <4>2, <1>t DEF LinksTypes, EditTypes, Free
          <5> QED BY <5>1, <5>2 DEF Alone
        <4>3. CASE f # e /\ edit[f].kind # "blocks"
          BY <2>2, <4>3 DEF Overtake, Alone
        <4> QED BY <4>1, <4>2, <4>3
      <3>2. NoCycle(blocks' \ late')
        <4>1. CASE blocks' \ late' \subseteq blocks \ late
          BY <4>1, FewerNoCycle DEF BlocksInv
        <4>2. CASE edit[e].kind = "blocks" /\ edit[e].alone
          <5>1. Frontier(edit[e]) /\ edit[e].next = {}
            BY <1>3, <4>2 DEF BlocksInv, Alone, WriteDependency
          <5>2. blocks' \ late' \subseteq (blocks \ late) \cup {link}
            BY <1>3, <2>2, <4>2 DEF WriteDependency
          <5>3. link = <<link[1], link[2]>>
            BY <4>2, <1>t DEF LinksTypes, EditTypes, Free
          <5>4. PICK seen, b, d : seen = edit[e].seen /\ b = link[1] /\ d = link[2]
            OBVIOUS
          <5>5. /\ d \in seen /\ b \notin seen
                /\ \A x, y : x \in seen /\ <<x, y>> \in blocks \ late => y \in seen
            BY <5>1, <5>4 DEF Frontier
          <5>6. blocks' \ late' \subseteq (blocks \ late) \cup {<<b, d>>}
            BY <5>2, <5>3, <5>4
          <5>7. NoCycle(blocks \ late)
            BY DEF BlocksInv
          <5> QED BY <5>5, <5>6, <5>7, LinkFromUnseen
        <4> QED BY <1>3, <2>2, <4>1, <4>2 DEF WriteDependency
      <3> QED BY <1>3, <1>t, <1>p, <3>1, <3>2 DEF WriteDependency, BlocksInv, NoCycle, Alone
    <2> QED BY <1>3, <2>1, <2>2 DEF WriteDependency
  <1>4. ASSUME NEW link \in blocks \cup related, RemoveDependency(link) PROVE BlocksInv'
    <2>1. /\ blocks' \subseteq blocks /\ blocks' \ late' \subseteq blocks \ late
          /\ UNCHANGED <<edit, parent>>
      BY <1>4 DEF RemoveDependency
    <2> QED BY <1>t, <1>p, <2>1, FewerLinks
  <1>5. ASSUME NEW e \in Edits, NEW c \in Tasks, NEW b \in Boards, Relocate(e, c, b)
        PROVE BlocksInv'
    <2> DEFINE r == [kind |-> "relocate", link |-> <<c, b>>, drop |-> values[c] # {}]
    <2>1. edit' = [edit EXCEPT ![e] = r] /\ UNCHANGED <<blocks, late, parent>>
      BY <1>5 DEF Relocate
    <2>2. \A f \in Edits : Alone(edit'[f], "blocks") => edit'[f] = edit[f]
      BY <2>1, <1>t DEF LinksTypes, Alone
    <2> HIDE DEF r
    <2> QED BY <1>t, <1>p, <2>1, <2>2, FewerLinks
  <1>6. ASSUME NEW e \in Edits, DropValues(e) PROVE BlocksInv'
    <2> DEFINE r == [edit[e] EXCEPT !.drop = FALSE]
    <2>1. edit' = [edit EXCEPT ![e] = r] /\ UNCHANGED <<blocks, late, parent>>
      BY <1>6, <1>t DEF DropValues, LinksTypes
    <2>2. r.kind = "relocate"
      BY <1>6 DEF DropValues
    <2> HIDE DEF r
    <2>3. \A f \in Edits : Alone(edit'[f], "blocks") => edit'[f] = edit[f]
      BY <2>1, <2>2, <1>t DEF LinksTypes, Alone
    <2> QED BY <1>t, <1>p, <2>1, <2>3, FewerLinks
  <1>7. ASSUME NEW e \in Edits, Arrive(e) PROVE BlocksInv'
    BY <1>7, <1>t, <1>d, <1>p, FewerLinks DEF Arrive
  <1>8. ASSUME NEW c \in Tasks, Delete(c) PROVE BlocksInv'
    <2>1. /\ blocks' \subseteq blocks /\ blocks' \ late' \subseteq blocks \ late
          /\ UNCHANGED edit
      BY <1>8 DEF Delete, Without
    <2>2. NoParents'
      BY <1>8, <1>n DEF Delete, NoParents
    <2> QED BY <1>t, <2>1, <2>2, FewerLinks
  <1> QED BY <1>1, <1>2, <1>3, <1>4, <1>5, <1>6, <1>7, <1>8 DEF DependencyNext, MovesNext

----------------------------------------------------------------------------
\* The same upwards: what a climb has seen leads to what it has seen, or to the card it
\* goes on to.
Climbed(q) ==
    /\ q.link[2] \in q.seen /\ q.link[1] \notin q.seen
    /\ \A x \in q.seen \cap tasks : parent[x] \in q.seen \cup {q.next, NoTask}

ParentsInv ==
    /\ LinksTypes /\ blocks = {} /\ related = {}
    /\ NoCycle(Parents \ late)
    /\ \A e \in Edits : Alone(edit[e], "adopt") => Climbed(edit[e])

\* Parents go, and requests begin or end that climb nowhere.
LEMMA FewerParents ==
    ASSUME ParentsInv, LinksTypes', blocks' = {}, related' = {}, tasks' \subseteq tasks,
           \A c \in tasks' : parent'[c] \in {parent[c], NoTask},
           \A l \in Parents' : l \notin late' => l \notin late,
           \A f \in Edits : Alone(edit'[f], "adopt") => edit'[f] = edit[f]
    PROVE  ParentsInv'
PROOF
  <1>1. Parents' \subseteq Parents
    BY DEF Parents
  <1>2. NoCycle(Parents' \ late')
    BY <1>1, FewerNoCycle DEF ParentsInv
  <1>3. \A e \in Edits : Alone(edit'[e], "adopt") => Climbed(edit[e])
    BY DEF ParentsInv
  <1>4. \A e \in Edits : Alone(edit'[e], "adopt") => Climbed(edit[e])'
    BY <1>3 DEF Climbed
  <1> QED BY <1>2, <1>4 DEF ParentsInv, NoCycle, Alone

LEMMA ParentsKept == ParentsInv /\ ParentNext => ParentsInv'
PROOF
  <1> SUFFICES ASSUME ParentsInv, ParentNext PROVE ParentsInv'
    OBVIOUS
  <1>t. LinksTypes /\ LinksTypes'
    BY TypesKept DEF ParentsInv, LinksNext
  <1>b. blocks = {} /\ related = {}
    BY DEF ParentsInv
  <1>s. ASSUME UNCHANGED <<tasks, parent, late>>
        PROVE  /\ Parents' = Parents /\ \A c \in tasks' : parent'[c] \in {parent[c], NoTask}
    BY <1>s DEF Parents
  <1>d. ASSUME NEW e \in Edits, Done(e) PROVE \A f \in Edits : Alone(edit'[f], "adopt") => edit'[f] = edit[f]
    BY <1>d, <1>t DEF Done, LinksTypes, Alone, Free
  <1>1. ASSUME NEW e \in Edits, NEW c \in Tasks, NEW p \in Tasks, SetParent(e, c, p)
        PROVE ParentsInv'
    <2>0. PICK r : r = [kind |-> "adopt", link |-> <<c, p>>, alone |-> TRUE,
                        seen |-> {p}, next |-> parent[p]]
      OBVIOUS
    <2>1. edit' = [edit EXCEPT ![e] = r] /\ UNCHANGED <<tasks, blocks, related, late, parent>>
      BY <1>1, <2>0 DEF SetParent
    <2>2. Climbed(r)
      BY <1>1, <2>0 DEF Climbed, SetParent
    <2>3. ASSUME NEW f \in Edits, Alone(edit'[f], "adopt") PROVE Climbed(edit[f])'
      <3>1. CASE f = e
        <4>1. edit'[f] = r
          BY <2>1, <3>1, <1>t DEF LinksTypes
        <4> QED BY <2>1, <2>2, <4>1 DEF Climbed
      <3>2. CASE f # e
        BY <2>1, <2>3, <3>2, <1>t DEF LinksTypes, ParentsInv, Climbed
      <3> QED BY <3>1, <3>2
    <2>4. Parents' = Parents
      BY <2>1 DEF Parents
    <2>5. NoCycle(Parents' \ late')
      BY <2>1, <2>4 DEF ParentsInv
    <2> QED BY <1>t, <1>b, <2>1, <2>3, <2>5 DEF ParentsInv, NoCycle
  <1>2. ASSUME NEW e \in Edits, Climb(e) PROVE ParentsInv'
    <2>1. CASE Done(e)
      <3>1. UNCHANGED <<tasks, blocks, related, late, parent>>
        BY <1>2 DEF Climb
      <3> QED BY <1>t, <1>d, <1>b, <1>s, <2>1, <3>1, FewerParents
    <2>2. CASE ~Done(e)
      <3> DEFINE q == edit[e]
      <3>0. PICK at, n : /\ at = q.next
                         /\ n = IF at \in q.seen \/ at \notin tasks THEN NoTask ELSE parent[at]
        OBVIOUS
      <3>1. /\ edit' = [edit EXCEPT ![e].seen = @ \cup {at}, ![e].next = n]
            /\ at # q.link[1] /\ q.kind = "adopt" /\ at # NoTask
            /\ UNCHANGED <<tasks, blocks, related, late, parent>>
        BY <1>2, <2>2, <3>0 DEF Climb
      <3> DEFINE r == [q EXCEPT !.seen = @ \cup {at}, !.next = n]
      <3>2. edit' = [edit EXCEPT ![e] = r]
        BY <3>1, <1>t DEF LinksTypes
      <3>3. q \in [kind : {"adopt"}, link : Tasks \X Tasks, alone : BOOLEAN,
                   seen : SUBSET Tasks, next : Tasks \cup {NoTask}]
        BY <3>1, <1>t DEF LinksTypes, EditTypes, Free
      <3>4. /\ r.link = q.link /\ r.alone = q.alone /\ r.kind = q.kind
            /\ r.seen = q.seen \cup {at} /\ r.next = n
        BY <3>3
      <3>5. Alone(q, "adopt") => Climbed(q)
        BY DEF ParentsInv
      <3> HIDE DEF r, q
      <3>6. Climbed(q) => Climbed(r)
        BY <3>0, <3>1, <3>4 DEF Climbed
      <3>8. ASSUME NEW f \in Edits, Alone(edit'[f], "adopt") PROVE Climbed(edit[f])'
        <4>1. CASE f = e
          <5>1. edit'[f] = r
            BY <3>2, <4>1, <1>t DEF LinksTypes
          <5>2. Alone(q, "adopt")
            BY <3>4, <3>8, <5>1 DEF Alone
          <5> QED BY <3>1, <3>5, <3>6, <5>1, <5>2 DEF Climbed
        <4>2. CASE f # e
          BY <3>1, <3>2, <3>8, <4>2, <1>t DEF LinksTypes, ParentsInv, Climbed
        <4> QED BY <4>1, <4>2
      <3>9. Parents' = Parents
        BY <3>1 DEF Parents
      <3>10. NoCycle(Parents' \ late')
        BY <3>1, <3>9 DEF ParentsInv
      <3> QED BY <1>t, <1>b, <3>1, <3>8, <3>10 DEF ParentsInv, NoCycle
    <2> QED BY <2>1, <2>2
  <1>3. ASSUME NEW e \in Edits, WriteParent(e) PROVE ParentsInv'
    <2>0. UNCHANGED <<tasks, blocks, related>>
      BY <1>3 DEF WriteParent
    <2>1. CASE Done(e) /\ UNCHANGED <<parent, late>>
      BY <1>t, <1>d, <1>b, <1>s, <2>0, <2>1, FewerParents
    <2>2. CASE ~(Done(e) /\ UNCHANGED <<parent, late>>)
      <3>0. PICK c, p : c = edit[e].link[1] /\ p = edit[e].link[2]
        OBVIOUS
      <3>1. /\ Overtake(e, "adopt") /\ parent' = [parent EXCEPT ![c] = p]
            /\ late' = IF edit[e].alone THEN late \ {<<c, parent[c]>>}
                       ELSE (late \ {<<c, parent[c]>>}) \cup {<<c, p>>}
            /\ edit[e].kind = "adopt" /\ edit[e].next = NoTask
        BY <1>3, <2>2, <3>0 DEF WriteParent
      <3>2. \A f \in Edits : ~Alone(edit'[f], "adopt")
        <4> SUFFICES ASSUME NEW f \in Edits PROVE ~Alone(edit'[f], "adopt")
          OBVIOUS
        <4>1. CASE f = e
          BY <3>1, <4>1 DEF Overtake, Alone, Free
        <4>2. CASE f # e /\ edit[f].kind = "adopt"
          <5>1. edit'[f] = [edit[f] EXCEPT !.alone = FALSE]
            BY <3>1, <4>2 DEF Overtake
          <5>2. edit[f] \in [kind : {"adopt"}, link : Tasks \X Tasks, alone : BOOLEAN,
                             seen : SUBSET Tasks, next : Tasks \cup {NoTask}]
            BY <4>2, <1>t DEF LinksTypes, EditTypes, Free
          <5> QED BY <5>1, <5>2 DEF Alone
        <4>3. CASE f # e /\ edit[f].kind # "adopt"
          BY <3>1, <4>3 DEF Overtake, Alone
        <4> QED BY <4>1, <4>2, <4>3
      <3>3. NoCycle(Parents' \ late')
        <4>1. /\ Parents' \ late' \subseteq (Parents \ late) \cup {<<c, p>>}
              /\ ~edit[e].alone => Parents' \ late' \subseteq Parents \ late
          <5> SUFFICES ASSUME NEW d \in tasks, parent'[d] # NoTask, <<d, parent'[d]>> \notin late'
                       PROVE  /\ <<d, parent'[d]>> \in (Parents \ late) \cup {<<c, p>>}
                              /\ ~edit[e].alone => <<d, parent'[d]>> \in Parents \ late
            BY <2>0 DEF Parents
          <5>1. parent'[d] = IF d = c THEN p ELSE parent[d]
            BY <3>1, <1>t DEF LinksTypes
          <5> QED BY <3>1, <5>1 DEF Parents
        <4>2. CASE ~edit[e].alone
          BY <4>1, <4>2, FewerNoCycle DEF ParentsInv
        <4>3. CASE edit[e].alone
          <5>1. Climbed(edit[e])
            BY <3>1, <4>3 DEF ParentsInv, Alone
          <5>2. PICK seen : seen = edit[e].seen
            OBVIOUS
          <5>3. /\ p \in seen /\ c \notin seen
                /\ \A x, y : x \in seen /\ <<x, y>> \in Parents \ late => y \in seen
            BY <3>0, <3>1, <5>1, <5>2 DEF Climbed, Parents
          <5>4. NoCycle(Parents \ late)
            BY DEF ParentsInv
          <5> QED BY <4>1, <5>3, <5>4, LinkFromUnseen
        <4> QED BY <4>2, <4>3
      <3> QED BY <1>t, <1>b, <2>0, <3>2, <3>3 DEF ParentsInv, NoCycle, Alone
    <2> QED BY <2>1, <2>2
  <1>4. ASSUME NEW c \in Tasks, ClearParent(c) PROVE ParentsInv'
    <2>1. /\ parent' = [parent EXCEPT ![c] = NoTask] /\ late' = late \ {<<c, parent[c]>>}
          /\ UNCHANGED <<tasks, blocks, related, edit>>
      BY <1>4 DEF ClearParent
    <2>2. \A d \in tasks : parent'[d] = IF d = c THEN NoTask ELSE parent[d]
      BY <2>1, <1>t DEF LinksTypes
    <2>3. \A l \in Parents' : l \notin late' => l \notin late
      BY <2>1, <2>2 DEF Parents
    <2> QED BY <1>t, <1>b, <2>1, <2>2, <2>3, FewerParents
  <1>5. ASSUME NEW e \in Edits, NEW c \in Tasks, NEW b \in Boards, Relocate(e, c, b)
        PROVE ParentsInv'
    <2> DEFINE r == [kind |-> "relocate", link |-> <<c, b>>, drop |-> values[c] # {}]
    <2>1. edit' = [edit EXCEPT ![e] = r] /\ UNCHANGED <<tasks, blocks, related, late, parent>>
      BY <1>5 DEF Relocate
    <2>2. \A f \in Edits : Alone(edit'[f], "adopt") => edit'[f] = edit[f]
      BY <2>1, <1>t DEF LinksTypes, Alone
    <2> HIDE DEF r
    <2> QED BY <1>t, <1>b, <1>s, <2>1, <2>2, FewerParents
  <1>6. ASSUME NEW e \in Edits, DropValues(e) PROVE ParentsInv'
    <2> DEFINE r == [edit[e] EXCEPT !.drop = FALSE]
    <2>1. edit' = [edit EXCEPT ![e] = r] /\ UNCHANGED <<tasks, blocks, related, late, parent>>
      BY <1>6, <1>t DEF DropValues, LinksTypes
    <2>2. r.kind = "relocate"
      BY <1>6 DEF DropValues
    <2> HIDE DEF r
    <2>3. \A f \in Edits : Alone(edit'[f], "adopt") => edit'[f] = edit[f]
      BY <2>1, <2>2, <1>t DEF LinksTypes, Alone
    <2> QED BY <1>t, <1>b, <1>s, <2>1, <2>3, FewerParents
  <1>7. ASSUME NEW e \in Edits, Arrive(e) PROVE ParentsInv'
    <2>1. Done(e) /\ UNCHANGED <<tasks, blocks, related, late, parent>>
      BY <1>7 DEF Arrive
    <2> QED BY <1>t, <1>b, <1>s, <1>d, <2>1, FewerParents
  <1>8. ASSUME NEW c \in Tasks, Delete(c) PROVE ParentsInv'
    <2>1. /\ tasks' = tasks \ {c} /\ blocks' = {} /\ related' = {} /\ late' = Without(late, c)
          /\ UNCHANGED edit
      BY <1>8, <1>b DEF Delete, Without
    <2>2. \A d \in tasks' : /\ parent'[d] = IF parent[d] = c THEN NoTask ELSE parent[d]
                            /\ d # c
      BY <1>8, <2>1, <1>t DEF Delete, LinksTypes
    <2>3. \A l \in Parents' : l \notin late' => l \notin late
      <3> SUFFICES ASSUME NEW d \in tasks', parent'[d] # NoTask, <<d, parent'[d]>> \notin late'
                   PROVE  <<d, parent'[d]>> \notin late
        BY DEF Parents
      <3>1. d # c /\ parent'[d] # c
        BY <2>2
      <3> QED BY <2>1, <3>1 DEF Without
    <2> QED BY <1>t, <1>b, <2>1, <2>2, <2>3, FewerParents
  <1> QED BY <1>1, <1>2, <1>3, <1>4, <1>5, <1>6, <1>7, <1>8 DEF ParentNext, MovesNext

\* A link written behind the back of a search is there still, or its card has another
\* parent by now; and between two cards there is one dependency.
LateInv ==
    /\ blocks \cap related = {}
    /\ late \subseteq blocks \cup related \cup Parents
    /\ relocated \subseteq Tasks /\ crossed \subseteq Tasks

LEMMA LateStart == GraphInit => LateInv
PROOF
  BY DEF GraphInit, LateInv

LEMMA LateKept == LateInv /\ LinksTypes /\ LinksNext => LateInv'
PROOF
  <1> SUFFICES ASSUME LateInv, LinksTypes, LinksNext PROVE LateInv'
    OBVIOUS
  <1>0. UNCHANGED <<tasks, parent>> => Parents' = Parents
    BY DEF Parents
  <1>1. CASE UNCHANGED <<tasks, parent, blocks, related, late>> /\ relocated' \subseteq Tasks /\ crossed' \subseteq Tasks
    BY <1>0, <1>1 DEF LateInv
  <1>2. ASSUME NEW e \in Edits, NEW a, NEW b, NEW type, AddDependency(e, a, b, type) \/ SetParent(e, a, b)
        PROVE  LateInv'
    BY <1>1, <1>2 DEF AddDependency, SetParent, LateInv
  <1>3. ASSUME NEW e \in Edits, Search(e) \/ Climb(e) \/ DropValues(e) \/ WriteValue(e) PROVE LateInv'
    BY <1>1, <1>3 DEF Search, Climb, DropValues, WriteValue, LateInv
  <1>4. ASSUME NEW e \in Edits, NEW c \in Tasks, NEW b, SetValue(e, c, b) \/ Relocate(e, c, b) PROVE LateInv'
    BY <1>1, <1>4 DEF SetValue, Relocate, LateInv
  <1>5. ASSUME NEW e \in Edits, Arrive(e) PROVE LateInv'
    <2>1. edit[e].link \in Tasks \X Boards
      BY <1>5 DEF Arrive, LinksTypes, EditTypes, Free
    <2> QED BY <1>1, <1>5, <2>1 DEF Arrive, LateInv
  <1>6. ASSUME NEW e \in Edits, WriteDependency(e) PROVE LateInv'
    <2>1. Parents' = Parents
      BY <1>0, <1>6 DEF WriteDependency
    <2> QED BY <1>6, <2>1 DEF WriteDependency, Insertable, LateInv
  <1>7. ASSUME NEW l, RemoveDependency(l) PROVE LateInv'
    <2>1. Parents' = Parents
      BY <1>0, <1>7 DEF RemoveDependency
    <2> QED BY <1>7, <2>1 DEF RemoveDependency, LateInv
  <1>8. ASSUME NEW e \in Edits, WriteParent(e) PROVE LateInv'
    <2>1. PICK c, p : c = edit[e].link[1] /\ p = edit[e].link[2]
      OBVIOUS
    <2>2. CASE ~({c, p} \subseteq tasks)
      BY <1>1, <1>8, <2>1, <2>2 DEF WriteParent, LateInv
    <2>3. CASE {c, p} \subseteq tasks
      <3>1. /\ parent' = [parent EXCEPT ![c] = p]
            /\ late' \subseteq (late \ {<<c, parent[c]>>}) \cup {<<c, p>>}
            /\ UNCHANGED <<tasks, blocks, related, relocated, crossed>>
        BY <1>8, <2>1, <2>3 DEF WriteParent
      <3>2. p # NoTask /\ c \in tasks /\ c \in Tasks
        BY <2>3, GraphAssumption DEF GraphAssumption, LinksTypes
      <3>3. \A d \in tasks : parent'[d] = IF d = c THEN p ELSE parent[d]
        BY <3>1 DEF LinksTypes
      <3>4. <<c, p>> \in Parents'
        BY <3>1, <3>2, <3>3 DEF Parents
      <3>5. \A d \in tasks \ {c} : parent[d] # NoTask => <<d, parent[d]>> \in Parents'
        BY <3>1, <3>3 DEF Parents
      <3>6. \A l \in Parents : l # <<c, parent[c]>> => l \in Parents'
        BY <3>5 DEF Parents
      <3> QED BY <3>1, <3>4, <3>6 DEF LateInv
    <2> QED BY <2>2, <2>3
  <1>9. ASSUME NEW c \in Tasks, ClearParent(c) PROVE LateInv'
    <2>1. \A d \in tasks \ {c} : parent'[d] = parent[d]
      BY <1>9 DEF ClearParent, LinksTypes
    <2>2. \A l \in Parents : l # <<c, parent[c]>> => l \in Parents'
      BY <1>9, <2>1 DEF Parents, ClearParent
    <2> QED BY <1>9, <2>2 DEF ClearParent, LateInv
  <1>10. ASSUME NEW c \in Tasks, Delete(c) PROVE LateInv'
    <2>1. \A d \in tasks \ {c} : parent[d] # c => parent'[d] = parent[d]
      BY <1>10 DEF Delete, LinksTypes
    <2>2. \A d \in tasks \ {c} : parent[d] # NoTask /\ parent[d] # c => <<d, parent[d]>> \in Parents'
      <3> TAKE d \in tasks \ {c}
      <3> HAVE parent[d] # NoTask /\ parent[d] # c
      <3>1. d \in tasks' /\ parent'[d] = parent[d]
        BY <1>10, <2>1 DEF Delete
      <3> QED BY <3>1 DEF Parents
    <2>3. \A l \in Parents : l[1] # c /\ l[2] # c => l \in Parents'
      BY <2>2 DEF Parents
    <2> QED BY <1>10, <2>3 DEF Delete, Without, LateInv
  <1> QED BY <1>2, <1>3, <1>4, <1>5, <1>6, <1>7, <1>8, <1>9, <1>10
       DEF LinksNext, DependencyNext, ParentNext, FieldNext, MovesNext

LEMMA LinksTypeOK ==
    ASSUME LinksTypes, LateInv, values \in [Tasks -> SUBSET Boards]
    PROVE  GraphTypeOK
PROOF
  <1>1. Parents \subseteq tasks \X tasks
    BY DEF Parents, LinksTypes
  <1> QED BY <1>1 DEF LinksTypes, LateInv, GraphTypeOK

----------------------------------------------------------------------------
(* Attachments and documents.                                              *)

FileTransfers ==
    {Ready}
    \cup [kind : {"upload", "row"}, path : Paths, owner : Owners]
    \cup [kind : {"remove", "unlink"}, paths : SUBSET Paths, owner : Owners, whole : BOOLEAN]
    \cup [kind : {"copy"}, paths : SUBSET Paths]
    \cup [kind : {"read"}, path : Paths]

FileTypes ==
    /\ owners \subseteq Owners
    /\ rows \subseteq used \X Owners
    /\ stored \subseteq used /\ used \subseteq Paths
    /\ face = NoFace
    /\ transfer \in [Transfers -> FileTransfers]

WritingFile(q) == q.kind \in {"upload", "row"}
Holding(q) == q.kind \in {"remove", "unlink", "copy"}

\* The path of a file being written is its own: no row has it, no other request writes
\* it, and none removes or copies it.
OwnPath(x) ==
    LET p == transfer[x].path IN
    /\ p \in used /\ ~HasRow(p)
    /\ p \in stored <=> transfer[x].kind = "row"
    /\ \A y \in Transfers :
        /\ WritingFile(transfer[y]) /\ transfer[y].path = p => y = x
        /\ Holding(transfer[y]) => p \notin transfer[y].paths

\* The object of a row is taken by the request that removes the row, or was so when it
\* stopped, or with the row of another owner.
HalfGone(p, o) ==
    \/ p \in torn \cup bereft
    \/ \E x \in Transfers : transfer[x].kind = "unlink" /\ transfer[x].owner = o /\ p \in transfer[x].paths

Awaited(p) == \E x \in Transfers : transfer[x].kind = "row" /\ transfer[x].path = p

FilesInv ==
    /\ FileTypes
    /\ \A x \in Transfers : WritingFile(transfer[x]) => OwnPath(x)
    /\ \A x \in Transfers : Holding(transfer[x]) => transfer[x].paths \subseteq used
    /\ \A p \in Paths, o \in Owners : <<p, o>> \in rows => p \in stored \/ HalfGone(p, o)
    /\ \A p \in stored : HasRow(p) \/ p \in litter \/ Awaited(p)

LEMMA FilesBegin == FilesInit => FilesInv
PROOF
  BY DEF FilesInit, FilesInv, FileTypes, FileTransfers, Ready, WritingFile, Holding

LEMMA FilesInvBacks == FilesInv => FilesBacked
PROOF
  <1> SUFFICES ASSUME FilesInv PROVE FilesBacked
    OBVIOUS
  <1>1. Named = rows /\ rows \subseteq Paths \X Owners
    BY DEF FilesInv, FileTypes, Named
  <1>2. ASSUME NEW p \in Paths, NEW o \in Owners, HalfGone(p, o)
        PROVE <<p, o>> \in Leaving \/ p \in torn \cup bereft
    <2>1. CASE p \in torn \cup bereft
      BY <2>1
    <2>2. ASSUME NEW x \in Transfers, transfer[x].kind = "unlink", transfer[x].owner = o, p \in transfer[x].paths
          PROVE <<p, o>> \in Leaving
      <3>1. <<p, o>> \in transfer[x].paths \X {transfer[x].owner}
        BY <2>2
      <3> QED BY <2>2, <3>1 DEF Leaving
    <2> QED BY <1>2, <2>1, <2>2 DEF HalfGone
  <1>3. ASSUME NEW p, Awaited(p) PROVE p \in Handled
    <2>1. PICK x \in Transfers : transfer[x].kind = "row" /\ transfer[x].path = p
      BY <1>3 DEF Awaited
    <2> QED BY <2>1 DEF Handled
  <1>4. ASSUME NEW n \in Named PROVE n[1] \in stored \cup torn \cup bereft \/ n \in Leaving
    <2>1. PICK p \in Paths, o \in Owners : n = <<p, o>>
      BY <1>1
    <2>2. p \in stored \/ HalfGone(p, o)
      BY <1>1, <2>1 DEF FilesInv
    <2> QED BY <1>2, <2>1, <2>2
  <1>5. ASSUME NEW p \in stored PROVE p \in {n[1] : n \in Named} \cup Handled \cup litter
    <2>1. CASE HasRow(p)
      <3>1. PICK o \in Owners : <<p, o>> \in rows
        BY <2>1 DEF HasRow
      <3>2. <<p, o>>[1] = p
        OBVIOUS
      <3> QED BY <1>1, <3>1, <3>2
    <2> QED BY <1>3, <2>1 DEF FilesInv
  <1> QED BY <1>4, <1>5 DEF FilesBacked


\* Requests end, rows go or are written by those whose paths they name, and no object
\* comes or goes.
Neutral(q) == q \in FileTransfers /\ ~WritingFile(q) /\ ~Holding(q)

Ends(y) == transfer'[y] # transfer[y]

RowsChange ==
    \A p \in Paths, o \in Owners :
        <<p, o>> \in rows' \ rows =>
            /\ p \in stored \cup torn' \cup bereft'
            /\ \E y \in Transfers : \/ transfer[y].kind = "row" /\ transfer[y].path = p /\ Ends(y)
                                    \/ transfer[y].kind = "copy" /\ p \in transfer[y].paths

LossesGrow ==
    \A p \in Paths, o \in Owners :
        <<p, o>> \in rows' =>
            /\ p \in torn \cup bereft => p \in torn' \cup bereft'
            /\ \A y \in Transfers : /\ Ends(y) /\ transfer[y].kind = "unlink"
                                    /\ transfer[y].owner = o /\ p \in transfer[y].paths \ stored
                                    => p \in torn' \cup bereft'

LitterGrows ==
    /\ litter \subseteq litter'
    /\ \A p \in stored : HasRow(p) => HasRow(p)' \/ p \in litter'
    /\ \A p \in Paths, y \in Transfers :
         Ends(y) /\ transfer[y].kind = "row" /\ transfer[y].path = p => p \in litter' \/ HasRow(p)'

LEMMA FilesLeft ==
    ASSUME FilesInv, UNCHANGED <<stored, used, face>>,
           DOMAIN transfer' = Transfers, transfer' = [y \in Transfers |-> transfer'[y]],
           \A y \in Transfers : Ends(y) => Neutral(transfer'[y]),
           owners' \subseteq Owners, rows' \subseteq used \X Owners,
           RowsChange, LossesGrow, LitterGrows
    PROVE  FilesInv'
PROOF
  <1>1. FileTypes'
    BY DEF FilesInv, FileTypes, Neutral, Ends
  <1>2. \A y \in Transfers : WritingFile(transfer'[y]) \/ Holding(transfer'[y]) => ~Ends(y)
    BY DEF Neutral
  <1>3. ASSUME NEW x \in Transfers, WritingFile(transfer'[x]) PROVE OwnPath(x)'
    <2>1. transfer'[x] = transfer[x] /\ OwnPath(x) /\ WritingFile(transfer[x])
      BY <1>2, <1>3 DEF FilesInv, Ends
    <2>2. PICK p : p = transfer[x].path
      OBVIOUS
    <2>3. p \in Paths /\ ~HasRow(p)
      BY <2>1, <2>2 DEF FilesInv, OwnPath, FileTypes
    <2>4. \A y \in Transfers : /\ transfer[y].kind = "row" /\ transfer[y].path = p => ~Ends(y)
                               /\ transfer[y].kind = "copy" => p \notin transfer[y].paths
      BY <2>1, <2>2 DEF OwnPath, Ends, WritingFile, Holding
    <2>5. ~HasRow(p)'
      BY <2>3, <2>4 DEF HasRow, RowsChange
    <2> QED BY <1>2, <2>1, <2>2, <2>5 DEF OwnPath, Ends
  <1>4. ASSUME NEW x \in Transfers, Holding(transfer'[x]) PROVE transfer'[x].paths \subseteq used'
    BY <1>2, <1>4 DEF FilesInv, Ends
  <1>5. ASSUME NEW p \in Paths, NEW o \in Owners, <<p, o>> \in rows' PROVE p \in stored \/ HalfGone(p, o)'
    <2>1. CASE <<p, o>> \in rows
      <3>1. CASE p \in torn \cup bereft
        BY <1>5, <3>1 DEF LossesGrow, HalfGone
      <3>2. ASSUME NEW y \in Transfers, transfer[y].kind = "unlink", transfer[y].owner = o,
                   p \in transfer[y].paths
            PROVE  p \in stored \/ HalfGone(p, o)'
        BY <1>5, <3>2 DEF LossesGrow, HalfGone, Ends
      <3> QED BY <2>1, <3>1, <3>2 DEF FilesInv, HalfGone
    <2>2. CASE <<p, o>> \notin rows
      BY <1>5, <2>2 DEF RowsChange, HalfGone
    <2> QED BY <2>1, <2>2
  <1>6. ASSUME NEW p \in stored PROVE HasRow(p)' \/ p \in litter' \/ Awaited(p)'
    <2>1. CASE HasRow(p) \/ p \in litter
      BY <2>1 DEF LitterGrows
    <2>2. CASE Awaited(p)
      <3>0. p \in Paths
        BY DEF FilesInv, FileTypes
      <3>1. PICK y \in Transfers : transfer[y].kind = "row" /\ transfer[y].path = p
        BY <2>2 DEF Awaited
      <3>2. CASE Ends(y)
        BY <3>0, <3>1, <3>2 DEF LitterGrows
      <3>3. CASE ~Ends(y)
        BY <3>1, <3>3 DEF Awaited, Ends
      <3> QED BY <3>2, <3>3
    <2> QED BY <2>1, <2>2 DEF FilesInv
  <1> QED BY <1>1, <1>3, <1>4, <1>5, <1>6 DEF FilesInv

\* One request is over, and everything else as FilesLeft has it.
LEMMA FinishedLeaves ==
    ASSUME FileTypes, NEW x \in Transfers, Finished(x)
    PROVE  /\ DOMAIN transfer' = Transfers /\ transfer' = [y \in Transfers |-> transfer'[y]]
           /\ \A y \in Transfers : Ends(y) => y = x /\ Neutral(transfer'[y])
           /\ transfer'[x] = Ready
PROOF
  BY DEF Finished, FileTypes, Ends, Neutral, FileTransfers, Ready, WritingFile, Holding

\* Rows of one owner go.
LEMMA UnlinkedLeaves ==
    ASSUME NEW o \in Owners, NEW P \in SUBSET Paths, Unlinked(o, P)
    PROVE  /\ rows' \subseteq rows
           /\ \A p \in Paths, q \in Owners : <<p, q>> \in rows' <=> <<p, q>> \in rows /\ ~(p \in P /\ q = o)
           /\ \A p \in P : (\E q \in Owners : <<p, q>> \in rows') \/ p \in OnlyOf(o, P)
           /\ \A p \in OnlyOf(o, P), q \in Owners : <<p, q>> \notin rows'
           /\ OnlyOf(o, P) \subseteq P
PROOF
  <1>1. /\ rows' \subseteq rows
        /\ \A p \in Paths, q \in Owners : <<p, q>> \in rows' <=> <<p, q>> \in rows /\ ~(p \in P /\ q = o)
    BY DEF Unlinked
  <1>2. OnlyOf(o, P) \subseteq P
    BY DEF OnlyOf
  <1>3. ASSUME NEW p \in P, p \notin OnlyOf(o, P) PROVE \E q \in Owners : <<p, q>> \in rows'
    BY <1>1, <1>3 DEF OnlyOf
  <1>4. \A p \in OnlyOf(o, P), q \in Owners : <<p, q>> \notin rows'
    BY <1>1, <1>2 DEF OnlyOf
  <1> QED BY <1>1, <1>2, <1>3, <1>4

LEMMA UnlinkedGrows ==
    ASSUME FileTypes, NEW o \in Owners, NEW P \in SUBSET Paths, Unlinked(o, P),
           \A y \in Transfers : Ends(y) => /\ transfer[y].kind = "unlink" /\ transfer[y].owner = o
                                           /\ \A p \in transfer[y].paths : <<p, o>> \in rows => p \in P
    PROVE  rows' \subseteq used \X Owners /\ RowsChange /\ LossesGrow /\ LitterGrows
PROOF
  <1>1. /\ rows' \subseteq rows
        /\ \A p \in Paths, q \in Owners : <<p, q>> \in rows' <=> <<p, q>> \in rows /\ ~(p \in P /\ q = o)
        /\ \A p \in P : (\E q \in Owners : <<p, q>> \in rows') \/ p \in OnlyOf(o, P)
        /\ \A p \in OnlyOf(o, P), q \in Owners : <<p, q>> \notin rows'
    BY UnlinkedLeaves
  <1>2. /\ torn' = torn \ OnlyOf(o, P) /\ bereft' = bereft \ OnlyOf(o, P)
        /\ litter' = litter \cup (OnlyOf(o, P) \cap stored)
    BY DEF Unlinked
  <1>3. rows' \subseteq used \X Owners /\ RowsChange
    BY <1>1 DEF FileTypes, RowsChange
  <1>4. LossesGrow
    BY <1>1, <1>2 DEF LossesGrow
  <1>5. LitterGrows
    <2>1. ASSUME NEW p \in stored, HasRow(p), ~HasRow(p)' PROVE p \in litter'
      <3>1. p \in Paths
        BY DEF FileTypes
      <3>2. PICK q \in Owners : <<p, q>> \in rows
        BY <2>1 DEF HasRow
      <3>3. p \in P
        BY <1>1, <2>1, <3>1, <3>2 DEF HasRow
      <3> QED BY <1>1, <1>2, <2>1, <3>3 DEF HasRow
    <2>2. \A y \in Transfers : Ends(y) => transfer[y].kind # "row"
      OBVIOUS
    <2> QED BY <1>2, <2>1, <2>2 DEF LitterGrows
  <1> QED BY <1>3, <1>4, <1>5

LEMMA FilesKept == FilesInv /\ FilesNext => FilesInv'
PROOF
  <1> SUFFICES ASSUME FilesInv, FilesNext PROVE FilesInv'
    OBVIOUS
  <1>t. FileTypes
    BY DEF FilesInv
  <1>r. Ready \in FileTransfers /\ ~WritingFile(Ready) /\ ~Holding(Ready) /\ Ready.kind = "ready"
    BY DEF FileTransfers, Ready, WritingFile, Holding
  <1>h. UNCHANGED rows => \A p : HasRow(p)' <=> HasRow(p)
    BY DEF HasRow
  <1>1. ASSUME NEW x \in Transfers, NEW o \in Owners, Upload(x, o) PROVE FilesInv'
    <2>1. PICK p, r : p = NewPath /\ r = [kind |-> "upload", path |-> p, owner |-> o]
      OBVIOUS
    <2>2. p \in Paths /\ p \notin used
      BY <1>1, <1>t, <2>1 DEF Upload, Unused, NewPath, FileTypes
    <2>4. /\ transfer[x] = Ready /\ transfer' = [transfer EXCEPT ![x] = r]
          /\ used' = used \cup {p}
          /\ UNCHANGED <<owners, rows, stored, face, torn, bereft, litter>>
      BY <1>1, <2>1 DEF Upload, Begin
    <2>5. r \in FileTransfers /\ WritingFile(r) /\ ~Holding(r) /\ r.path = p /\ r.kind = "upload"
      BY <2>1, <2>2 DEF FileTransfers, WritingFile, Holding
    <2>6. \A y \in Transfers : transfer'[y] = IF y = x THEN r ELSE transfer[y]
      BY <2>4, <1>t DEF FileTypes
    <2>7. FileTypes'
      BY <2>2, <2>4, <2>5, <1>t DEF FileTypes
    <2>8. ~HasRow(p)' /\ p \notin stored
      BY <2>2, <2>4, <1>t DEF FileTypes, HasRow
    <2>9. ASSUME NEW y \in Transfers, WritingFile(transfer'[y]) PROVE OwnPath(y)'
      <3>1. CASE y = x
        BY <2>2, <2>4, <2>5, <2>6, <2>8, <3>1 DEF OwnPath, FilesInv
      <3>2. CASE y # x
        <4>1. OwnPath(y) /\ transfer'[y] = transfer[y]
          BY <2>6, <2>9, <3>2 DEF FilesInv
        <4> QED BY <1>h, <2>2, <2>4, <2>5, <2>6, <4>1 DEF OwnPath
      <3> QED BY <3>1, <3>2
    <2>10. \A y \in Transfers : Holding(transfer'[y]) => transfer'[y].paths \subseteq used'
      BY <2>4, <2>5, <2>6 DEF FilesInv
    <2>11. \A q, u : HalfGone(q, u) => HalfGone(q, u)'
      BY <2>4, <2>6, <1>r DEF HalfGone
    <2>12. \A q : Awaited(q) => Awaited(q)'
      BY <2>4, <2>6, <1>r DEF Awaited
    <2> QED BY <1>h, <2>4, <2>7, <2>9, <2>10, <2>11, <2>12 DEF FilesInv
  \* A removal or a copy takes paths that have rows.
  <1>2. ASSUME NEW x \in Transfers, NEW r, Begin(x, r), r \in FileTransfers, r.kind \in {"remove", "copy"},
               \A p \in r.paths : p \in used /\ HasRow(p),
               UNCHANGED <<used, owners, rows, stored, face, torn, bereft, litter>>
        PROVE  FilesInv'
    <2>4. transfer[x] = Ready /\ transfer' = [transfer EXCEPT ![x] = r]
      BY <1>2 DEF Begin
    <2>5. ~WritingFile(r) /\ Holding(r)
      BY <1>2 DEF WritingFile, Holding
    <2>6. \A y \in Transfers : transfer'[y] = IF y = x THEN r ELSE transfer[y]
      BY <2>4, <1>t DEF FileTypes
    <2>7. FileTypes'
      BY <1>2, <2>4, <1>t DEF FileTypes
    <2>9. ASSUME NEW y \in Transfers, WritingFile(transfer'[y]) PROVE OwnPath(y)'
      <3>2. y # x /\ OwnPath(y) /\ transfer'[y] = transfer[y]
        BY <2>5, <2>6, <2>9 DEF FilesInv
      <3>3. transfer[y].path \notin r.paths
        BY <1>2, <3>2 DEF OwnPath
      <3> QED BY <1>2, <1>h, <2>5, <2>6, <3>2, <3>3 DEF OwnPath
    <2>10. \A y \in Transfers : Holding(transfer'[y]) => transfer'[y].paths \subseteq used'
      BY <1>2, <2>6 DEF FilesInv
    <2>11. \A q, u : HalfGone(q, u) => HalfGone(q, u)'
      BY <1>2, <2>4, <2>6, <1>r DEF HalfGone
    <2>12. \A q : Awaited(q) => Awaited(q)'
      BY <2>4, <2>6, <1>r DEF Awaited
    <2> QED BY <1>2, <1>h, <2>7, <2>9, <2>10, <2>11, <2>12 DEF FilesInv
  <1>f. ASSUME NEW o \in Owners, NEW p \in FilesOf(o) PROVE p \in used /\ p \in Paths /\ HasRow(p)
    BY <1>t DEF FilesOf, FileTypes, HasRow
  <1>3. ASSUME NEW x \in Transfers, NEW o \in Owners, NEW P \in SUBSET Paths, BeginDelete(x, o, P)
        PROVE FilesInv'
    <2>1. PICK b \in BOOLEAN : Begin(x, [kind |-> "remove", paths |-> P, owner |-> o, whole |-> b])
      BY <1>3 DEF BeginDelete
    <2>2. PICK r : r = [kind |-> "remove", paths |-> P, owner |-> o, whole |-> b]
      OBVIOUS
    <2>3. r \in FileTransfers /\ r.kind = "remove" /\ r.paths = P
      BY <2>2 DEF FileTransfers
    <2>4. P \subseteq FilesOf(o) /\ UNCHANGED <<used, owners, rows, stored, face, torn, bereft, litter>>
      BY <1>3 DEF BeginDelete
    <2> QED BY <1>2, <1>f, <2>1, <2>2, <2>3, <2>4
  <1>4. ASSUME NEW x \in Transfers, NEW o \in Owners, BeginCopy(x, o) PROVE FilesInv'
    <2>1. PICK r : r = [kind |-> "copy", paths |-> FilesOf(o)]
      OBVIOUS
    <2>2. r \in FileTransfers /\ r.kind = "copy" /\ r.paths = FilesOf(o)
      BY <1>f, <2>1 DEF FileTransfers
    <2>3. Begin(x, r) /\ UNCHANGED <<used, owners, rows, stored, face, torn, bereft, litter>>
      BY <1>4, <2>1 DEF BeginCopy
    <2> QED BY <1>2, <1>f, <2>2, <2>3
  \* A request ends, or one begins that neither writes nor removes, and rows stay.
  <1>5. ASSUME NEW x \in Transfers, NEW r, transfer' = [transfer EXCEPT ![x] = r], Neutral(r),
               UNCHANGED <<used, owners, rows, stored, face>>,
               torn \subseteq torn', bereft \subseteq bereft', litter \subseteq litter',
               transfer[x].kind = "row" => transfer[x].path \in litter',
               transfer[x].kind = "unlink" => {p \in transfer[x].paths \ stored : HasRow(p)} \subseteq torn'
        PROVE  FilesInv'
    <2>1. \A y \in Transfers : transfer'[y] = IF y = x THEN r ELSE transfer[y]
      BY <1>5, <1>t DEF FileTypes
    <2>2. \A y \in Transfers : Ends(y) => y = x /\ Neutral(transfer'[y])
      BY <1>5, <2>1 DEF Ends
    <2>3. RowsChange /\ LitterGrows
      BY <1>5, <1>h, <2>2 DEF RowsChange, LitterGrows
    <2>4. LossesGrow
      BY <1>5, <2>2 DEF LossesGrow, HasRow
    <2>5. DOMAIN transfer' = Transfers /\ transfer' = [y \in Transfers |-> transfer'[y]]
      BY <1>5, <1>t DEF FileTypes
    <2> QED BY <1>5, <1>t, <2>2, <2>3, <2>4, <2>5, FilesLeft DEF FileTypes
  <1>n. Neutral(Ready)
    BY <1>r DEF Neutral
  <1>6. ASSUME NEW x \in Transfers, NEW p \in Paths, ReadText(x, p) PROVE FilesInv'
    <2>1. PICK r : r = [kind |-> "read", path |-> p]
      OBVIOUS
    <2>2. Neutral(r)
      BY <2>1 DEF Neutral, FileTransfers, WritingFile, Holding
    <2>3. /\ transfer' = [transfer EXCEPT ![x] = r] /\ transfer[x] = Ready
          /\ UNCHANGED <<used, owners, rows, stored, face, torn, bereft, litter>>
      BY <1>6, <2>1 DEF ReadText, Begin
    <2> QED BY <1>5, <1>r, <2>2, <2>3
  <1>7. ASSUME NEW x \in Transfers, NEW b \in BOOLEAN, Uploaded(x, b) PROVE FilesInv'
    <2>1. CASE ~b
      BY <1>5, <1>7, <1>n, <2>1 DEF Uploaded, Finished
    <2>2. CASE b
      <3>0. PICK p, r : p = transfer[x].path /\ r = [transfer[x] EXCEPT !.kind = "row"]
        OBVIOUS
      <3>1. /\ transfer' = [transfer EXCEPT ![x] = r] /\ stored' = stored \cup {p}
            /\ transfer[x].kind = "upload"
            /\ UNCHANGED <<used, owners, rows, face, torn, bereft, litter>>
        BY <1>7, <2>2, <3>0, <1>t DEF Uploaded, FileTypes
      <3>2. transfer[x] \in [kind : {"upload", "row"}, path : Paths, owner : Owners]
        BY <3>1, <1>t DEF FileTypes, FileTransfers, Ready
      <3>3. /\ r \in FileTransfers /\ r.kind = "row" /\ r.path = p
            /\ WritingFile(r) /\ ~Holding(r) /\ WritingFile(transfer[x]) /\ p \in Paths
        BY <3>0, <3>1, <3>2 DEF FileTransfers, WritingFile, Holding
      <3>4. OwnPath(x)
        BY <3>3 DEF FilesInv
      <3>6. \A y \in Transfers : transfer'[y] = IF y = x THEN r ELSE transfer[y]
        BY <3>1, <1>t DEF FileTypes
      <3>7. FileTypes'
        BY <3>0, <3>1, <3>3, <3>4, <1>t DEF FileTypes, OwnPath
      <3>9. ASSUME NEW y \in Transfers, WritingFile(transfer'[y]) PROVE OwnPath(y)'
        <4>1. CASE y = x
          <5>1. transfer'[x].path = p /\ transfer'[x].kind = "row" /\ p \in stored'
            BY <3>1, <3>3, <3>6
          <5>2. p \in used /\ ~HasRow(p)'
            BY <1>h, <3>0, <3>1, <3>4 DEF OwnPath
          <5>3. ASSUME NEW z \in Transfers
                PROVE  /\ WritingFile(transfer'[z]) /\ transfer'[z].path = p => z = x
                       /\ Holding(transfer'[z]) => p \notin transfer'[z].paths
            BY <3>0, <3>3, <3>4, <3>6 DEF OwnPath
          <5> QED BY <3>1, <4>1, <5>1, <5>2, <5>3 DEF OwnPath
        <4>2. CASE y # x
          <5>1. OwnPath(y) /\ transfer'[y] = transfer[y] /\ WritingFile(transfer[y])
            BY <3>6, <3>9, <4>2 DEF FilesInv
          <5>2. transfer[y].path # p
            BY <3>0, <3>4, <4>2, <5>1 DEF OwnPath
          <5> QED BY <1>h, <3>1, <3>3, <3>6, <5>1, <5>2 DEF OwnPath
        <4> QED BY <4>1, <4>2
      <3>10. \A y \in Transfers : Holding(transfer'[y]) => transfer'[y].paths \subseteq used'
        BY <3>1, <3>3, <3>6 DEF FilesInv
      <3>11. \A q, u : HalfGone(q, u) => HalfGone(q, u)'
        BY <3>1, <3>6 DEF HalfGone
      <3>12. \A q : (Awaited(q) => Awaited(q)') /\ (q = p => Awaited(q)')
        BY <3>1, <3>3, <3>6 DEF Awaited
      <3> QED BY <1>h, <3>1, <3>7, <3>9, <3>10, <3>11, <3>12 DEF FilesInv
    <2> QED BY <2>1, <2>2
  <1>8. ASSUME NEW x \in Transfers, NEW b \in BOOLEAN, WriteRow(x, b) PROVE FilesInv'
    <2>0. PICK p, o : p = transfer[x].path /\ o = transfer[x].owner
      OBVIOUS
    <2>1. /\ Finished(x) /\ transfer[x].kind = "row"
          /\ UNCHANGED <<used, owners, stored, face, torn, bereft>>
      BY <1>8 DEF WriteRow
    <2>2. OwnPath(x) /\ p \in Paths /\ p \in used /\ p \in stored
      BY <1>t, <2>0, <2>1 DEF FilesInv, WritingFile, OwnPath, FileTypes
    <2>3. CASE o \in owners
      <3>1. rows' = rows \cup {<<p, o>>} /\ UNCHANGED litter /\ o \in Owners
        BY <1>8, <1>t, <2>0, <2>3 DEF WriteRow, FileTypes
      <3>2. (\A y \in Transfers : Ends(y) => y = x) /\ Ends(x)
        BY <1>r, <1>t, <2>1, FinishedLeaves DEF Ends
      <3>3. RowsChange
        BY <2>0, <2>1, <2>2, <3>1, <3>2 DEF RowsChange
      <3>4. LossesGrow
        BY <2>1, <3>2 DEF LossesGrow
      <3>5. LitterGrows
        <4>1. \A q : HasRow(q) => HasRow(q)'
          BY <3>1 DEF HasRow
        <4>2. HasRow(p)'
          BY <3>1 DEF HasRow
        <4> QED BY <2>0, <3>1, <3>2, <4>1, <4>2 DEF LitterGrows
      <3>6. rows' \subseteq used \X Owners
        BY <1>t, <2>2, <3>1 DEF FileTypes
      <3> QED BY <1>t, <2>1, <3>3, <3>4, <3>5, <3>6, FinishedLeaves, FilesLeft DEF FileTypes
    <2>4. CASE o \notin owners
      <3>1. litter' = litter \cup {p} /\ UNCHANGED rows
        BY <1>8, <2>0, <2>4 DEF WriteRow
      <3> QED BY <1>5, <1>n, <2>0, <2>1, <3>1 DEF Finished
    <2> QED BY <2>3, <2>4
  <1>9. ASSUME NEW x \in Transfers, NEW b \in BOOLEAN, RemoveObjects(x, b) PROVE FilesInv'
    <2>0. PICK P, u, r : /\ P = transfer[x].paths /\ u = transfer[x].owner
                         /\ r = [transfer[x] EXCEPT !.kind = "unlink"]
      OBVIOUS
    <2>1. /\ transfer' = [transfer EXCEPT ![x] = r] /\ transfer[x].kind = "remove"
          /\ UNCHANGED <<used, owners, rows, face, torn>>
          /\ \/ /\ stored' = stored \ P /\ litter' = litter \ P
                /\ bereft' = bereft \cup (P \ OnlyOf(u, P))
             \/ UNCHANGED <<stored, bereft, litter>>
      BY <1>9, <2>0, <1>t DEF RemoveObjects, FileTypes
    <2>2. transfer[x] \in [kind : {"remove", "unlink"}, paths : SUBSET Paths, owner : Owners, whole : BOOLEAN]
      BY <2>1, <1>t DEF FileTypes, FileTransfers, Ready
    <2>3. /\ r \in FileTransfers /\ r.kind = "unlink" /\ r.paths = P /\ r.owner = u
          /\ ~WritingFile(r) /\ Holding(r) /\ Holding(transfer[x]) /\ P \subseteq used
      BY <2>0, <2>1, <2>2 DEF FileTransfers, WritingFile, Holding, FilesInv
    <2>6. \A y \in Transfers : transfer'[y] = IF y = x THEN r ELSE transfer[y]
      BY <2>1, <1>t DEF FileTypes
    <2>7. FileTypes'
      BY <2>1, <2>3, <1>t DEF FileTypes
    <2>9. ASSUME NEW y \in Transfers, WritingFile(transfer'[y]) PROVE OwnPath(y)'
      <3>2. y # x /\ OwnPath(y) /\ transfer'[y] = transfer[y]
        BY <2>3, <2>6, <2>9 DEF FilesInv
      <3>3. transfer[y].path \notin P
        BY <2>0, <2>3, <3>2 DEF OwnPath
      <3>4. transfer[y].path \in stored' <=> transfer[y].path \in stored
        BY <2>1, <3>3
      <3> QED BY <1>h, <2>1, <2>3, <2>6, <3>2, <3>3, <3>4 DEF OwnPath
    <2>10. \A y \in Transfers : Holding(transfer'[y]) => transfer'[y].paths \subseteq used'
      BY <2>1, <2>3, <2>6 DEF FilesInv
    <2>11. ASSUME NEW q \in Paths, NEW o \in Owners, <<q, o>> \in rows' PROVE q \in stored' \/ HalfGone(q, o)'
      <3>1. HalfGone(q, o) => HalfGone(q, o)'
        BY <2>1, <2>6 DEF HalfGone
      <3>2. CASE q \in P /\ o = u
        BY <2>1, <2>3, <2>6, <3>2 DEF HalfGone
      <3>3. CASE q \in P /\ o # u
        <4>1. q \notin OnlyOf(u, P)
          BY <2>1, <2>11, <3>3 DEF OnlyOf
        <4> QED BY <2>1, <2>11, <3>1, <3>3, <4>1 DEF FilesInv, HalfGone
      <3>4. CASE q \notin P
        BY <2>1, <2>11, <3>1, <3>4 DEF FilesInv
      <3> QED BY <3>2, <3>3, <3>4
    <2>12. \A q \in stored' : HasRow(q)' \/ q \in litter' \/ Awaited(q)'
      BY <1>h, <2>1, <2>6 DEF FilesInv, Awaited
    <2> QED BY <2>7, <2>9, <2>10, <2>11, <2>12 DEF FilesInv
  <1>10. ASSUME NEW x \in Transfers, NEW b \in BOOLEAN, TextRead(x, b) PROVE FilesInv'
    BY <1>5, <1>10, <1>n DEF TextRead, Finished
  <1>11. ASSUME NEW x \in Transfers, DeleteRow(x) PROVE FilesInv'
    <2>1. PICK u, P : /\ u = transfer[x].owner /\ Unlinked(u, P) /\ P \subseteq FilesOf(u)
                      /\ transfer[x].paths \cap FilesOf(u) \subseteq P
                      /\ Finished(x) /\ transfer[x].kind = "unlink"
                      /\ owners' \subseteq owners /\ UNCHANGED <<used, stored, face>>
      BY <1>11 DEF DeleteRow
    <2>2. transfer[x] \in [kind : {"remove", "unlink"}, paths : SUBSET Paths, owner : Owners, whole : BOOLEAN]
      BY <2>1, <1>t DEF FileTypes, FileTransfers, Ready
    <2>3. P \in SUBSET Paths /\ u \in Owners
      BY <2>1, <2>2 DEF FilesOf
    <2>4. \A p \in transfer[x].paths : <<p, u>> \in rows => p \in P
      BY <2>1, <2>2 DEF FilesOf
    <2>5. \A y \in Transfers : Ends(y) => y = x
      BY <1>t, <2>1, FinishedLeaves
    <2>6. rows' \subseteq used \X Owners /\ RowsChange /\ LossesGrow /\ LitterGrows
      BY <1>t, <2>1, <2>3, <2>4, <2>5, UnlinkedGrows
    <2> QED BY <1>t, <2>1, <2>6, FinishedLeaves, FilesLeft DEF FileTypes
  <1>12. ASSUME NEW x \in Transfers, Stop(x) PROVE FilesInv'
    <2>1. /\ Finished(x) /\ torn \subseteq torn' /\ litter \subseteq litter'
          /\ transfer[x].kind = "unlink" => {p \in transfer[x].paths \ stored : HasRow(p)} \subseteq torn'
          /\ transfer[x].kind = "row" => transfer[x].path \in litter'
          /\ UNCHANGED <<used, owners, rows, stored, face, bereft>>
      BY <1>12 DEF Stop
    <2> QED BY <1>5, <1>n, <2>1 DEF Finished
  <1>13. ASSUME NEW o \in Owners, DeleteOwner(o) PROVE FilesInv'
    <2>1. PICK P : P = FilesOf(o)
      OBVIOUS
    <2>2. /\ Unlinked(o, P) /\ P \in SUBSET Paths /\ owners' \subseteq owners
          /\ UNCHANGED <<used, stored, face, transfer>>
      BY <1>13, <2>1 DEF DeleteOwner, FilesOf
    <2>3. \A y \in Transfers : ~Ends(y)
      BY <2>2 DEF Ends
    <2>4. rows' \subseteq used \X Owners /\ RowsChange /\ LossesGrow /\ LitterGrows
      BY <1>t, <2>2, <2>3, UnlinkedGrows
    <2>5. DOMAIN transfer' = Transfers /\ transfer' = [y \in Transfers |-> transfer'[y]]
      BY <1>t, <2>2 DEF FileTypes
    <2> QED BY <1>t, <2>2, <2>3, <2>4, <2>5, FilesLeft DEF FileTypes
  <1>14. ASSUME NEW x \in Transfers, NEW o \in Owners, WriteCopy(x, o) PROVE FilesInv'
    <2>0. PICK P : P = transfer[x].paths
      OBVIOUS
    <2>1. /\ Finished(x) /\ transfer[x].kind = "copy"
          /\ owners' = owners \cup {o} /\ rows' = rows \cup (P \X {o})
          /\ bereft' = bereft \cup (P \ stored)
          /\ UNCHANGED <<used, stored, face, torn, litter>>
      BY <1>14, <2>0 DEF WriteCopy
    <2>2. P \subseteq used
      BY <2>0, <2>1 DEF FilesInv, Holding
    <2>3. \A y \in Transfers : Ends(y) => y = x
      BY <1>t, <2>1, FinishedLeaves
    <2>4. rows' \subseteq used \X Owners /\ owners' \subseteq Owners
      BY <1>t, <2>1, <2>2 DEF FileTypes
    <2>5. RowsChange
      BY <2>0, <2>1 DEF RowsChange
    <2>6. LossesGrow
      BY <2>1, <2>3 DEF LossesGrow
    <2>7. LitterGrows
      BY <2>1, <2>3 DEF LitterGrows, HasRow
    <2> QED BY <1>t, <2>1, <2>4, <2>5, <2>6, <2>7, FinishedLeaves, FilesLeft
  <1>15. ASSUME UNCHANGED <<used, owners, rows, stored, face, transfer, torn, bereft, litter>> PROVE FilesInv'
    BY <1>15 DEF FilesInv, FileTypes, OwnPath, HasRow, HalfGone, Awaited
  <1> QED BY <1>1, <1>3, <1>4, <1>6, <1>7, <1>8, <1>9, <1>10, <1>11, <1>12, <1>13, <1>14, <1>15
       DEF FilesNext, SendMail, RetryAllowed

\* Requests that are writing a file of an owner.
Writers(o) == {x \in Transfers : WritingFile(transfer[x]) /\ transfer[x].owner = o}

\* A file is begun below the limit, so the last of those at once is one over it at most.
Fits(o) ==
    /\ IsFiniteSet(FilesOf(o))
    /\ Cardinality(FilesOf(o)) + Cardinality(Writers(o)) < MaxFiles + Cardinality(Transfers)

\* Rows go with their owner, texts with their row.  A copy has the files the original had
\* when it was read, and nobody writes one for it before it is there.
RowsInv ==
    /\ sent \subseteq Owners /\ owners \subseteq born /\ born \subseteq Owners
    /\ rows \subseteq Paths \X owners
    /\ texts \subseteq Paths /\ \A p \in texts : HasRow(p)
    /\ resting \cup torn \cup bereft \cup litter \subseteq used
    /\ \A x \in Transfers :
        /\ transfer[x].kind = "read" => transfer[x].path \in used
        /\ WritingFile(transfer[x]) => transfer[x].owner \in born
        /\ transfer[x].kind = "copy" =>
            /\ IsFiniteSet(transfer[x].paths)
            /\ Cardinality(transfer[x].paths) < MaxFiles + Cardinality(Transfers)
    /\ \A o \in Owners : Fits(o)

LEMMA WritersAre ==
    /\ Cardinality(Transfers) \in Nat
    /\ \A W \in SUBSET Transfers : /\ IsFiniteSet(W) /\ Cardinality(W) \in Nat
                                   /\ Cardinality(W) <= Cardinality(Transfers)
PROOF
  BY FilesAssumption, FS_Subset, FS_CardinalityType DEF FilesAssumption

LEMMA RowsBegin == FilesInit => RowsInv
PROOF
  <1> SUFFICES ASSUME FilesInit PROVE RowsInv
    OBVIOUS
  <1>1. \A x \in Transfers : transfer[x] = Ready
    BY DEF FilesInit
  <1>2. ASSUME NEW o \in Owners PROVE Fits(o)
    <2>1. FilesOf(o) = {}
      BY DEF FilesInit, FilesOf
    <2>2. Writers(o) = {}
      BY <1>1 DEF Writers, WritingFile, Ready
    <2>3. IsFiniteSet({}) /\ Cardinality({}) = 0
      BY FS_EmptySet
    <2>4. MaxFiles \in Nat \ {0} /\ Cardinality(Transfers) \in Nat
      BY FilesAssumption, WritersAre DEF FilesAssumption
    <2>5. 0 + 0 < MaxFiles + Cardinality(Transfers)
      BY <2>4
    <2> QED BY <2>1, <2>2, <2>3, <2>5 DEF Fits
  <1> QED BY <1>1, <1>2 DEF RowsInv, FilesInit, Ready, WritingFile

LEMMA FilesTyped == FilesInv /\ RowsInv => FilesTypeOK
PROOF
  <1> SUFFICES ASSUME FilesInv, RowsInv PROVE FilesTypeOK
    OBVIOUS
  <1>1. ASSUME NEW o \in Owners PROVE Cardinality(FilesOf(o)) <= MaxFiles + Cardinality(Transfers) - 1
    <2>1. Fits(o)
      BY DEF RowsInv
    <2>2. Cardinality(FilesOf(o)) \in Nat
      BY <2>1, FS_CardinalityType DEF Fits
    <2>3. Cardinality(Writers(o)) \in Nat /\ Cardinality(Transfers) \in Nat
      BY WritersAre DEF Writers
    <2>4. MaxFiles \in Nat
      BY FilesAssumption DEF FilesAssumption
    <2> QED BY <2>1, <2>2, <2>3, <2>4 DEF Fits
  <1>2. \A x \in Transfers : transfer[x] \in TransferTypes
    BY DEF FilesInv, FileTypes, FileTransfers, TransferTypes
  <1>3. texts \subseteq {p \in Paths : HasRow(p)}
    BY DEF RowsInv
  <1>4. rows \subseteq used \X owners
    BY DEF RowsInv, FilesInv, FileTypes
  <1> QED BY <1>1, <1>2, <1>3, <1>4 DEF FilesTypeOK, FilesInv, FileTypes, RowsInv

LEMMA FitsStill ==
    ASSUME NEW o, Fits(o), FilesOf(o)' \subseteq FilesOf(o), Writers(o)' \subseteq Writers(o)
    PROVE  Fits(o)'
PROOF
  <1>1. IsFiniteSet(FilesOf(o)) /\ IsFiniteSet(Writers(o))
    BY WritersAre DEF Fits, Writers
  <1>2. /\ IsFiniteSet(FilesOf(o)')
        /\ Cardinality(FilesOf(o)') \in Nat /\ Cardinality(FilesOf(o)) \in Nat
        /\ Cardinality(FilesOf(o)') <= Cardinality(FilesOf(o))
    BY <1>1, FS_Subset, FS_CardinalityType
  <1>3. /\ Cardinality(Writers(o)') \in Nat /\ Cardinality(Writers(o)) \in Nat
        /\ Cardinality(Writers(o)') <= Cardinality(Writers(o))
    BY <1>1, FS_Subset, FS_CardinalityType
  <1>4. MaxFiles \in Nat /\ Cardinality(Transfers) \in Nat
    BY FilesAssumption, WritersAre DEF FilesAssumption
  <1>5. Cardinality(FilesOf(o)') + Cardinality(Writers(o)') < MaxFiles + Cardinality(Transfers)
    BY <1>2, <1>3, <1>4 DEF Fits
  <1> QED BY <1>2, <1>5 DEF Fits

\* One request goes on, and writes no file it was not writing.
LEMMA WritersAfter ==
    ASSUME FileTypes, NEW x \in Transfers, NEW r, transfer' = [transfer EXCEPT ![x] = r],
           WritingFile(r) => WritingFile(transfer[x]) /\ r.owner = transfer[x].owner
    PROVE  /\ \A o : Writers(o)' \subseteq Writers(o)
           /\ \A y \in Transfers : transfer'[y] = IF y = x THEN r ELSE transfer[y]
PROOF
  <1>1. \A y \in Transfers : transfer'[y] = IF y = x THEN r ELSE transfer[y]
    BY DEF FileTypes
  <1> QED BY <1>1 DEF Writers

\* Rows may go, none comes.
LEMMA RowsStay ==
    ASSUME FilesInv, RowsInv, NEW o \in Owners, NEW P \in SUBSET Paths, Unlinked(o, P),
           owners' \subseteq owners, owners \ {o} \subseteq owners',
           o \notin owners' => FilesOf(o) \subseteq P
    PROVE  /\ rows' \subseteq Paths \X owners'
           /\ texts' \subseteq Paths /\ \A p \in texts' : HasRow(p)'
           /\ \A q \in Owners : FilesOf(q)' \subseteq FilesOf(q)
           /\ torn' \cup bereft' \cup litter' \subseteq used
PROOF
  <1>1. /\ rows' \subseteq rows
        /\ \A p \in Paths, q \in Owners : <<p, q>> \in rows' <=> <<p, q>> \in rows /\ ~(p \in P /\ q = o)
        /\ OnlyOf(o, P) \subseteq P
    BY UnlinkedLeaves
  <1>2. rows' \subseteq Paths \X owners'
    <2> SUFFICES ASSUME NEW n \in rows' PROVE n \in Paths \X owners'
      OBVIOUS
    <2>1. PICK p \in Paths, q \in owners : n = <<p, q>> /\ <<p, q>> \in rows
      BY <1>1 DEF RowsInv
    <2>2. q \in Owners
      BY DEF FilesInv, FileTypes
    <2> QED BY <1>1, <2>1, <2>2 DEF FilesOf
  <1>3. texts' \subseteq Paths /\ \A p \in texts' : HasRow(p)'
    BY <1>1 DEF Unlinked, RowsInv, HasRow
  <1>4. \A q \in Owners : FilesOf(q)' \subseteq FilesOf(q)
    BY <1>1 DEF FilesOf
  <1>5. torn' \cup bereft' \cup litter' \subseteq used
    BY DEF Unlinked, RowsInv, FilesInv, FileTypes
  <1> QED BY <1>2, <1>3, <1>4, <1>5

LEMMA RowsKept == FilesInv /\ RowsInv /\ FilesNext => RowsInv'
PROOF
  <1> SUFFICES ASSUME FilesInv, RowsInv, FilesNext PROVE RowsInv'
    OBVIOUS
  <1>t. FileTypes
    BY DEF FilesInv
  <1>r. Ready.kind = "ready" /\ ~WritingFile(Ready)
    BY DEF Ready, WritingFile
  <1>f. UNCHANGED rows => (\A o : FilesOf(o)' = FilesOf(o)) /\ \A p : HasRow(p)' <=> HasRow(p)
    BY DEF FilesOf, HasRow
  <1>s. stored \subseteq used /\ \A p \in Paths : HasRow(p) => p \in used
    BY <1>t DEF FileTypes, HasRow
  <1>e. ASSUME NEW x \in Transfers, Finished(x)
        PROVE  /\ \A o : Writers(o)' \subseteq Writers(o)
               /\ \A y \in Transfers : transfer'[y] = IF y = x THEN Ready ELSE transfer[y]
    BY <1>e, <1>t, <1>r, WritersAfter DEF Finished
  \* A request goes on to r, and the rows stay.
  <1>g. ASSUME NEW x \in Transfers, NEW r, transfer' = [transfer EXCEPT ![x] = r],
               WritingFile(r) => WritingFile(transfer[x]) /\ r.owner = transfer[x].owner,
               r.kind = "read" => r.path \in used,
               r.kind = "copy" => IsFiniteSet(r.paths) /\ Cardinality(r.paths) < MaxFiles + Cardinality(Transfers),
               UNCHANGED <<owners, born, sent, rows, used>>,
               texts' \subseteq Paths, \A p \in texts' : HasRow(p),
               resting' \cup torn' \cup bereft' \cup litter' \subseteq used
        PROVE  RowsInv'
    <2>1. /\ \A o : Writers(o)' \subseteq Writers(o)
          /\ \A y \in Transfers : transfer'[y] = IF y = x THEN r ELSE transfer[y]
      BY <1>g, <1>t, WritersAfter
    <2>2. \A o \in Owners : Fits(o)'
      BY <1>f, <1>g, <2>1, FitsStill DEF RowsInv
    <2>3. ASSUME NEW y \in Transfers
          PROVE /\ transfer'[y].kind = "read" => transfer'[y].path \in used'
                /\ WritingFile(transfer'[y]) => transfer'[y].owner \in born'
                /\ transfer'[y].kind = "copy" =>
                    /\ IsFiniteSet(transfer'[y].paths)
                    /\ Cardinality(transfer'[y].paths) < MaxFiles + Cardinality(Transfers)
      BY <1>g, <2>1 DEF RowsInv
    <2>4. \A p \in texts' : HasRow(p)'
      BY <1>f, <1>g
    <2> QED BY <1>g, <2>2, <2>3, <2>4 DEF RowsInv
  \* A request is over, and none of the rest writes for what was not there.
  <1>d. ASSUME NEW x \in Transfers, Finished(x), UNCHANGED used, born \subseteq born'
        PROVE  \A y \in Transfers :
                 /\ transfer'[y].kind = "read" => transfer'[y].path \in used'
                 /\ WritingFile(transfer'[y]) => transfer'[y].owner \in born'
                 /\ transfer'[y].kind = "copy" =>
                     /\ IsFiniteSet(transfer'[y].paths)
                     /\ Cardinality(transfer'[y].paths) < MaxFiles + Cardinality(Transfers)
    BY <1>d, <1>e, <1>r DEF RowsInv
  <1>1. ASSUME NEW x \in Transfers, NEW o \in Owners, Upload(x, o) PROVE RowsInv'
    <2>1. PICK r : r = [kind |-> "upload", path |-> NewPath, owner |-> o]
      OBVIOUS
    <2>2. /\ transfer[x] = Ready /\ transfer' = [transfer EXCEPT ![x] = r]
          /\ r.kind = "upload" /\ r.owner = o /\ used \subseteq used' /\ o \in owners
          /\ Cardinality(FilesOf(o)) < MaxFiles
          /\ UNCHANGED <<owners, born, sent, rows, texts, resting, torn, bereft, litter>>
      BY <1>1, <2>1 DEF Upload, Begin, Open
    <2>3. \A y \in Transfers : transfer'[y] = IF y = x THEN r ELSE transfer[y]
      BY <1>t, <2>2 DEF FileTypes
    <2>4. ASSUME NEW q \in Owners, q # o PROVE Fits(q)'
      <3>1. Writers(q)' \subseteq Writers(q)
        BY <2>2, <2>3, <2>4 DEF Writers
      <3> QED BY <1>f, <2>2, <3>1, FitsStill DEF RowsInv
    <2>5. Fits(o)'
      <3>1. Cardinality(Writers(o)') <= Cardinality(Transfers) /\ Cardinality(Writers(o)') \in Nat
        BY WritersAre DEF Writers
      <3>2. Cardinality(Transfers) \in Nat /\ MaxFiles \in Nat
        BY WritersAre, FilesAssumption DEF FilesAssumption
      <3>3. IsFiniteSet(FilesOf(o)) /\ Cardinality(FilesOf(o)) \in Nat
        BY FS_CardinalityType DEF RowsInv, Fits
      <3>4. Cardinality(FilesOf(o)) + Cardinality(Writers(o)') < MaxFiles + Cardinality(Transfers)
        BY <2>2, <3>1, <3>2, <3>3
      <3>5. FilesOf(o)' = FilesOf(o)
        BY <1>f, <2>2
      <3> QED BY <3>3, <3>4, <3>5 DEF Fits
    <2>6. ASSUME NEW y \in Transfers
          PROVE /\ transfer'[y].kind = "read" => transfer'[y].path \in used'
                /\ WritingFile(transfer'[y]) => transfer'[y].owner \in born'
                /\ transfer'[y].kind = "copy" =>
                    /\ IsFiniteSet(transfer'[y].paths)
                    /\ Cardinality(transfer'[y].paths) < MaxFiles + Cardinality(Transfers)
      BY <2>2, <2>3 DEF RowsInv
    <2>7. \A p \in texts' : HasRow(p)'
      BY <1>f, <2>2 DEF RowsInv
    <2> QED BY <2>2, <2>4, <2>5, <2>6, <2>7 DEF RowsInv
  <1>2. ASSUME NEW x \in Transfers, NEW o \in Owners, NEW P \in SUBSET Paths, BeginDelete(x, o, P)
        PROVE RowsInv'
    <2>1. PICK b \in BOOLEAN : Begin(x, [kind |-> "remove", paths |-> P, owner |-> o, whole |-> b])
      BY <1>2 DEF BeginDelete
    <2>2. PICK r : r = [kind |-> "remove", paths |-> P, owner |-> o, whole |-> b]
      OBVIOUS
    <2>3. /\ transfer' = [transfer EXCEPT ![x] = r] /\ ~WritingFile(r) /\ r.kind = "remove"
          /\ UNCHANGED <<owners, born, sent, rows, used, texts, resting, torn, bereft, litter>>
      BY <1>2, <2>1, <2>2 DEF BeginDelete, Begin, WritingFile
    <2> QED BY <1>g, <2>3 DEF RowsInv
  <1>3. ASSUME NEW x \in Transfers, NEW p \in Paths, ReadText(x, p) PROVE RowsInv'
    <2>1. PICK r : r = [kind |-> "read", path |-> p]
      OBVIOUS
    <2>2. /\ transfer' = [transfer EXCEPT ![x] = r] /\ ~WritingFile(r) /\ r.path = p /\ r.kind = "read"
          /\ HasRow(p)
          /\ UNCHANGED <<owners, born, sent, rows, used, texts, resting, torn, bereft, litter>>
      BY <1>3, <2>1 DEF ReadText, Begin, WritingFile, HasRow
    <2> QED BY <1>g, <1>s, <2>2 DEF RowsInv
  <1>4. ASSUME NEW x \in Transfers, NEW b \in BOOLEAN, Uploaded(x, b) PROVE RowsInv'
    <2>1. transfer[x] \in [kind : {"upload", "row"}, path : Paths, owner : Owners]
      BY <1>4, <1>t DEF Uploaded, FileTypes, FileTransfers, Ready
    <2>2. /\ [transfer[x] EXCEPT !.kind = "row"].owner = transfer[x].owner
          /\ [transfer[x] EXCEPT !.kind = "row"].kind = "row"
      BY <2>1
    <2>3. PICK r : /\ transfer' = [transfer EXCEPT ![x] = r]
                   /\ r = Ready \/ r = [transfer[x] EXCEPT !.kind = "row"]
      BY <1>4, <1>t DEF Uploaded, Finished, FileTypes
    <2>4. WritingFile(transfer[x])
      BY <1>4 DEF Uploaded, WritingFile
    <2>5. UNCHANGED <<owners, born, sent, rows, used, texts, resting, torn, bereft, litter>>
      BY <1>4 DEF Uploaded
    <2>6. (WritingFile(r) => r.owner = transfer[x].owner) /\ r.kind \notin {"read", "copy"}
      BY <1>r, <2>2, <2>3
    <2> QED BY <1>g, <2>3, <2>4, <2>5, <2>6 DEF RowsInv
  <1>5. ASSUME NEW x \in Transfers, NEW b \in BOOLEAN, WriteRow(x, b) PROVE RowsInv'
    <2>0. PICK p, o : p = transfer[x].path /\ o = transfer[x].owner
      OBVIOUS
    <2>1. /\ transfer[x].kind = "row" /\ Finished(x) /\ WritingFile(transfer[x])
          /\ UNCHANGED <<owners, born, sent, resting, used, torn, bereft>>
      BY <1>5 DEF WriteRow, WritingFile
    <2>2. OwnPath(x) /\ p \in Paths /\ p \in used /\ ~HasRow(p)
      BY <1>t, <2>0, <2>1 DEF FilesInv, OwnPath, FileTypes
    <2>3. CASE o \in owners
      <3>1. /\ rows' = rows \cup {<<p, o>>} /\ litter' = litter
            /\ texts' \subseteq texts \cup {p} /\ o \in Owners
        BY <1>5, <1>t, <2>0, <2>3 DEF WriteRow, FileTypes
      <3>2. <<p, o>> \notin rows
        BY <2>2, <3>1 DEF HasRow
      <3>3. rows' \subseteq Paths \X owners'
        BY <2>1, <2>2, <2>3, <3>1 DEF RowsInv
      <3>4. texts' \subseteq Paths /\ \A q \in texts' : HasRow(q)'
        BY <2>2, <3>1 DEF RowsInv, HasRow
      <3>5. ASSUME NEW q \in Owners, q # o PROVE Fits(q)'
        <4>1. FilesOf(q)' \subseteq FilesOf(q)
          BY <3>1, <3>5 DEF FilesOf
        <4> QED BY <1>e, <2>1, <4>1, FitsStill DEF RowsInv
      <3>6. Fits(o)'
        <4>1. FilesOf(o)' = FilesOf(o) \cup {p} /\ p \notin FilesOf(o)
          BY <2>2, <3>1, <3>2 DEF FilesOf
        <4>2. Writers(o)' = Writers(o) \ {x} /\ x \in Writers(o)
          BY <1>e, <1>r, <2>0, <2>1 DEF Writers
        <4>3. IsFiniteSet(FilesOf(o)) /\ Fits(o) /\ IsFiniteSet(Writers(o))
          BY <3>1, WritersAre DEF RowsInv, Fits, Writers
        <4>4. /\ IsFiniteSet(FilesOf(o)') /\ Cardinality(FilesOf(o)') = Cardinality(FilesOf(o)) + 1
          BY <4>1, <4>3, FS_AddElement
        <4>5. Cardinality(Writers(o)') = Cardinality(Writers(o)) - 1
          BY <4>2, <4>3, FS_RemoveElement
        <4>6. Cardinality(FilesOf(o)) \in Nat /\ Cardinality(Writers(o)) \in Nat
          BY <4>3, FS_CardinalityType
        <4>7. Cardinality(FilesOf(o)') + Cardinality(Writers(o)') = Cardinality(FilesOf(o)) + Cardinality(Writers(o))
          BY <4>4, <4>5, <4>6
        <4> QED BY <4>3, <4>4, <4>7 DEF Fits
      <3> QED BY <1>d, <2>1, <3>1, <3>3, <3>4, <3>5, <3>6 DEF RowsInv
    <2>4. CASE o \notin owners
      <3>1. litter' = litter \cup {p} /\ UNCHANGED <<rows, texts>>
        BY <1>5, <2>0, <2>4 DEF WriteRow
      <3>2. transfer' = [transfer EXCEPT ![x] = Ready]
        BY <2>1 DEF Finished
      <3>3. resting' \cup torn' \cup bereft' \cup litter' \subseteq used
        BY <2>1, <2>2, <3>1 DEF RowsInv
      <3> QED BY <1>g, <1>r, <2>1, <3>1, <3>2, <3>3 DEF RowsInv
    <2> QED BY <2>3, <2>4
  <1>6. ASSUME NEW x \in Transfers, NEW b \in BOOLEAN, RemoveObjects(x, b) PROVE RowsInv'
    <2>1. transfer[x] \in [kind : {"remove", "unlink"}, paths : SUBSET Paths, owner : Owners, whole : BOOLEAN]
      BY <1>6, <1>t DEF RemoveObjects, FileTypes, FileTransfers, Ready
    <2>2. PICK r : r = [transfer[x] EXCEPT !.kind = "unlink"]
      OBVIOUS
    <2>3. r.kind = "unlink" /\ ~WritingFile(r)
      BY <2>1, <2>2 DEF WritingFile
    <2>4. /\ transfer' = [transfer EXCEPT ![x] = r] /\ transfer[x].kind = "remove"
          /\ bereft' \subseteq bereft \cup transfer[x].paths /\ litter' \subseteq litter
          /\ UNCHANGED <<owners, born, sent, rows, used, texts, resting, torn>>
      BY <1>6, <1>t, <2>2 DEF RemoveObjects, FileTypes
    <2>5. transfer[x].paths \subseteq used
      BY <2>4 DEF FilesInv, Holding
    <2> QED BY <1>g, <2>3, <2>4, <2>5 DEF RowsInv
  <1>7. ASSUME NEW x \in Transfers, NEW b \in BOOLEAN, TextRead(x, b) PROVE RowsInv'
    <2>0. PICK p : p = transfer[x].path
      OBVIOUS
    <2>1. /\ transfer[x].kind = "read" /\ transfer' = [transfer EXCEPT ![x] = Ready]
          /\ UNCHANGED <<owners, born, sent, rows, used, torn, bereft, litter>>
      BY <1>7 DEF TextRead, Finished
    <2>2. p \in used /\ p \in Paths
      BY <1>t, <2>0, <2>1 DEF RowsInv, FileTypes
    <2>3. \/ texts' = texts /\ resting' = resting \cup {p}
          \/ texts' = texts \cup {p} /\ HasRow(p) /\ resting' = resting
          \/ texts' = texts /\ resting' = resting
      BY <1>7, <2>0 DEF TextRead
    <2>4. /\ texts' \subseteq Paths /\ \A q \in texts' : HasRow(q)
          /\ resting' \cup torn' \cup bereft' \cup litter' \subseteq used
      BY <2>1, <2>2, <2>3 DEF RowsInv
    <2> QED BY <1>g, <1>r, <2>1, <2>4
  <1>8. ASSUME NEW x \in Transfers, DeleteRow(x) PROVE RowsInv'
    <2>1. PICK u, P : /\ u = transfer[x].owner /\ Unlinked(u, P) /\ Finished(x)
                      /\ transfer[x].kind = "unlink" /\ P \subseteq FilesOf(u)
                      /\ owners' \subseteq owners /\ owners \ {u} \subseteq owners'
                      /\ u \in owners \ owners' => P = FilesOf(u)
                      /\ UNCHANGED <<born, sent, resting, used>>
      <3>1. CASE transfer[x].whole
        BY <1>8, <3>1 DEF DeleteRow
      <3>2. CASE ~transfer[x].whole
        BY <1>8, <3>2 DEF DeleteRow
      <3> QED BY <3>1, <3>2
    <2>2. transfer[x] \in [kind : {"remove", "unlink"}, paths : SUBSET Paths, owner : Owners, whole : BOOLEAN]
      BY <1>t, <2>1 DEF FileTypes, FileTransfers, Ready
    <2>3. P \in SUBSET Paths /\ u \in Owners
      BY <2>1, <2>2 DEF FilesOf
    <2>4. u \notin owners' => FilesOf(u) \subseteq P
      <3>1. u \notin owners => FilesOf(u) = {}
        BY DEF RowsInv, FilesOf
      <3> QED BY <2>1, <3>1
    <2>5. /\ rows' \subseteq Paths \X owners'
          /\ texts' \subseteq Paths /\ \A p \in texts' : HasRow(p)'
          /\ \A q \in Owners : FilesOf(q)' \subseteq FilesOf(q)
          /\ torn' \cup bereft' \cup litter' \subseteq used
      BY <2>1, <2>3, <2>4, RowsStay
    <2>6. \A o \in Owners : Fits(o)'
      BY <1>e, <2>1, <2>5, FitsStill DEF RowsInv
    <2>7. resting' \cup torn' \cup bereft' \cup litter' \subseteq used'
      BY <2>1, <2>5 DEF RowsInv
    <2> QED BY <1>d, <2>1, <2>5, <2>6, <2>7 DEF RowsInv
  <1>9. ASSUME NEW x \in Transfers, Stop(x) PROVE RowsInv'
    <2>1. transfer[x] \in FileTransfers /\ face = NoFace
      BY <1>t DEF FileTypes
    <2>2. transfer[x].kind \in {"ready", "upload", "row", "remove", "unlink", "copy", "read"}
      BY <2>1, <1>r DEF FileTransfers
    <2>3. transfer[x].kind = "unlink" => transfer[x].paths \subseteq used
      BY DEF FilesInv, Holding
    <2>4. transfer[x].kind = "row" => transfer[x].path \in used
      BY DEF FilesInv, WritingFile, OwnPath
    <2>5. torn' \subseteq used
      BY <1>9, <2>2, <2>3 DEF Stop, RowsInv
    <2>6. litter' \subseteq used
      BY <1>9, <2>2, <2>4 DEF Stop, RowsInv
    <2>7. /\ transfer' = [transfer EXCEPT ![x] = Ready]
          /\ UNCHANGED <<owners, born, sent, rows, texts, resting, used, bereft>>
      BY <1>9 DEF Stop, Finished
    <2> QED BY <1>g, <1>r, <2>5, <2>6, <2>7 DEF RowsInv
  <1>10. ASSUME NEW o \in Owners, DeleteOwner(o) PROVE RowsInv'
    <2>1. PICK P : P = FilesOf(o)
      OBVIOUS
    <2>2. /\ Unlinked(o, P) /\ P \in SUBSET Paths /\ owners' = owners \ {o}
          /\ UNCHANGED <<born, sent, resting, used, transfer>>
      BY <1>10, <2>1 DEF DeleteOwner, FilesOf
    <2>3. /\ rows' \subseteq Paths \X owners'
          /\ texts' \subseteq Paths /\ \A p \in texts' : HasRow(p)'
          /\ \A q \in Owners : FilesOf(q)' \subseteq FilesOf(q)
          /\ torn' \cup bereft' \cup litter' \subseteq used
      BY <2>1, <2>2, RowsStay
    <2>4. \A q \in Owners : Writers(q)' \subseteq Writers(q)
      BY <2>2 DEF Writers
    <2>5. \A q \in Owners : Fits(q)'
      BY <2>3, <2>4, FitsStill DEF RowsInv
    <2> QED BY <2>2, <2>3, <2>5 DEF RowsInv
  <1>11. ASSUME NEW x \in Transfers, NEW o \in Owners, BeginCopy(x, o) PROVE RowsInv'
    <2>1. PICK r : r = [kind |-> "copy", paths |-> FilesOf(o)]
      OBVIOUS
    <2>2. /\ transfer' = [transfer EXCEPT ![x] = r] /\ ~WritingFile(r) /\ r.kind = "copy" /\ r.paths = FilesOf(o)
          /\ UNCHANGED <<owners, born, sent, rows, used, texts, resting, torn, bereft, litter>>
      BY <1>11, <2>1 DEF BeginCopy, Begin, WritingFile
    <2>3. IsFiniteSet(FilesOf(o)) /\ Cardinality(FilesOf(o)) < MaxFiles + Cardinality(Transfers)
      <3>1. Fits(o)
        BY DEF RowsInv
      <3>2. Cardinality(FilesOf(o)) \in Nat
        BY <3>1, FS_CardinalityType DEF Fits
      <3>3. Cardinality(Writers(o)) \in Nat /\ Cardinality(Transfers) \in Nat
        BY WritersAre DEF Writers
      <3>4. MaxFiles \in Nat
        BY FilesAssumption DEF FilesAssumption
      <3> QED BY <3>1, <3>2, <3>3, <3>4 DEF Fits
    <2> QED BY <1>g, <2>2, <2>3 DEF RowsInv
  <1>12. ASSUME NEW x \in Transfers, NEW o \in Owners, WriteCopy(x, o) PROVE RowsInv'
    <2>0. PICK P : P = transfer[x].paths
      OBVIOUS
    <2>1. /\ Finished(x) /\ transfer[x].kind = "copy" /\ o \notin born
          /\ owners' = owners \cup {o} /\ born' = born \cup {o}
          /\ rows' = rows \cup (P \X {o}) /\ bereft' = bereft \cup (P \ stored)
          /\ UNCHANGED <<sent, texts, resting, used, torn, litter>>
      BY <1>12, <2>0 DEF WriteCopy
    <2>2. /\ P \subseteq used /\ P \subseteq Paths /\ IsFiniteSet(P)
          /\ Cardinality(P) < MaxFiles + Cardinality(Transfers)
      BY <1>t, <2>0, <2>1 DEF FilesInv, Holding, RowsInv, FileTypes
    <2>3. rows' \subseteq Paths \X owners'
      BY <2>1, <2>2 DEF RowsInv
    <2>4. \A p \in texts' : HasRow(p)'
      BY <2>1 DEF RowsInv, HasRow
    <2>5. ASSUME NEW q \in Owners, q # o PROVE Fits(q)'
      <3>1. FilesOf(q)' \subseteq FilesOf(q)
        BY <2>1, <2>5 DEF FilesOf
      <3> QED BY <1>e, <2>1, <3>1, FitsStill DEF RowsInv
    <2>6. Fits(o)'
      <3>1. FilesOf(o)' = P
        BY <2>1, <2>2 DEF RowsInv, FilesOf
      <3>2. Writers(o)' = {}
        BY <1>e, <2>1 DEF RowsInv, Writers
      <3>3. Cardinality({}) = 0 /\ Cardinality(P) \in Nat
        BY <2>2, FS_EmptySet, FS_CardinalityType
      <3> QED BY <2>2, <3>1, <3>2, <3>3 DEF Fits
    <2>7. resting' \cup torn' \cup bereft' \cup litter' \subseteq used'
      BY <2>1, <2>2 DEF RowsInv
    <2> QED BY <1>d, <2>1, <2>3, <2>4, <2>5, <2>6, <2>7 DEF RowsInv
  <1>13. ASSUME UNCHANGED <<owners, born, rows, texts, used, transfer, torn, bereft, litter>>,
                sent' \subseteq Owners, resting' \subseteq used
         PROVE  RowsInv'
    <2>1. \A q \in Owners : Writers(q)' \subseteq Writers(q) /\ FilesOf(q)' \subseteq FilesOf(q)
      BY <1>13 DEF Writers, FilesOf
    <2>2. \A q \in Owners : Fits(q)'
      BY <2>1, FitsStill DEF RowsInv
    <2> QED BY <1>13, <1>f, <2>2 DEF RowsInv
  <1>14. ASSUME NEW o \in Owners, SendMail(o) PROVE RowsInv'
    BY <1>13, <1>14 DEF SendMail, RowsInv
  <1>15. CASE RetryAllowed
    BY <1>13, <1>15 DEF RetryAllowed, RowsInv
  <1> QED BY <1>1, <1>2, <1>3, <1>4, <1>5, <1>6, <1>7, <1>8, <1>9, <1>10, <1>11, <1>12, <1>14, <1>15 DEF FilesNext

----------------------------------------------------------------------------
(* Avatars.                                                                *)

FaceTransfers ==
    {Ready}
    \cup [kind : {"portrait", "show", "clear"}, old : Paths \cup {NoFace}, new : Paths \cup {NoFace}]
    \cup [kind : {"erase", "hide"}, old : Paths \cup {NoFace}]

Replacing(q) == q.kind \in {"portrait", "show", "clear"}
Pending(q) == q.kind \in {"portrait", "show"}

\* An avatar that was uploaded is the user's only once it is shown: until then it is
\* nobody's old one, and no other request shows it.
OwnFace(x) ==
    LET n == transfer[x].new IN
    /\ n \in used \cup {NoFace}
    /\ transfer[x].kind = "portrait" => n # NoFace
    /\ n # NoFace =>
        /\ n # face
        /\ n \in stored <=> transfer[x].kind = "show"
        /\ \A y \in Transfers : /\ transfer[y] # Ready => transfer[y].old # n
                                /\ Pending(transfer[y]) /\ transfer[y].new = n => y = x

\* What is cleared was seen before another was shown.
Past(x) == transfer[x].old # NoFace /\ transfer[x].old # face

Fading(p) == p \in torn \/ \E x \in Transfers : transfer[x].kind = "hide" /\ transfer[x].old = p

Kept(p) ==
    \E x \in Transfers : \/ transfer[x].kind = "show" /\ transfer[x].new = p
                         \/ transfer[x].kind = "clear" /\ transfer[x].old = p

FaceTypes ==
    /\ rows = {}
    /\ stored \subseteq used /\ used \subseteq Paths
    /\ face \in used \cup {NoFace}
    /\ transfer \in [Transfers -> FaceTransfers]

FaceInv ==
    /\ FaceTypes
    /\ \A x \in Transfers : transfer[x] # Ready => transfer[x].old \in used \cup {NoFace}
    /\ \A x \in Transfers : Pending(transfer[x]) => OwnFace(x)
    /\ \A x \in Transfers : transfer[x].kind = "clear" => Past(x)
    /\ face = NoFace \/ face \in stored \/ Fading(face)
    /\ \A p \in stored : p = face \/ p \in litter \/ Kept(p)

LEMMA FaceBegins == FilesInit => FaceInv
PROOF
  BY DEF FilesInit, FaceInv, FaceTypes, FaceTransfers, Ready, Pending

LEMMA FaceInvBacks == FaceInv => FilesBacked
PROOF
  <1> SUFFICES ASSUME FaceInv PROVE FilesBacked
    OBVIOUS
  <1>1. Named = {<<p, NoOwner>> : p \in {face} \ {NoFace}} /\ NoFace \notin stored
    BY FilesAssumption DEF FilesAssumption, FaceInv, FaceTypes, Named
  <1>2. ASSUME NEW p, Fading(p) PROVE <<p, NoOwner>> \in Leaving \/ p \in torn
    <2>1. ASSUME NEW x \in Transfers, transfer[x].kind = "hide", transfer[x].old = p
          PROVE <<p, NoOwner>> \in Leaving
      BY <2>1 DEF Leaving
    <2> QED BY <1>2, <2>1 DEF Fading
  <1>3. ASSUME NEW p, Kept(p) PROVE p \in Handled
    <2>1. PICK x \in Transfers : \/ transfer[x].kind = "show" /\ transfer[x].new = p
                                 \/ transfer[x].kind = "clear" /\ transfer[x].old = p
      BY <1>3 DEF Kept
    <2> QED BY <2>1 DEF Handled
  <1>4. ASSUME NEW n \in Named PROVE n[1] \in stored \cup torn \/ n \in Leaving
    BY <1>1, <1>2 DEF FaceInv
  <1>5. ASSUME NEW p \in stored PROVE p \in {n[1] : n \in Named} \cup Handled \cup litter
    <2>1. CASE p = face
      <3>1. <<p, NoOwner>> \in Named /\ <<p, NoOwner>>[1] = p
        BY <1>1, <2>1
      <3> QED BY <3>1
    <2> QED BY <1>3, <2>1 DEF FaceInv
  <1> QED BY <1>4, <1>5 DEF FilesBacked

LEMMA FaceKept == FaceInv /\ AvatarNext => FaceInv'
PROOF
  <1> SUFFICES ASSUME FaceInv, AvatarNext PROVE FaceInv'
    OBVIOUS
  <1>t. FaceTypes
    BY DEF FaceInv
  <1>n. NoFace \notin used /\ NoFace \notin stored
    BY FilesAssumption DEF FilesAssumption, FaceInv, FaceTypes
  <1>r. Ready \in FaceTransfers /\ ~Pending(Ready) /\ Ready.kind = "ready"
    BY DEF FaceTransfers, Ready, Pending
  <1>p. ASSUME NEW q, q \in FaceTransfers, q.kind \in {"portrait", "show", "clear"}
        PROVE  q \in [kind : {"portrait", "show", "clear"}, old : Paths \cup {NoFace}, new : Paths \cup {NoFace}]
    BY <1>p DEF FaceTransfers, Ready
  <1>h. ASSUME NEW q, q \in FaceTransfers, q.kind \in {"erase", "hide"}
        PROVE  q \in [kind : {"erase", "hide"}, old : Paths \cup {NoFace}]
    BY <1>h DEF FaceTransfers, Ready
  <1>o. \A x \in Transfers : Pending(transfer[x]) \/ transfer[x].kind = "clear" => transfer[x] # Ready
    BY <1>r
  \* A request goes on to r: what must be shown of it.
  <1>g. ASSUME NEW x \in Transfers, NEW r, transfer' = [transfer EXCEPT ![x] = r], r \in FaceTransfers,
               rows' = rows, used \subseteq used', used' \subseteq Paths, stored' \subseteq used',
               face' \in used' \cup {NoFace},
               r # Ready => r.old \in used' \cup {NoFace},
               Pending(r) => OwnFace(x)',
               \A y \in Transfers \ {x} : Pending(transfer[y]) => OwnFace(y)',
               r.kind = "clear" => Past(x)',
               \A y \in Transfers \ {x} : transfer[y].kind = "clear" => transfer[y].old # face',
               face' = NoFace \/ face' \in stored' \/ Fading(face)',
               \A p \in stored' : p = face' \/ p \in litter' \/ Kept(p)'
        PROVE  FaceInv'
    <2>1. \A y \in Transfers : transfer'[y] = IF y = x THEN r ELSE transfer[y]
      BY <1>g, <1>t DEF FaceTypes
    <2>2. FaceTypes'
      BY <1>g, <1>t DEF FaceTypes
    <2>3. \A y \in Transfers : transfer'[y] # Ready => transfer'[y].old \in used' \cup {NoFace}
      BY <1>g, <2>1 DEF FaceInv
    <2>4. \A y \in Transfers : Pending(transfer'[y]) => OwnFace(y)'
      BY <1>g, <2>1
    <2>5. \A y \in Transfers : transfer'[y].kind = "clear" => Past(y)'
      <3> SUFFICES ASSUME NEW y \in Transfers, transfer'[y].kind = "clear" PROVE Past(y)'
        OBVIOUS
      <3>1. CASE y = x
        BY <1>g, <2>1, <3>1
      <3>2. CASE y # x
        BY <1>g, <2>1, <3>2 DEF FaceInv, Past
      <3> QED BY <3>1, <3>2
    <2> QED BY <1>g, <2>2, <2>3, <2>4, <2>5 DEF FaceInv, Ready
  <1>1. ASSUME NEW x \in Transfers, UploadAvatar(x) PROVE FaceInv'
    <2>1. PICK p, r : p = NewPath /\ r = [kind |-> "portrait", old |-> face, new |-> p]
      OBVIOUS
    <2>2. p \in Paths /\ p \notin used
      BY <1>1, <1>t, <2>1 DEF UploadAvatar, Unused, NewPath, FaceTypes
    <2>3. /\ transfer[x] = Ready /\ transfer' = [transfer EXCEPT ![x] = r]
          /\ used' = used \cup {p}
          /\ UNCHANGED <<rows, stored, face, torn, litter>>
      BY <1>1, <2>1 DEF UploadAvatar, Begin
    <2>4. r \in FaceTransfers /\ Pending(r) /\ r.kind = "portrait" /\ r.old = face /\ r.new = p
      BY <1>t, <2>1, <2>2 DEF FaceTransfers, Pending, FaceTypes
    <2>5. \A y \in Transfers : transfer'[y] = IF y = x THEN r ELSE transfer[y]
      BY <2>3, <1>t DEF FaceTypes
    <2>6. OwnFace(x)'
      <3>1. p # face /\ p \notin stored /\ p # NoFace
        BY <1>t, <2>2, FilesAssumption DEF FaceTypes, FilesAssumption
      <3>2. ASSUME NEW y \in Transfers
            PROVE /\ transfer'[y] # Ready => transfer'[y].old # p
                  /\ Pending(transfer'[y]) /\ transfer'[y].new = p => y = x
        BY <1>n, <2>2, <2>4, <2>5, <3>1 DEF FaceInv, OwnFace
      <3> QED BY <2>3, <2>4, <2>5, <3>1, <3>2 DEF OwnFace, Ready
    <2>7. \A y \in Transfers \ {x} : Pending(transfer[y]) => OwnFace(y)'
      <3> SUFFICES ASSUME NEW y \in Transfers \ {x}, Pending(transfer[y]) PROVE OwnFace(y)'
        OBVIOUS
      <3>1. OwnFace(y) /\ transfer'[y] = transfer[y]
        BY <2>5 DEF FaceInv
      <3> QED BY <2>2, <2>3, <2>4, <2>5, <3>1 DEF OwnFace, Ready
    <2>8. \A q : (Fading(q) => Fading(q)') /\ (Kept(q) => Kept(q)')
      BY <1>r, <2>3, <2>5 DEF Fading, Kept
    <2>9. /\ stored' \subseteq used' /\ used' \subseteq Paths /\ face' \in used' \cup {NoFace}
          /\ \A y \in Transfers : transfer[y].kind = "clear" => transfer[y].old # face'
          /\ face' = NoFace \/ face' \in stored' \/ Fading(face)'
          /\ \A q \in stored' : q = face' \/ q \in litter' \/ Kept(q)'
      BY <1>t, <2>2, <2>3, <2>8 DEF FaceInv, FaceTypes, Past
    <2> QED BY <1>g, <2>3, <2>4, <2>6, <2>7, <2>9
  <1>2. ASSUME NEW x \in Transfers, NEW r, Begin(x, r), r \in FaceTransfers, r.old = face,
               r.kind \in {"show", "hide", "erase"}, r.kind = "show" => r.new = NoFace,
               UNCHANGED <<rows, stored, used, face, torn, litter>>
        PROVE FaceInv'
    <2>3. transfer[x] = Ready /\ transfer' = [transfer EXCEPT ![x] = r]
      BY <1>2 DEF Begin
    <2>5. \A y \in Transfers : transfer'[y] = IF y = x THEN r ELSE transfer[y]
      BY <2>3, <1>t DEF FaceTypes
    <2>6. Pending(r) => OwnFace(x)'
      BY <1>2, <2>5 DEF OwnFace, Pending
    <2>7. \A y \in Transfers \ {x} : Pending(transfer[y]) => OwnFace(y)'
      <3> SUFFICES ASSUME NEW y \in Transfers \ {x}, Pending(transfer[y]) PROVE OwnFace(y)'
        OBVIOUS
      <3>1. OwnFace(y) /\ transfer'[y] = transfer[y]
        BY <2>5 DEF FaceInv
      <3>2. CASE transfer[y].new = NoFace
        BY <1>2, <3>1, <3>2 DEF OwnFace
      <3>3. CASE transfer[y].new # NoFace
        <4>1. \A z \in Transfers :
                /\ transfer'[z] # Ready => transfer'[z].old # transfer[y].new
                /\ Pending(transfer'[z]) /\ transfer'[z].new = transfer[y].new => z = y
          BY <1>2, <2>5, <3>1, <3>3 DEF OwnFace, Pending
        <4> QED BY <1>2, <3>1, <3>3, <4>1 DEF OwnFace, Ready
      <3> QED BY <3>2, <3>3
    <2>8. \A q : (Fading(q) => Fading(q)') /\ (Kept(q) => Kept(q)')
      BY <1>2, <1>r, <2>3, <2>5 DEF Fading, Kept
    <2>9. /\ stored' \subseteq used' /\ used' \subseteq Paths /\ face' \in used' \cup {NoFace}
          /\ \A y \in Transfers : transfer[y].kind = "clear" => transfer[y].old # face'
          /\ face' = NoFace \/ face' \in stored' \/ Fading(face)'
          /\ \A q \in stored' : q = face' \/ q \in litter' \/ Kept(q)'
      BY <1>2, <1>t, <2>8 DEF FaceInv, FaceTypes, Past
    <2> QED BY <1>2, <1>g, <2>3, <2>6, <2>7, <2>9
  <1>3. ASSUME NEW x \in Transfers, SetPresetAvatar(x) PROVE FaceInv'
    <2>1. PICK r : r = [kind |-> "show", old |-> face, new |-> NoFace]
      OBVIOUS
    <2>2. r \in FaceTransfers
      BY <1>t, <2>1 DEF FaceTransfers, FaceTypes
    <2> QED BY <1>2, <1>3, <2>1, <2>2 DEF SetPresetAvatar
  <1>4. ASSUME NEW x \in Transfers, RemoveAvatar(x) PROVE FaceInv'
    <2>1. PICK r : r = [kind |-> IF face = NoFace THEN "hide" ELSE "erase", old |-> face]
      OBVIOUS
    <2>2. r \in FaceTransfers
      BY <1>t, <2>1 DEF FaceTransfers, FaceTypes
    <2> QED BY <1>2, <1>4, <2>1, <2>2 DEF RemoveAvatar
  \* A request is over: nothing shown is lost by that.
  <1>5. ASSUME NEW x \in Transfers, Finished(x), UNCHANGED <<rows, used>>,
               stored' \subseteq stored, face' \in {face, NoFace},
               \A y \in Transfers \ {x} : Pending(transfer[y]) /\ transfer[y].new \in stored =>
                   transfer[y].new \in stored',
               face' = NoFace \/ face' \in stored' \/ Fading(face)',
               \A p \in stored' : p = face' \/ p \in litter' \/ Kept(p)'
        PROVE FaceInv'
    <2>3. transfer' = [transfer EXCEPT ![x] = Ready]
      BY <1>5 DEF Finished
    <2>5. \A y \in Transfers : transfer'[y] = IF y = x THEN Ready ELSE transfer[y]
      BY <2>3, <1>t DEF FaceTypes
    <2>7. \A y \in Transfers \ {x} : Pending(transfer[y]) => OwnFace(y)'
      <3> SUFFICES ASSUME NEW y \in Transfers \ {x}, Pending(transfer[y]) PROVE OwnFace(y)'
        OBVIOUS
      <3>1. OwnFace(y) /\ transfer'[y] = transfer[y]
        BY <2>5 DEF FaceInv
      <3>2. CASE transfer[y].new = NoFace
        BY <1>5, <3>1, <3>2 DEF OwnFace
      <3>3. CASE transfer[y].new # NoFace
        <4>1. \A z \in Transfers :
                /\ transfer'[z] # Ready => transfer'[z].old # transfer[y].new
                /\ Pending(transfer'[z]) /\ transfer'[z].new = transfer[y].new => z = y
          BY <1>r, <2>5, <3>1, <3>3 DEF OwnFace
        <4>2. transfer[y].new # face' /\ (transfer[y].new \in stored' <=> transfer[y].new \in stored)
          BY <1>5, <3>1, <3>3 DEF OwnFace
        <4> QED BY <1>5, <3>1, <3>3, <4>1, <4>2 DEF OwnFace, Ready
      <3> QED BY <3>2, <3>3
    <2>9. /\ stored' \subseteq used' /\ used' \subseteq Paths /\ face' \in used' \cup {NoFace}
          /\ \A y \in Transfers : transfer[y].kind = "clear" => transfer[y].old # face'
      BY <1>5, <1>t DEF FaceInv, FaceTypes, Past
    <2> QED BY <1>5, <1>g, <1>r, <2>3, <2>7, <2>9
  <1>6. ASSUME NEW x \in Transfers, NEW b \in BOOLEAN, AvatarUploaded(x, b) PROVE FaceInv'
    <2>0. transfer[x].kind = "portrait" /\ UNCHANGED <<rows, used, face, torn, litter>>
      BY <1>6 DEF AvatarUploaded
    <2>1. CASE ~b
      <3>1. Finished(x) /\ UNCHANGED stored
        BY <1>6, <2>1 DEF AvatarUploaded
      <3>5. \A y \in Transfers : transfer'[y] = IF y = x THEN Ready ELSE transfer[y]
        BY <3>1, <1>t DEF FaceTypes, Finished
      <3>8. \A q : (Fading(q) => Fading(q)') /\ (Kept(q) => Kept(q)')
        BY <2>0, <3>5 DEF Fading, Kept
      <3>9. /\ face' = NoFace \/ face' \in stored' \/ Fading(face)'
            /\ \A q \in stored' : q = face' \/ q \in litter' \/ Kept(q)'
        BY <2>0, <3>1, <3>8 DEF FaceInv
      <3> QED BY <1>5, <2>0, <3>1, <3>9
    <2>2. CASE b
      <3>0. PICK p, r : p = transfer[x].new /\ r = [transfer[x] EXCEPT !.kind = "show"]
        OBVIOUS
      <3>1. transfer' = [transfer EXCEPT ![x] = r] /\ stored' = stored \cup {p}
        BY <1>6, <1>t, <2>2, <3>0 DEF AvatarUploaded, FaceTypes
      <3>2. transfer[x] \in FaceTransfers /\ transfer[x] # Ready
        BY <2>0, <1>t, <1>r DEF FaceTypes
      <3>3. transfer[x] \in [kind : {"portrait", "show", "clear"}, old : Paths \cup {NoFace}, new : Paths \cup {NoFace}]
        BY <2>0, <3>2, <1>p
      <3>4. r \in FaceTransfers /\ Pending(r) /\ r.kind = "show" /\ r.old = transfer[x].old /\ r.new = p
        BY <3>0, <3>3 DEF FaceTransfers, Pending
      <3>5. \A y \in Transfers : transfer'[y] = IF y = x THEN r ELSE transfer[y]
        BY <3>1, <1>t DEF FaceTypes
      <3>6. OwnFace(x) /\ Pending(transfer[x])
        BY <2>0 DEF FaceInv, Pending
      <3>7. p # NoFace /\ p \in used /\ p # face
        BY <2>0, <3>0, <3>6 DEF OwnFace
      <3>8. OwnFace(x)'
        <4>1. ASSUME NEW z \in Transfers
              PROVE /\ transfer'[z] # Ready => transfer'[z].old # p
                    /\ Pending(transfer'[z]) /\ transfer'[z].new = p => z = x
          BY <3>0, <3>2, <3>4, <3>5, <3>6, <3>7 DEF OwnFace
        <4> QED BY <2>0, <3>1, <3>4, <3>5, <3>7, <4>1 DEF OwnFace, Ready
      <3>9. \A y \in Transfers \ {x} : Pending(transfer[y]) => OwnFace(y)'
        <4> SUFFICES ASSUME NEW y \in Transfers \ {x}, Pending(transfer[y]) PROVE OwnFace(y)'
          OBVIOUS
        <4>1. OwnFace(y) /\ transfer'[y] = transfer[y]
          BY <3>5 DEF FaceInv
        <4>2. CASE transfer[y].new = NoFace
          BY <2>0, <4>1, <4>2 DEF OwnFace
        <4>3. CASE transfer[y].new # NoFace
          <5>0. \A z \in Transfers :
                  /\ transfer[z] # Ready => transfer[z].old # transfer[y].new
                  /\ Pending(transfer[z]) /\ transfer[z].new = transfer[y].new => z = y
            BY <4>1, <4>3 DEF OwnFace
          <5>1. ASSUME NEW z \in Transfers
                PROVE  /\ transfer'[z] # Ready => transfer'[z].old # transfer[y].new
                       /\ Pending(transfer'[z]) /\ transfer'[z].new = transfer[y].new => z = y
            <6>1. CASE z = x
              BY <3>0, <3>2, <3>4, <3>5, <3>6, <5>0, <6>1
            <6>2. CASE z # x
              BY <3>5, <5>0, <6>2
            <6> QED BY <6>1, <6>2
          <5>2. transfer[y].new # p
            BY <3>0, <3>6, <3>7 DEF OwnFace
          <5> QED BY <2>0, <3>1, <4>1, <4>3, <5>1, <5>2 DEF OwnFace, Ready
        <4> QED BY <4>2, <4>3
      <3>10. \A q : (Fading(q) => Fading(q)') /\ (Kept(q) => Kept(q)')
        BY <2>0, <3>5 DEF Fading, Kept
      <3>11. Kept(p)'
        BY <3>4, <3>5 DEF Kept
      <3>12. /\ stored' \subseteq used' /\ used' \subseteq Paths /\ face' \in used' \cup {NoFace}
             /\ \A y \in Transfers : transfer[y].kind = "clear" => transfer[y].old # face'
             /\ face' = NoFace \/ face' \in stored' \/ Fading(face)'
             /\ \A q \in stored' : q = face' \/ q \in litter' \/ Kept(q)'
        BY <1>t, <2>0, <3>1, <3>7, <3>10, <3>11 DEF FaceInv, FaceTypes, Past
      <3>13. r.old \in used' \cup {NoFace}
        BY <2>0, <3>2, <3>4 DEF FaceInv
      <3> QED BY <1>g, <2>0, <3>1, <3>4, <3>8, <3>9, <3>12, <3>13
    <2> QED BY <2>1, <2>2
  <1>7. ASSUME NEW x \in Transfers, ShowAvatar(x) PROVE FaceInv'
    <2>0. PICK old, new : old = transfer[x].old /\ new = transfer[x].new
      OBVIOUS
    <2>1. /\ transfer[x].kind = "show" /\ face' = new
          /\ litter' = IF face # old THEN litter \cup ({face} \cap stored) ELSE litter
          /\ UNCHANGED <<rows, stored, used>>
      BY <1>7, <2>0 DEF ShowAvatar, Shown
    <2>2. transfer[x] \in FaceTransfers /\ transfer[x] # Ready /\ Pending(transfer[x])
      BY <2>1, <1>t, <1>r DEF FaceTypes, Pending
    <2>3. transfer[x] \in [kind : {"portrait", "show", "clear"}, old : Paths \cup {NoFace}, new : Paths \cup {NoFace}]
      BY <2>1, <2>2, <1>p
    <2>4. PICK r : /\ transfer' = [transfer EXCEPT ![x] = r]
                   /\ \/ old = NoFace /\ r = Ready
                      \/ old # NoFace /\ r = [transfer[x] EXCEPT !.kind = "clear"]
      BY <1>7, <1>t, <2>0 DEF ShowAvatar, Finished, FaceTypes
    <2>5. /\ r \in FaceTransfers /\ ~Pending(r)
          /\ r # Ready => r.kind = "clear" /\ r.old = old /\ old # NoFace
          /\ old # NoFace => r.kind = "clear" /\ r.old = old
          /\ r.kind = "clear" => r # Ready
      BY <1>r, <2>0, <2>3, <2>4 DEF FaceTransfers, Pending
    <2>6. \A y \in Transfers : transfer'[y] = IF y = x THEN r ELSE transfer[y]
      BY <2>4, <1>t DEF FaceTypes
    <2>7. /\ OwnFace(x) /\ old \in used \cup {NoFace}
          /\ new # NoFace => new \in stored /\ new # face /\ old # new /\ new \in used
      BY <2>0, <2>1, <2>2 DEF FaceInv, OwnFace
    <2>8. \A y \in Transfers \ {x} : Pending(transfer[y]) => OwnFace(y)'
      <3> SUFFICES ASSUME NEW y \in Transfers \ {x}, Pending(transfer[y]) PROVE OwnFace(y)'
        OBVIOUS
      <3>1. OwnFace(y) /\ transfer'[y] = transfer[y]
        BY <2>6 DEF FaceInv
      <3>2. CASE transfer[y].new = NoFace
        BY <2>1, <3>1, <3>2 DEF OwnFace
      <3>3. CASE transfer[y].new # NoFace
        <4>1. \A z \in Transfers :
                /\ transfer'[z] # Ready => transfer'[z].old # transfer[y].new
                /\ Pending(transfer'[z]) /\ transfer'[z].new = transfer[y].new => z = y
          BY <2>0, <2>2, <2>5, <2>6, <3>1, <3>3 DEF OwnFace
        <4>2. transfer[y].new # new
          BY <2>0, <2>2, <3>1, <3>3 DEF OwnFace
        <4> QED BY <2>1, <3>1, <3>3, <4>1, <4>2 DEF OwnFace, Ready
      <3> QED BY <3>2, <3>3
    <2>9. r.kind = "clear" => Past(x)'
      BY <2>1, <2>5, <2>6, <2>7 DEF Past
    <2>10. \A y \in Transfers \ {x} : transfer[y].kind = "clear" => transfer[y].old # face'
      <3> SUFFICES ASSUME NEW y \in Transfers \ {x}, transfer[y].kind = "clear" PROVE transfer[y].old # new
        BY <2>1
      <3>1. transfer[y].old # NoFace /\ transfer[y] # Ready
        BY <1>o DEF FaceInv, Past
      <3> QED BY <2>0, <2>7, <3>1 DEF OwnFace
    <2>11. \A p \in stored' : p = face' \/ p \in litter' \/ Kept(p)'
      <3> SUFFICES ASSUME NEW p \in stored PROVE p = new \/ p \in litter' \/ Kept(p)'
        BY <2>1
      <3>1. CASE p = face
        <4>1. CASE face # old
          BY <2>1, <3>1, <4>1
        <4>2. CASE face = old
          BY <1>n, <2>5, <2>6, <3>1, <4>2 DEF Kept
        <4> QED BY <4>1, <4>2
      <3>2. CASE p \in litter
        BY <2>1, <3>2
      <3>3. CASE Kept(p)
        BY <2>0, <2>1, <2>6, <3>3 DEF Kept
      <3> QED BY <3>1, <3>2, <3>3 DEF FaceInv
    <2>12. /\ stored' \subseteq used' /\ used' \subseteq Paths /\ face' \in used' \cup {NoFace}
           /\ face' = NoFace \/ face' \in stored'
      BY <1>t, <2>1, <2>7 DEF FaceTypes
    <2> QED BY <1>g, <2>1, <2>4, <2>5, <2>7, <2>8, <2>9, <2>10, <2>11, <2>12
  <1>8. ASSUME NEW x \in Transfers, NEW b \in BOOLEAN, ClearOld(x, b) PROVE FaceInv'
    <2>0. PICK old : old = transfer[x].old
      OBVIOUS
    <2>1. /\ transfer[x].kind = "clear" /\ Finished(x) /\ UNCHANGED <<rows, used, face, torn>>
          /\ \/ stored' = stored \ {old} /\ litter' = litter \ {old}
             \/ stored' = stored /\ litter' = litter \cup {old}
      BY <1>8, <2>0 DEF ClearOld
    <2>2. transfer[x] # Ready /\ old # face
      BY <1>o, <2>0, <2>1 DEF FaceInv, Past
    <2>5. \A y \in Transfers : transfer'[y] = IF y = x THEN Ready ELSE transfer[y]
      BY <2>1, <1>t DEF FaceTypes, Finished
    <2>6. \A y \in Transfers \ {x} : Pending(transfer[y]) /\ transfer[y].new \in stored =>
             transfer[y].new \in stored'
      BY <1>n, <2>0, <2>1, <2>2 DEF FaceInv, OwnFace
    <2>7. face' = NoFace \/ face' \in stored' \/ Fading(face)'
      BY <2>1, <2>2, <2>5 DEF FaceInv, Fading
    <2>8. \A p \in stored' : p = face' \/ p \in litter' \/ Kept(p)'
      <3> SUFFICES ASSUME NEW p \in stored' PROVE p = face' \/ p \in litter' \/ Kept(p)'
        OBVIOUS
      <3>1. CASE Kept(p) /\ p # old
        BY <2>0, <2>1, <2>5, <3>1 DEF Kept
      <3> QED BY <2>1, <3>1 DEF FaceInv
    <2> QED BY <1>5, <2>1, <2>6, <2>7, <2>8
  <1>9. ASSUME NEW x \in Transfers, NEW b \in BOOLEAN, Erase(x, b) PROVE FaceInv'
    <2>0. PICK old, r : old = transfer[x].old /\ r = [transfer[x] EXCEPT !.kind = "hide"]
      OBVIOUS
    <2>1. /\ transfer[x].kind = "erase" /\ transfer' = [transfer EXCEPT ![x] = r]
          /\ UNCHANGED <<rows, used, face, torn, litter>>
          /\ stored' \subseteq stored /\ stored \ {old} \subseteq stored'
      BY <1>9, <1>t, <2>0 DEF Erase, FaceTypes
    <2>2. transfer[x] \in FaceTransfers /\ transfer[x] # Ready
      BY <2>1, <1>t, <1>r DEF FaceTypes
    <2>3. transfer[x] \in [kind : {"erase", "hide"}, old : Paths \cup {NoFace}]
      BY <2>1, <2>2, <1>h
    <2>4. r \in FaceTransfers /\ ~Pending(r) /\ r.kind = "hide" /\ r.old = old
      BY <2>0, <2>3 DEF FaceTransfers, Pending
    <2>5. \A y \in Transfers : transfer'[y] = IF y = x THEN r ELSE transfer[y]
      BY <2>1, <1>t DEF FaceTypes
    <2>6. \A y \in Transfers \ {x} : Pending(transfer[y]) => OwnFace(y)'
      <3> SUFFICES ASSUME NEW y \in Transfers \ {x}, Pending(transfer[y]) PROVE OwnFace(y)'
        OBVIOUS
      <3>1. OwnFace(y) /\ transfer'[y] = transfer[y]
        BY <2>5 DEF FaceInv
      <3>2. CASE transfer[y].new = NoFace
        BY <2>1, <3>1, <3>2 DEF OwnFace
      <3>3. CASE transfer[y].new # NoFace
        <4>0. \A z \in Transfers :
                /\ transfer[z] # Ready => transfer[z].old # transfer[y].new
                /\ Pending(transfer[z]) /\ transfer[z].new = transfer[y].new => z = y
          BY <3>1, <3>3 DEF OwnFace
        <4>1. ASSUME NEW z \in Transfers
              PROVE  /\ transfer'[z] # Ready => transfer'[z].old # transfer[y].new
                     /\ Pending(transfer'[z]) /\ transfer'[z].new = transfer[y].new => z = y
          <5>1. CASE z = x
            BY <2>0, <2>2, <2>4, <2>5, <4>0, <5>1
          <5>2. CASE z # x
            BY <2>5, <4>0, <5>2
          <5> QED BY <5>1, <5>2
        <4>2. transfer[y].new # old
          BY <2>0, <2>2, <3>1, <3>3 DEF OwnFace
        <4> QED BY <2>1, <3>1, <3>3, <4>1, <4>2 DEF OwnFace, Ready
      <3> QED BY <3>2, <3>3
    <2>7. face' = NoFace \/ face' \in stored' \/ Fading(face)'
      <3>1. CASE face = old
        BY <2>1, <2>4, <2>5, <3>1 DEF Fading
      <3>2. CASE face # old
        BY <2>1, <2>5, <3>2 DEF FaceInv, Fading
      <3> QED BY <3>1, <3>2
    <2>8. \A p \in stored' : p = face' \/ p \in litter' \/ Kept(p)'
      BY <2>1, <2>5 DEF FaceInv, Kept
    <2>9. /\ stored' \subseteq used' /\ used' \subseteq Paths /\ face' \in used' \cup {NoFace}
          /\ \A y \in Transfers : transfer[y].kind = "clear" => transfer[y].old # face'
          /\ r.old \in used' \cup {NoFace}
      BY <1>t, <2>0, <2>1, <2>2, <2>4 DEF FaceInv, FaceTypes, Past
    <2> QED BY <1>g, <2>1, <2>4, <2>6, <2>7, <2>8, <2>9
  <1>10. ASSUME NEW x \in Transfers, HideAvatar(x) PROVE FaceInv'
    <2>1. /\ transfer[x].kind = "hide" /\ Finished(x) /\ UNCHANGED <<rows, stored, used>>
          /\ face' = NoFace /\ litter' = litter \cup ({face} \cap stored)
      BY <1>10 DEF HideAvatar
    <2>5. \A y \in Transfers : transfer'[y] = IF y = x THEN Ready ELSE transfer[y]
      BY <2>1, <1>t DEF FaceTypes, Finished
    <2>8. \A p \in stored' : p = face' \/ p \in litter' \/ Kept(p)'
      BY <2>1, <2>5 DEF FaceInv, Kept
    <2> QED BY <1>5, <2>1, <2>8
  <1>11. ASSUME NEW x \in Transfers, Stop(x) PROVE FaceInv'
    <2>1. /\ Finished(x) /\ UNCHANGED <<rows, stored, used, face>>
          /\ torn \subseteq torn' /\ litter \subseteq litter'
          /\ transfer[x].kind = "hide" =>
               {transfer[x].old} \cap ({face} \ (stored \cup {NoFace})) \subseteq torn'
          /\ transfer[x].kind = "show" => {transfer[x].new} \cap stored \subseteq litter'
          /\ transfer[x].kind = "clear" => {transfer[x].old} \cap stored \subseteq litter'
      BY <1>11 DEF Stop
    <2>5. \A y \in Transfers : transfer'[y] = IF y = x THEN Ready ELSE transfer[y]
      BY <2>1, <1>t DEF FaceTypes, Finished
    <2>7. face' = NoFace \/ face' \in stored' \/ Fading(face)'
      BY <2>1, <2>5 DEF FaceInv, Fading
    <2>8. \A p \in stored' : p = face' \/ p \in litter' \/ Kept(p)'
      BY <2>1, <2>5 DEF FaceInv, Kept
    <2> QED BY <1>5, <2>1, <2>7, <2>8
  <1> QED BY <1>1, <1>3, <1>4, <1>6, <1>7, <1>8, <1>9, <1>10, <1>11 DEF AvatarNext

\* A user's avatars have no rows, and no owner comes or goes.
PortraitInv ==
    /\ owners = {} /\ born = {} /\ bereft = {}
    /\ sent = {} /\ texts = {} /\ resting = {}
    /\ torn \cup litter \subseteq used

LEMMA PortraitBegins == FilesInit /\ owners = {} => PortraitInv
PROOF
  BY DEF FilesInit, PortraitInv

LEMMA PortraitTyped == FaceInv /\ PortraitInv => FilesTypeOK
PROOF
  <1> SUFFICES ASSUME FaceInv, PortraitInv PROVE FilesTypeOK
    OBVIOUS
  <1>1. ASSUME NEW o \in Owners PROVE Cardinality(FilesOf(o)) <= MaxFiles + Cardinality(Transfers) - 1
    <2>1. FilesOf(o) = {}
      BY DEF FilesOf, FaceInv, FaceTypes
    <2>2. Cardinality(FilesOf(o)) = 0
      BY <2>1, FS_EmptySet
    <2>3. MaxFiles \in Nat \ {0} /\ Cardinality(Transfers) \in Nat
      BY WritersAre, FilesAssumption DEF FilesAssumption
    <2> QED BY <2>2, <2>3
  <1>2. \A x \in Transfers : transfer[x] \in TransferTypes
    BY DEF FaceInv, FaceTypes, FaceTransfers, TransferTypes
  <1> QED BY <1>1, <1>2 DEF FilesTypeOK, FaceInv, FaceTypes, PortraitInv

LEMMA PortraitKept == FaceInv /\ PortraitInv /\ AvatarNext => PortraitInv'
PROOF
  <1> SUFFICES ASSUME FaceInv, PortraitInv, AvatarNext PROVE PortraitInv'
    OBVIOUS
  <1>1. UNCHANGED <<owners, born, bereft, sent, texts, resting>> /\ used \subseteq used'
    BY DEF AvatarNext, UploadAvatar, SetPresetAvatar, RemoveAvatar, ShowAvatar, HideAvatar, Stop,
           AvatarUploaded, ClearOld, Erase
  <1>2. stored \subseteq used /\ NoFace \notin used
    BY FilesAssumption DEF FilesAssumption, FaceInv, FaceTypes
  <1>3. ASSUME NEW x \in Transfers, Stop(x) PROVE torn' \cup litter' \subseteq used
    <2>1. transfer[x] \in FaceTransfers
      BY DEF FaceInv, FaceTypes
    <2>2. transfer[x].kind \notin {"unlink", "row"}
      BY <2>1 DEF FaceTransfers, Ready
    <2>3. {face} \ (stored \cup {NoFace}) \subseteq used
      BY DEF FaceInv, FaceTypes
    <2>4. torn' \subseteq used
      BY <1>3, <2>2, <2>3 DEF Stop, PortraitInv
    <2>5. litter' \subseteq used
      BY <1>2, <1>3, <2>2 DEF Stop, PortraitInv
    <2> QED BY <2>4, <2>5
  <1>4. ASSUME NEW x \in Transfers, NEW b \in BOOLEAN, ClearOld(x, b) PROVE torn' \cup litter' \subseteq used
    <2>1. transfer[x].kind = "clear" /\ transfer[x] # Ready
      BY <1>4 DEF ClearOld, Ready
    <2>2. transfer[x].old \in used
      BY <2>1 DEF FaceInv, Past
    <2> QED BY <1>4, <2>2 DEF ClearOld, PortraitInv
  <1>5. ASSUME NEW x \in Transfers, ShowAvatar(x) \/ HideAvatar(x) PROVE torn' \cup litter' \subseteq used
    BY <1>2, <1>5 DEF ShowAvatar, HideAvatar, Shown, PortraitInv
  <1>6. CASE UNCHANGED <<torn, litter>>
    BY <1>1, <1>6 DEF PortraitInv
  <1> QED BY <1>1, <1>3, <1>4, <1>5, <1>6
       DEF AvatarNext, PortraitInv, UploadAvatar, SetPresetAvatar, RemoveAvatar, AvatarUploaded, Erase

----------------------------------------------------------------------------
(* The project.                                                            *)

LEMMA FlowSteps == [Next]_vars => [FlowNext]_flowVars
PROOF
  BY DEF Next, vars, flowVars

LEMMA FlowInvariance == Spec => []FlowInv
PROOF
  <1>1. Init => FlowInv
    BY FlowStarts DEF Init
  <1>2. FlowInv /\ [Next]_vars => FlowInv'
    BY FlowSteps, FlowKeeps
  <1> QED BY <1>1, <1>2, PTL DEF Spec

\* Whoever moves a card, by whatever way and with whatever else at work, it enters a
\* column against the rules of the column only if an admin forces it, or if something
\* changed after the check.
THEOREM GatesKeptCorrect == Spec => GatesKept
PROOF
  <1>1. FlowInv /\ [Next]_vars =>
          [\A i \in Items : lane'[i] # lane[i] /\ Barred(i, lane'[i]) =>
            \E m \in Moves :
                /\ move[m].phase \in {"write", "system"} /\ move'[m] # move[m]
                /\ move[m].want.item = i
                /\ ~move[m].fresh \/ move[m].want.force]_flowVars
    BY FlowSteps, GateStep DEF GateKept, Writing
  <1> QED
    BY <1>1, FlowInvariance, PTL DEF Spec, GatesKept

LEMMA CatchInvariance == Spec => []CatchInv
PROOF
  <1>1. Init => CatchInv
    BY CatchStarts DEF Init
  <1>2. CatchInv /\ [Next]_vars => CatchInv'
    BY FlowSteps, CatchKeeps
  <1> QED BY <1>1, <1>2, PTL DEF Spec

\* No board stays behind: what the open boards show of a card is its row, or a request
\* under way will show it, unless a query failed or another request wrote meanwhile.
THEOREM BoardsCatchUpCorrect == Spec => []BoardsCatchUp
PROOF
  BY CatchInvariance, CatchesUp, PTL

\* A step of the project is one of mail or leaves mail alone.
LEMMA MailSteps == [Next]_vars => [DraftNext \/ ReplyNext]_mailVars
PROOF
  BY DEF Next, vars, mailVars

LEMMA MailInvariance == Spec => []MailInv
PROOF
  <1>1. Init => MailInv
    BY MailStarts DEF Init
  <1>2. MailInv /\ [Next]_vars => MailInv'
    BY MailSteps, MailKeeps
  <1> QED BY <1>1, <1>2, PTL DEF Spec

\* Nobody hears of a letter twice, however often and from however many requests it is
\* sent (mail.service).
THEOREM ToldOnceCorrect == Spec => []ToldOnce
PROOF
  BY MailInvariance, MailToldOnce, PTL

\* A step of the project is one of comments or of a nightly scan, or leaves the
\* notifications alone.
LEMMA NoticeSteps == [Next]_vars => [TalkNext \/ \E type \in ScanTypes : ScanNext(type)]_noticeVars
PROOF
  BY DEF Next, vars, noticeVars, ScanTypes

LEMMA NoticesInvariance == Spec => []NoticesInv
PROOF
  <1>1. Init => NoticesInv
    BY NoticesStart DEF Init
  <1>2. NoticesInv /\ [Next]_vars => NoticesInv'
    BY NoticeSteps, NoticesKeep
  <1> QED BY <1>1, <1>2, PTL DEF Spec

\* A scan leaves nobody with two unread notifications of the same condition, whatever
\* runs at once (notification.service).
THEOREM NotifiedOnceCorrect == Spec => []NotifiedOnce
PROOF
  BY NoticesInvariance, NoticesOnce, PTL

\* Which links there can be depends on the part at work.
LinksInv ==
    /\ HomeInv /\ ValuesInv
    /\ busy = "dependencies" => BlocksInv
    /\ busy = "parents" => ParentsInv
    /\ busy \notin {"dependencies", "parents"} => blocks = {} /\ NoParents

LEMMA LinksInvariance == Spec => []LinksInv
PROOF
  <1>1. Init => LinksInv
    <2> SUFFICES ASSUME Init PROVE LinksInv
      OBVIOUS
    <2>1. GraphInit
      BY DEF Init
    <2>2. HomeInv /\ ValuesInv
      BY <2>1, LinksStart
    <2>3. LinksTypes /\ blocks = {} /\ related = {} /\ NoParents /\ Parents = {}
      BY <2>1, <2>2 DEF HomeInv, GraphInit, NoParents, Parents
    <2>4. \A e \in Edits : edit[e] = Free
      BY <2>1 DEF GraphInit
    <2>5. \A e \in Edits, kind \in {"blocks", "adopt"} : ~Alone(edit[e], kind)
      BY <2>4 DEF Alone, Free
    <2>6. NoCycle({})
      BY DEF NoCycle
    <2>7. blocks \ late = {} /\ Parents \ late = {}
      BY <2>3
    <2>8. BlocksInv
      BY <2>3, <2>5, <2>6, <2>7 DEF BlocksInv
    <2>9. ParentsInv
      BY <2>3, <2>5, <2>6, <2>7 DEF ParentsInv
    <2> QED BY <2>2, <2>3, <2>8, <2>9 DEF LinksInv
  <1>2. LinksInv /\ [Next]_vars => LinksInv'
    <2> SUFFICES ASSUME LinksInv, [Next]_vars PROVE LinksInv'
      OBVIOUS
    <2>s. busy' = busy
      BY DEF Next, vars
    <2>1. CASE UNCHANGED graphVars
      BY <2>s, <2>1 DEF LinksInv, HomeInv, ValuesInv, LinksTypes, AtHome, Uncrossed, At, NoParents,
          BlocksInv, ParentsInv, Parents, Frontier, Climbed, graphVars
    <2>2. ASSUME LinksNext PROVE HomeInv' /\ ValuesInv'
      BY <2>2, HomeKept, ValuesKept DEF LinksInv
    <2>3. CASE busy = "dependencies" /\ DependencyNext
      <3>1. BlocksInv'
        BY <2>3, BlocksKept DEF LinksInv
      <3> QED BY <2>s, <2>2, <2>3, <3>1 DEF LinksInv, LinksNext
    <2>4. CASE busy = "parents" /\ ParentNext
      <3>1. ParentsInv'
        BY <2>4, ParentsKept DEF LinksInv
      <3> QED BY <2>s, <2>2, <2>4, <3>1 DEF LinksInv, LinksNext
    <2>5. CASE busy = "fields" /\ FieldNext
      <3>1. blocks = {} /\ NoParents
        BY <2>5 DEF LinksInv
      <3>2. \/ UNCHANGED <<blocks, parent>>
            \/ \E c \in Tasks : Delete(c)
        BY <2>5 DEF FieldNext, MovesNext, SetValue, WriteValue, Relocate, DropValues, Arrive
      <3>3. blocks' = {} /\ NoParents'
        BY <3>1, <3>2 DEF Delete, Without, NoParents
      <3> QED BY <2>s, <2>2, <2>5, <3>3 DEF LinksInv, LinksNext
    <2> QED BY <2>1, <2>3, <2>4, <2>5 DEF Next, vars, graphVars
  <1> QED BY <1>1, <1>2, PTL DEF Spec

\* Links and values belong to the project of the card, but for cards that were relocated
\* and for values that were being written during a relocation.
THEOREM LinksAtHomeCorrect == Spec => []LinksAtHome
PROOF
  <1>1. LinksInv => LinksAtHome
    <2> SUFFICES ASSUME LinksInv PROVE LinksAtHome
      OBVIOUS
    <2>1. \A l \in blocks \cup related \cup Parents : AtHome(l[1], l[2])
      BY DEF LinksInv, HomeInv, LinksTypes, Parents
    <2>2. \A c \in tasks \ crossed : values[c] \subseteq {board[c]}
      BY DEF LinksInv, ValuesInv, LinksTypes, Uncrossed
    <2> QED BY <2>1, <2>2 DEF LinksAtHome, AtHome
  <1> QED BY <1>1, LinksInvariance, PTL

\* No card waits for itself and none is its own ancestor, whatever requests search and
\* write at once: every cycle has a link written after another overtook its search
\* (dependency.service, validateParentCard).
THEOREM AcyclicCorrect == Spec => []Acyclic
PROOF
  <1>1. LinksInv => Acyclic
    <2> SUFFICES ASSUME LinksInv PROVE Acyclic
      OBVIOUS
    <2>1. NoCycle({})
      BY DEF NoCycle
    <2>2. NoParents => Parents \ late = {}
      BY DEF LinksInv, HomeInv, LinksTypes, NoParents, Parents
    <2>3. blocks = {} => blocks \ late = {}
      OBVIOUS
    <2>4. NoCycle(blocks \ late)
      BY <2>1, <2>3 DEF LinksInv, BlocksInv, ParentsInv
    <2>5. NoCycle(Parents \ late)
      BY <2>1, <2>2 DEF LinksInv, BlocksInv, ParentsInv
    <2> QED BY <2>4, <2>5 DEF Acyclic
  <1> QED BY <1>1, LinksInvariance, PTL

\* Rows and objects: what a step of the project leaves of both.
StorageInv ==
    /\ busy = "avatars" => FaceInv
    /\ busy # "avatars" => FilesInv

LEMMA StorageInvariance == Spec => []StorageInv
PROOF
  <1>1. Init => StorageInv
    BY FilesBegin, FaceBegins DEF Init, StorageInv
  <1>2. StorageInv /\ [Next]_vars => StorageInv'
    <2> SUFFICES ASSUME StorageInv, [Next]_vars PROVE StorageInv'
      OBVIOUS
    <2>s. busy' = busy
      BY DEF Next, vars
    <2>1. CASE UNCHANGED fileVars
      <3>1. FaceInv => FaceInv'
        BY <2>1 DEF fileVars, FaceInv, FaceTypes, OwnFace, Past, Fading, Kept
      <3>2. FilesInv => FilesInv'
        BY <2>1 DEF fileVars, FilesInv, FileTypes, OwnPath, HasRow, HalfGone, Awaited
      <3> QED BY <2>s, <3>1, <3>2 DEF StorageInv
    <2>2. CASE busy = "files" /\ FilesNext
      BY <2>s, <2>2, FilesKept DEF StorageInv
    <2>3. CASE busy = "avatars" /\ AvatarNext
      BY <2>s, <2>3, FaceKept DEF StorageInv
    <2> QED BY <2>1, <2>2, <2>3 DEF Next, vars, fileVars
  <1> QED BY <1>1, <1>2, PTL DEF Spec

\* Every row of a file has its object and every object its row, but for what a request
\* under way is about to write or remove, what a crash tore, what went with the row of a
\* copied card and what failed calls left behind (card-attachment, project-document and
\* avatar.service; duplicateCard of card.service).
THEOREM FilesBackedCorrect == Spec => []FilesBacked
PROOF
  <1>1. StorageInv => FilesBacked
    BY FilesInvBacks, FaceInvBacks DEF StorageInv
  <1> QED BY <1>1, StorageInvariance, PTL

----------------------------------------------------------------------------
(* Types.                                                                  *)

\* What the invariants of the parts need on top to give the types.
RestInv ==
    /\ busy \in Parts
    /\ LateInv /\ ThreadsInv /\ SettingsTyped /\ RootsInv /\ LanesInv
    /\ busy = "avatars" => PortraitInv
    /\ busy # "avatars" => RowsInv

LEMMA RestStarts == Init => RestInv
PROOF
  BY LateStart, ThreadsStart, RootsStart, LanesStart, PortraitBegins, RowsBegin DEF Init, RestInv

LEMMA LateKeeps == LinksInv /\ LateInv /\ [Next]_vars => LateInv'
PROOF
  <1>1. CASE UNCHANGED graphVars
    BY <1>1 DEF graphVars, LateInv, Parents
  <1>2. LinksInv => LinksTypes
    BY DEF LinksInv, HomeInv
  <1>3. [Next]_vars => LinksNext \/ UNCHANGED graphVars
    BY DEF Next, vars, graphVars, LinksNext
  <1> QED BY <1>1, <1>2, <1>3, LateKept

LEMMA ThreadsAndSettings ==
    ThreadsInv /\ SettingsTyped /\ [Next]_vars => ThreadsInv' /\ SettingsTyped'
PROOF
  <1>1. CASE UNCHANGED noticeVars
    BY <1>1 DEF noticeVars, ThreadsInv, ThreadsTyped, Rooted, IsRoot, Written, Answers, SettingsTyped
  <1> QED BY <1>1, NoticeSteps, ThreadsKeep, SettingsKeep

LEMMA RowsAndPortraits ==
    ASSUME StorageInv, [Next]_vars, busy = "avatars" => PortraitInv, busy # "avatars" => RowsInv
    PROVE  (busy = "avatars" => PortraitInv)' /\ (busy # "avatars" => RowsInv)'
PROOF
  <1>s. busy' = busy
    BY DEF Next, vars
  <1>1. CASE UNCHANGED fileVars
    <2>1. PortraitInv => PortraitInv'
      BY <1>1 DEF fileVars, PortraitInv
    <2>2. RowsInv => RowsInv'
      BY <1>1 DEF fileVars, RowsInv, HasRow, Fits, FilesOf, Writers
    <2> QED BY <1>s, <2>1, <2>2
  <1>2. CASE busy = "files" /\ FilesNext
    BY <1>s, <1>2, RowsKept DEF StorageInv
  <1>3. CASE busy = "avatars" /\ AvatarNext
    BY <1>s, <1>3, PortraitKept DEF StorageInv
  <1> QED BY <1>1, <1>2, <1>3 DEF Next, vars, fileVars

\* Cards, columns, comments, files and mail keep their types, and what a row refers to is
\* there: links join cards that exist, an answer its root, a file its owner; and the
\* files of an owner pass their limit by one for each further request, no more.
THEOREM UpkeepTypesCorrect == Spec => []TypeOK
PROOF
  <1> DEFINE Base == LinksInv /\ NoticesInv /\ MailInv /\ CatchInv /\ StorageInv
  <1>1. Spec => []Base
    BY LinksInvariance, NoticesInvariance, MailInvariance, CatchInvariance, StorageInvariance, PTL
  <1>2. Base /\ RestInv /\ [Next]_vars => RestInv'
    <2> SUFFICES ASSUME Base, RestInv, [Next]_vars PROVE RestInv'
      OBVIOUS
    <2>1. LateInv' /\ ThreadsInv' /\ SettingsTyped'
      BY LateKeeps, ThreadsAndSettings DEF RestInv
    <2>2. RootsInv'
      BY MailSteps, RootsKeep DEF RestInv, MailInv
    <2>3. LanesInv'
      BY FlowSteps, LanesKeep DEF RestInv
    <2>4. (busy = "avatars" => PortraitInv)' /\ (busy # "avatars" => RowsInv)'
      BY RowsAndPortraits DEF RestInv
    <2>5. (busy \in Parts)'
      BY DEF RestInv, Next, vars
    <2> QED BY <2>1, <2>2, <2>3, <2>4, <2>5 DEF RestInv
  <1>3. Base /\ RestInv => TypeOK
    <2> SUFFICES ASSUME Base, RestInv PROVE TypeOK
      OBVIOUS
    <2>1. GraphTypeOK
      BY LinksTypeOK DEF LinksInv, HomeInv, ValuesInv, RestInv
    <2>2. NoticesTypeOK
      BY NoticesAreTyped DEF NoticesInv, RestInv
    <2>3. FilesTypeOK
      BY FilesTyped, PortraitTyped DEF StorageInv, RestInv
    <2>4. MailTypeOK
      BY MailTypes DEF MailInv, RestInv
    <2>5. FlowTypeOK
      BY LanesType DEF RestInv
    <2> QED BY <2>1, <2>2, <2>3, <2>4, <2>5 DEF TypeOK, RestInv
  <1> HIDE DEF Base
  <1>4. Spec => []RestInv
    BY <1>1, <1>2, RestStarts, PTL DEF Spec
  <1> QED BY <1>1, <1>3, <1>4, PTL
=============================================================================
