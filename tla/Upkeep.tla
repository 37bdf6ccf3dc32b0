------------------------------- MODULE Upkeep -------------------------------
(***************************************************************************)
(* The parts of a project around its cards that share no state with each    *)
(* other: links between cards, their way across the board, notifications,   *)
(* files and mail.  As in Server, one of them is at work in a behaviour.    *)
(***************************************************************************)
EXTENDS Graph, Notices, Files, Mailbox, Flow

VARIABLE busy   \* the part at work

vars == <<busy, graphVars, noticeVars, fileVars, mailVars, flowVars>>

Parts == {"dependencies", "parents", "fields", "comments", "idle cards", "full columns",
          "files", "avatars", "drafts", "replies", "board"}

Init ==
    /\ busy \in Parts
    /\ GraphInit /\ NoticesInit /\ FilesInit /\ MailInit /\ FlowInit
    \* Only the links tell one distribution of the cards from another.
    /\ busy \in {"dependencies", "parents", "fields"} \/ board = CHOOSE f \in Homes : TRUE
    /\ busy = "files" \/ owners = {}
    /\ \/ busy = "board"
       \/ /\ [lane |-> lane, hands |-> hands] = CHOOSE s \in Starts : TRUE
          /\ rules = CHOOSE R \in RuleSets : TRUE

Next ==
    /\ UNCHANGED busy
    /\ \/ /\ \/ busy = "dependencies" /\ DependencyNext
             \/ busy = "parents" /\ ParentNext
             \/ busy = "fields" /\ FieldNext
          /\ UNCHANGED <<noticeVars, fileVars, mailVars, flowVars>>
       \/ /\ \/ busy = "comments" /\ TalkNext
             \/ busy = "idle cards" /\ ScanNext("STALE_CARD")
             \/ busy = "full columns" /\ ScanNext("WIP_EXCEEDED")
          /\ UNCHANGED <<graphVars, fileVars, mailVars, flowVars>>
       \/ /\ \/ busy = "files" /\ FilesNext
             \/ busy = "avatars" /\ AvatarNext
          /\ UNCHANGED <<graphVars, noticeVars, mailVars, flowVars>>
       \/ /\ \/ busy = "drafts" /\ DraftNext
             \/ busy = "replies" /\ ReplyNext
          /\ UNCHANGED <<graphVars, noticeVars, fileVars, flowVars>>
       \/ /\ busy = "board" /\ FlowNext
          /\ UNCHANGED <<graphVars, noticeVars, fileVars, mailVars>>

Spec == Init /\ [][Next]_vars

----------------------------------------------------------------------------
(* Types of the five parts, and with them what their rows refer to: cards    *)
(* that exist, roots of threads and conversations, owners of files.         *)
TypeOK ==
    /\ busy \in Parts
    /\ GraphTypeOK /\ NoticesTypeOK /\ FilesTypeOK /\ MailTypeOK /\ FlowTypeOK
=============================================================================
