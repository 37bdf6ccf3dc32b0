------------------------------- MODULE Files -------------------------------
(***************************************************************************)
(* Files: an object in the storage and a row in the database that names it. *)
(* The two are written and removed one after the other, by requests that    *)
(* run at once and may stop in between; nothing repairs what is left.  The   *)
(* copy of a card has rows of its own that name the objects of the card.    *)
(* Attachments of cards and of drafts, documents of projects, and avatars.  *)
(***************************************************************************)
EXTENDS Naturals, FiniteSets

CONSTANTS
    Paths,      \* paths in the storage; each upload takes a new one
    Owners,     \* what has files: a card, a project or a mail
    OwnerKind,  \* by owner, "card", "project" or "mail"
    NoOwner,
    NoFace,     \* no avatar, or a preset: neither is in the storage
    Transfers,  \* requests under way at a time
    MaxFiles    \* files of an owner, 20 of a card and 10 of a mail in the code

ASSUME FilesAssumption ==
    /\ MaxFiles \in Nat \ {0} /\ OwnerKind \in [Owners -> {"card", "project", "mail"}]
    /\ NoOwner \notin Owners /\ NoFace \notin Paths
    /\ IsFiniteSet(Transfers)

VARIABLES
    owners,   \* owners that exist
    born,     \* owners that exist or did
    sent,     \* mails no longer drafts
    rows,     \* a path and an owner each
    texts,    \* documents whose text was extracted
    resting,  \* documents whose text is not tried again for a while
    stored,   \* paths that hold an object
    used,     \* paths taken
    face,     \* the avatar of a user
    transfer, \* requests under way
    torn,     \* history: rows whose request stopped after removing the object
    bereft,   \* history: objects removed that the row of another owner names, or came to name
    litter    \* history: objects left without a row

fileVars ==
    <<owners, born, sent, rows, texts, resting, stored, used, face, transfer, torn, bereft, litter>>

Ready == [kind |-> "ready"]
Begin(x, request) == transfer[x] = Ready /\ transfer' = [transfer EXCEPT ![x] = request]
Finished(x) == transfer' = [transfer EXCEPT ![x] = Ready]
FilesOf(o) == {p \in Paths : <<p, o>> \in rows}
HasRow(p) == \E o \in Owners : <<p, o>> \in rows

\* Of some paths, those that no row names but the rows of o.
OnlyOf(o, P) == {p \in P : \A q \in Owners : <<p, q>> \in rows => q = o}

\* The path of an upload is new.
Unused == used # Paths
NewPath == CHOOSE p \in Paths : p \notin used

\* A mail takes and loses files only as a draft.
Open(o) == o \in owners \ sent

----------------------------------------------------------------------------
(* Attachments and documents.                                              *)

\* uploadAttachment, uploadDocument, uploadMailAttachment up to the upload.
Upload(x, o) ==
    /\ Open(o) /\ Cardinality(FilesOf(o)) < MaxFiles
    /\ Unused /\ used' = used \cup {NewPath}
    /\ Begin(x, [kind |-> "upload", path |-> NewPath, owner |-> o])
    /\ UNCHANGED <<owners, born, sent, rows, texts, resting, stored, face, torn, bereft, litter>>

Uploaded(x, ok) ==
    /\ transfer[x].kind = "upload"
    /\ IF ok
       THEN /\ stored' = stored \cup {transfer[x].path}
            /\ transfer' = [transfer EXCEPT ![x].kind = "row"]
       ELSE Finished(x) /\ UNCHANGED stored
    /\ UNCHANGED <<owners, born, sent, rows, texts, resting, used, face, torn, bereft, litter>>

\* The row is written whether or not the mail is a draft still; without the
\* owner the insert fails and the object stays.
WriteRow(x, text) ==
    /\ transfer[x].kind = "row"
    /\ LET p == transfer[x].path
           o == transfer[x].owner
       IN IF o \in owners
          THEN /\ rows' = rows \cup {<<p, o>>}
               /\ texts' = IF text /\ OwnerKind[o] = "project" THEN texts \cup {p} ELSE texts
               /\ UNCHANGED litter
          ELSE litter' = litter \cup {p} /\ UNCHANGED <<rows, texts>>
    /\ Finished(x)
    /\ UNCHANGED <<owners, born, sent, resting, stored, used, face, torn, bereft>>

\* deleteAttachment, deleteDocument, deleteMailAttachment; deleteMail of a draft,
\* which lists the files first.
BeginDelete(x, o, P) ==
    /\ Open(o) /\ P \subseteq FilesOf(o)
    /\ IF OwnerKind[o] = "mail" THEN P = FilesOf(o) \/ Cardinality(P) = 1 ELSE Cardinality(P) = 1
    /\ \E whole \in BOOLEAN :
        /\ whole => OwnerKind[o] = "mail" /\ P = FilesOf(o)
        /\ whole \/ Cardinality(P) = 1
        /\ Begin(x, [kind |-> "remove", paths |-> P, owner |-> o, whole |-> whole])
    /\ UNCHANGED <<owners, born, sent, rows, texts, resting, stored, used, face, torn, bereft, litter>>

\* The object goes, whoever else names it.  The storage reports an error as a
\* value, and nobody looks at it.
RemoveObjects(x, ok) ==
    /\ transfer[x].kind = "remove"
    /\ IF ok
       THEN /\ stored' = stored \ transfer[x].paths /\ litter' = litter \ transfer[x].paths
            /\ bereft' = bereft \cup (transfer[x].paths \ OnlyOf(transfer[x].owner, transfer[x].paths))
       ELSE UNCHANGED <<stored, bereft, litter>>
    /\ transfer' = [transfer EXCEPT ![x].kind = "unlink"]
    /\ UNCHANGED <<owners, born, sent, rows, texts, resting, used, face, torn>>

\* What goes when an owner's rows go.
Unlinked(o, P) ==
    /\ rows' = rows \ (P \X {o})
    /\ texts' = texts \ P
    /\ litter' = litter \cup (OnlyOf(o, P) \cap stored)
    /\ torn' = torn \ OnlyOf(o, P)
    /\ bereft' = bereft \ OnlyOf(o, P)

\* A mail goes with the rows it has by now.
DeleteRow(x) ==
    /\ transfer[x].kind = "unlink"
    /\ IF transfer[x].whole
       THEN /\ Unlinked(transfer[x].owner, FilesOf(transfer[x].owner))
            /\ owners' = owners \ {transfer[x].owner}
       ELSE /\ Unlinked(transfer[x].owner, transfer[x].paths \cap FilesOf(transfer[x].owner))
            /\ UNCHANGED owners
    /\ Finished(x)
    /\ UNCHANGED <<born, sent, resting, stored, used, face>>

\* deleteCard, deleteProject: the rows go, the objects stay.
DeleteOwner(o) ==
    /\ o \in owners /\ OwnerKind[o] # "mail"
    /\ owners' = owners \ {o}
    /\ Unlinked(o, FilesOf(o))
    /\ UNCHANGED <<born, sent, resting, stored, used, face, transfer>>

\* duplicateCard, asked to take the attachments along, reads the card with them.
BeginCopy(x, o) ==
    /\ o \in owners /\ OwnerKind[o] = "card"
    /\ Begin(x, [kind |-> "copy", paths |-> FilesOf(o)])
    /\ UNCHANGED <<owners, born, sent, rows, texts, resting, stored, used, face, torn, bereft, litter>>

\* The copy takes over the paths it read, not the objects.
WriteCopy(x, o) ==
    /\ transfer[x].kind = "copy"
    /\ o \notin born /\ OwnerKind[o] = "card"
    /\ owners' = owners \cup {o} /\ born' = born \cup {o}
    /\ rows' = rows \cup (transfer[x].paths \X {o})
    /\ bereft' = bereft \cup (transfer[x].paths \ stored)
    /\ Finished(x)
    /\ UNCHANGED <<sent, texts, resting, stored, used, face, torn, litter>>

\* updateDraft
SendMail(o) ==
    /\ Open(o) /\ OwnerKind[o] = "mail"
    /\ sent' = sent \cup {o}
    /\ UNCHANGED <<owners, born, rows, texts, resting, stored, used, face, transfer, torn, bereft, litter>>

\* getDocumentText: the text is extracted when first asked for, and again only
\* a while after it failed.
ReadText(x, p) ==
    /\ \E o \in Owners : <<p, o>> \in rows /\ OwnerKind[o] = "project"
    /\ p \notin texts \cup resting
    /\ Begin(x, [kind |-> "read", path |-> p])
    /\ UNCHANGED <<owners, born, sent, rows, texts, resting, stored, used, face, torn, bereft, litter>>

TextRead(x, ok) ==
    /\ transfer[x].kind = "read"
    /\ LET p == transfer[x].path
       IN IF ok /\ p \in stored
          THEN texts' = (IF HasRow(p) THEN texts \cup {p} ELSE texts) /\ UNCHANGED resting
          ELSE resting' = resting \cup {p} /\ UNCHANGED texts
    /\ Finished(x)
    /\ UNCHANGED <<owners, born, sent, rows, stored, used, face, torn, bereft, litter>>

RetryAllowed ==
    /\ resting # {} /\ resting' = {}
    /\ UNCHANGED <<owners, born, sent, rows, texts, stored, used, face, transfer, torn, bereft, litter>>

----------------------------------------------------------------------------
(* Avatars.                                                                *)

\* uploadAvatar reads the avatar there is, and uploads the new one.
UploadAvatar(x) ==
    /\ Unused /\ used' = used \cup {NewPath}
    /\ Begin(x, [kind |-> "portrait", old |-> face, new |-> NewPath])
    /\ UNCHANGED <<owners, born, sent, rows, texts, resting, stored, face, torn, bereft, litter>>

AvatarUploaded(x, ok) ==
    /\ transfer[x].kind = "portrait"
    /\ IF ok
       THEN /\ stored' = stored \cup {transfer[x].new}
            /\ transfer' = [transfer EXCEPT ![x].kind = "show"]
       ELSE Finished(x) /\ UNCHANGED stored
    /\ UNCHANGED <<owners, born, sent, rows, texts, resting, used, face, torn, bereft, litter>>

\* setPresetAvatar
SetPresetAvatar(x) ==
    /\ Begin(x, [kind |-> "show", old |-> face, new |-> NoFace])
    /\ UNCHANGED <<owners, born, sent, rows, texts, resting, stored, used, face, torn, bereft, litter>>

\* Who overwrites an avatar it never saw leaves its object behind.
Shown(x, old, new) ==
    /\ face' = new
    /\ litter' = IF face # old THEN litter \cup ({face} \cap stored) ELSE litter
    /\ torn' = torn \ {face}

ShowAvatar(x) ==
    /\ transfer[x].kind = "show"
    /\ Shown(x, transfer[x].old, transfer[x].new)
    /\ IF transfer[x].old = NoFace THEN Finished(x)
       ELSE transfer' = [transfer EXCEPT ![x].kind = "clear"]
    /\ UNCHANGED <<owners, born, sent, rows, texts, resting, stored, used, bereft>>

\* Mutant: the avatar is read again after the update.
MutantClearOld(x, ok) ==
    /\ transfer[x].kind = "clear"
    /\ stored' = IF ok THEN stored \ {face} ELSE stored
    /\ Finished(x)
    /\ UNCHANGED <<owners, born, sent, rows, texts, resting, used, face, torn, bereft, litter>>

ClearOld(x, ok) ==
    /\ transfer[x].kind = "clear"
    /\ stored' = IF ok THEN stored \ {transfer[x].old} ELSE stored
    /\ litter' = IF ok THEN litter \ {transfer[x].old} ELSE litter \cup {transfer[x].old}
    /\ Finished(x)
    /\ UNCHANGED <<owners, born, sent, rows, texts, resting, used, face, torn, bereft>>

\* removeAvatar: here the object goes first.
RemoveAvatar(x) ==
    /\ Begin(x, [kind |-> IF face = NoFace THEN "hide" ELSE "erase", old |-> face])
    /\ UNCHANGED <<owners, born, sent, rows, texts, resting, stored, used, face, torn, bereft, litter>>

Erase(x, ok) ==
    /\ transfer[x].kind = "erase"
    /\ stored' = IF ok THEN stored \ {transfer[x].old} ELSE stored
    /\ transfer' = [transfer EXCEPT ![x].kind = "hide"]
    /\ UNCHANGED <<owners, born, sent, rows, texts, resting, used, face, torn, bereft, litter>>

HideAvatar(x) ==
    /\ transfer[x].kind = "hide"
    /\ face' = NoFace
    /\ litter' = litter \cup ({face} \cap stored)
    /\ torn' = torn \ {face}
    /\ Finished(x)
    /\ UNCHANGED <<owners, born, sent, rows, texts, resting, stored, used, bereft>>

----------------------------------------------------------------------------
\* A request stops: its process ends, or a query of it fails.
Stop(x) ==
    /\ transfer[x] # Ready
    /\ Finished(x)
    /\ torn' = IF transfer[x].kind = "unlink"
               THEN torn \cup {p \in transfer[x].paths \ stored : HasRow(p)}
               ELSE IF transfer[x].kind = "hide" THEN torn \cup ({transfer[x].old} \cap ({face} \ (stored \cup {NoFace})))
               ELSE torn
    /\ litter' = IF transfer[x].kind = "row" THEN litter \cup {transfer[x].path}
                 ELSE IF transfer[x].kind = "show" THEN litter \cup ({transfer[x].new} \cap stored)
                 ELSE IF transfer[x].kind = "clear" THEN litter \cup ({transfer[x].old} \cap stored)
                 ELSE litter
    /\ UNCHANGED <<owners, born, sent, rows, texts, resting, stored, used, face, bereft>>

FilesInit ==
    \* Owners of two kinds share nothing but the paths, and of a kind any will do.
    /\ owners \in {{}} \cup {{o} : o \in {q \in Owners : q = CHOOSE f \in Owners : OwnerKind[f] = OwnerKind[q]}}
    /\ born = owners /\ rows = {}
    /\ sent = {} /\ texts = {} /\ resting = {} /\ stored = {} /\ used = {}
    /\ face = NoFace
    /\ transfer = [x \in Transfers |-> Ready]
    /\ torn = {} /\ bereft = {} /\ litter = {}

FilesNext ==
    \/ \E x \in Transfers :
        \/ \E o \in Owners :
            \/ Upload(x, o) \/ BeginCopy(x, o) \/ WriteCopy(x, o)
            \/ \E P \in SUBSET Paths : BeginDelete(x, o, P)
        \/ \E p \in Paths : ReadText(x, p)
        \/ \E b \in BOOLEAN : Uploaded(x, b) \/ WriteRow(x, b) \/ RemoveObjects(x, b) \/ TextRead(x, b)
        \/ DeleteRow(x) \/ Stop(x)
    \/ \E o \in Owners : DeleteOwner(o) \/ SendMail(o)
    \/ RetryAllowed

AvatarNext ==
    \E x \in Transfers :
        \/ UploadAvatar(x) \/ SetPresetAvatar(x) \/ RemoveAvatar(x) \/ ShowAvatar(x) \/ HideAvatar(x) \/ Stop(x)
        \/ \E b \in BOOLEAN : AvatarUploaded(x, b) \/ ClearOld(x, b) \/ Erase(x, b)

----------------------------------------------------------------------------
(* Properties.                                                             *)

TransferTypes ==
    {Ready}
    \cup [kind : {"upload", "row"}, path : Paths, owner : Owners]
    \cup [kind : {"remove", "unlink"}, paths : SUBSET Paths, owner : Owners, whole : BOOLEAN]
    \cup [kind : {"copy"}, paths : SUBSET Paths]
    \cup [kind : {"read"}, path : Paths]
    \cup [kind : {"portrait", "show", "clear"}, old : Paths \cup {NoFace}, new : Paths \cup {NoFace}]
    \cup [kind : {"erase", "hide"}, old : Paths \cup {NoFace}]

\* Types; rows go with their owner, and requests at once pass the limit by one
\* file each, no further.
FilesTypeOK ==
    /\ sent \cup born \subseteq Owners /\ owners \subseteq born
    /\ rows \subseteq used \X owners
    /\ texts \subseteq {p \in Paths : HasRow(p)}
    /\ stored \cup resting \cup torn \cup bereft \cup litter \subseteq used
    /\ used \subseteq Paths
    /\ face \in used \cup {NoFace}
    /\ \A x \in Transfers : transfer[x] \in TransferTypes
    /\ \A o \in Owners : Cardinality(FilesOf(o)) <= MaxFiles + Cardinality(Transfers) - 1

\* What names a path: an owner by its row, or the profile.
Named == rows \cup {<<p, NoOwner>> : p \in {face} \ {NoFace}}

\* The names whose object a request has taken, and that it will take next.
Leaving ==
    UNION {IF transfer[x].kind = "unlink" THEN transfer[x].paths \X {transfer[x].owner}
           ELSE IF transfer[x].kind = "hide" THEN {<<transfer[x].old, NoOwner>>} ELSE {} : x \in Transfers}

\* Paths a request has yet to write the row of, or to take the object of.
Handled ==
    UNION {CASE transfer[x].kind = "row" -> {transfer[x].path}
             [] transfer[x].kind = "show" -> {transfer[x].new}
             [] transfer[x].kind = "clear" -> {transfer[x].old}
             [] transfer[x].kind \in {"remove", "unlink"} -> transfer[x].paths
             [] OTHER -> {} : x \in Transfers}

\* card-attachment, project-document, mail and avatar services: what a row or a
\* profile names is in the storage, unless a request that removes this row is
\* halfway or stopped there, or the object went with the row of another card,
\* copied from this one or this from it; and what is in the storage has a name or
\* a request at work on it, unless it is one of the leftovers the history names:
\* of a request that stopped, an owner deleted, a removal that failed, or an
\* avatar overwritten by a request that had not seen it.
FilesBacked ==
    /\ \A n \in Named : n[1] \in stored \cup torn \cup bereft \/ n \in Leaving
    /\ stored \subseteq {n[1] : n \in Named} \cup Handled \cup litter

\* schema.prisma:852-854 ("gercek bayt ... bucket'inda durur (storagePath); bu satir
\* sadece metadata tutar"): the bytes of a row are in the storage, unless a
\* request that removes the row is halfway or stopped there.  It is not so: a
\* copied card names the objects of the card, and each removes them as its own.
BytesBehindRows == \A n \in Named : n[1] \in stored \cup torn \/ n \in Leaving
=============================================================================
