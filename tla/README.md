# A formal model of quantro-backend

quantro-backend is the server of a Kanban board: a Next.js API over Postgres
(Prisma) and a Socket.IO server for live boards, in one Node process.  This
directory models the parts of it in which several actors work on the same
state, checks the models with TLC and proves what matters most with TLAPS.

The program has one recurring pattern and one recurring hazard.  A service
function is a chain of awaited queries, mostly without a transaction around
them: it reads, checks what it read, and writes later.  Between two awaits
anything else may happen, in the same process or in the database.  Every module
here therefore splits a handler at its awaits, wherever the answer can change
in between, and keeps what the handler read in a record of the request.

## Inventory

Paths are relative to `src/src/` unless they say otherwise.

| Component | State | Operations | What is hard | What makes it correct |
|---|---|---|---|---|
| Cards (`services/card`, `card-move`) | rows of Card: column, number, labels, position, parent | create, copy, update and move, relocate to another project, archive, delete | checks on a card that moves before the write; relocation in five separate queries | a card sits in an existing column; it shows a key that was given to it; its labels are of its project |
| Card keys (`card-key`) | Project.cardCounter | next number, block of numbers, find by key | the counter is not in one transaction with the card | no number given twice |
| Columns, labels (`column`, `label`, `column-transition`) | Column, Label, CardLabel rows | create, delete (with the cards), attach, detach, transition rules | cascades under requests in flight | no card without a column |
| Bulk actions (`bulk-card`), import (`import`) | the same rows | checked list, then one statement; one transaction | the list is stale when it is used; the import reads its cards back by number | a delete stays in its project; an import is all or nothing |
| Automation (`automation`), GitHub events (`github-webhook`) | rules; deliveries seen | run rules after a creation or a move; move a card named by its key | system moves race with those of people; a repeated delivery | automatic moves never leave the project |
| Change requests (`change-request`) | ChangeRequest rows | create, approve with an amended payload, refuse | two admins at once; a change that fails half way; the target is deleted | one verdict; carried out once, as decided; the member is told the truth |
| Presence (`server/socket.ts`) | two maps in memory; badges on the boards | report of a file, clear, disconnect, sweep | an await inside the report; several sockets of a user; events that end a conflict | the maps agree; no ghosts; the badges are the conflicts |
| Rooms and sessions (`server/socket.ts`) | Socket.IO rooms, lists per socket | join, leave, evict, session sweep | a membership that ends while a join awaits its check | rooms follow memberships |
| Membership and access (`organization`, `project`, `access-control`) | members, project members, invitations | invite, accept, decline, remove, leave, change role, grant, change visibility | two answers to one invitation; removal against addition; one rule written three times | a project member is a member of the organisation; the three forms of the rule agree |
| Dependencies, parents, field values (`dependency`, `card`, `custom-field`) | edges between cards, parent links, values | add, remove, relocate | the cycle check is not atomic with the insert; a relocation leaves links behind | no cycles; links stay inside a project |
| Daily digest (`services/digest`, `lib/cron.ts`, `.github/workflows`) | User.lastDigestSentAt | run from two triggers | overlapping runs; failure after the claim | one digest a day, and a failure leaves the day to the next run |
| Idempotency (`middleware/idempotency.ts`) | records in memory | check, clear, fail, sweep | retries, late timers | one request per key at a time |
| Rate limits (`middleware/rateLimit.ts`, `cronTriggerLimit.ts`) | counters in memory | count, lock, reset, sweep | the boundary of the window; logins under way when the lock falls | at most max per window |
| Outgoing webhooks (`webhook`) | deliveries in flight | send, retry with a pause, delete | duplicates, lost answers, giving up, restarts | the row says what happened |
| Notifications, watchers, comments, nightly scan (`notification`, `watcher`, `comment`, `scan`) | rows | comment, mention, watch, notify once, mark read | scans that overlap | one unread notification per card, and per wording of the warning about a column |
| Authentication, API tokens, profile (`auth`, `api-token`, `github`) | accounts, links, tokens, cache of users | register, verify, reset, revoke, synchronise | links used once; hashing between read and write; a cache of 30 s | a reset is final; what the user wrote stays |
| Attachments, avatars, documents (`card-attachment`, `avatar`, `project-document`) | objects in a storage, rows that name them | upload, replace, delete, extract text, copy with the card | two stores without a common transaction | no row without its object, but for copied cards, which share objects |
| Mail (`mail`) | mails between members | draft, edit, send, reply, discard | a draft edited and sent at once | each recipient is told once |
| AI assistant (`ai`) | nothing between requests | chat with tools, details, insights, analysis of a push | retries, rate limits and timers around tools that change the project | what was reported done is not done again |
| Everything else | | export, search, dashboards, insight, roadmap, chat, templates, time log, badges, saved views, routes | | rows of one owner, reads, formatting |

Interaction: routes call services; services call each other directly (change
requests call the card service, card services call automation, automation and
GitHub events share `card-move`), broadcast through the Socket.IO server kept in
a global, and meet in the database.  Cron and an outside workflow start the
digest and the scan.

## Modules

| Module | Models | Run |
|---|---|---|
| `Cards` | cards, keys, labels, columns, bulk actions, import, automation, GitHub moves | `MCCards`, `CardKeys.cfg` |
| `CardsProofs` | theorems about `Cards` | proved |
| `Decisions` | abstract: what a review promises | refined by `ChangeRequests` |
| `ChangeRequests` | change requests | `MCChangeRequests`, `ReviewsTwice.cfg` |
| `ChangeRequestsProofs` | theorems about `ChangeRequests`, and that it implements `Decisions` | proved |
| `Presence` | presence map, conflict badges | `MCPresence`, `PresenceLive.cfg`, `PresenceBadges.cfg` |
| `PresenceProofs` | theorems about `Presence` | proved |
| `Digest` | daily digest | in `Server` |
| `DigestProofs` | lemmas about the digest, for `ServerProofs` | proved |
| `Membership` | members, roles, grants, invitations, visibility, the rule of visibility | with `Rooms` |
| `Rooms` | connections and rooms; extends `Membership` | `MCRooms` |
| `RoomsProofs` | theorems about `Membership` and `Rooms` | proved |
| `Intake` | idempotency records, rate limits, the lock of an account | in `Server` |
| `Accounts` | account, links, tokens, profile | in `Server` |
| `Delivery` | outgoing webhooks, events of GitHub | in `Server` |
| `Assistant` | one request to the assistant | in `Server` |
| `Server` | these four and `Digest` | `MCServer`, `DigestLost.cfg` |
| `ServerProofs` | theorems about `Server` and its parts | proved |
| `Graph` | dependencies, parents, field values | in `Upkeep` |
| `Notices` | comments, mentions, watchers, nightly scan | in `Upkeep` |
| `Files` | attachments, documents, avatars | in `Upkeep` |
| `Mailbox` | mail | in `Upkeep` |
| `Flow` | column rules, automation, what the boards show | in `Upkeep` |
| `FlowProofs` | lemmas about column rules and boards, for `UpkeepProofs` | proved |
| `Upkeep` | the five above | `MCUpkeep`, `CopiedFiles.cfg` |
| `UpkeepProofs` | theorems about `Upkeep` and the five parts of it | proved |

`Server` and `Upkeep` put together components that share no state.  Their
variable `busy` names the part that is at work in a behaviour: a step of one part
neither reads nor writes anything of another, so interleaving two of them would
show nothing but products of their states.  Inside a part every interleaving of
its requests is there.

An operator named `Mutant...` is a faulty form of the operator after it, for
checking that a property can fail; no specification uses one.

### Cards

A request is a record: an operation, a phase, the card it read, the column it
goes to, the project it was checked for, the number it was given and the labels
it computed.  Each `...Read` or `...Check` action is a handler up to its last
check, each `...Write` the write that follows.  `createCard` is `CreateCheck`,
`AllocateNumber`, `CreateWrite` and then the rules of the project (`RuleMove`,
`RuleLabel`, `SystemWrite`); `moveCardToProject` is `RelocateRead`,
`RelocateUntag`, `RelocateRetag`, `AllocateNumber`, `RelocateWrite`; the import is
one action, because it is one transaction.  `Stop` ends a request anywhere: an
error, a lost connection or a restart.  Four history variables say what the rows
do not: `held`, every number ever given to a card; `crossed`, the cards on which
a relocation met another request; `torn`, the cards whose relocation stopped
after relabelling; `begun` bounds the behaviours.

`NumbersNeverReused` holds without exception.  `KeysIssued`, `LabelsAtHome`,
`KeyPermanent` and `DeletesWhereChecked` hold for every card that is not crossed,
and the exception is needed: the run `card_keys` shows two cards with one key after
a write of `updateCard` met a relocation.  Queries whose answer cannot change
are taken together with the read before them.  Positions, assignees, archiving,
parents, custom fields and the transition rules are left out: no modelled
decision depends on them, except that a transition rule may refuse a move, which
`Stop` covers.

### ChangeRequests and Decisions

A review is one call of `approveRequest` or `rejectRequest` with the payload it
read.  The conditional updates are single actions; applying the change is split
where it takes effect (`Apply`), so that it may fail before or after (`Throw`),
and the catch puts an approved request back (`Rollback`).  `DeleteCard` is any
other deletion of the target; by cascade the requests about the card go with it.
`Decisions` is the promise: a request is open until one verdict stands.  The
mapping counts a request as open while a review holds it, because the failure of
that review reopens it.

### Presence

`presence` and `lastFile` are the two maps, and every function that changes them
is an operator on maps, so that a handler which clears, prunes and writes in one
go is one action.  The report awaits the access check: `ReportFile` and `Handle`
are its two halves, and the socket may be gone in between.  Age counts ticks since the
last report.  `badges` is what the boards show, from the events sent.  The
history variables name what the code does not cover: `late` reports of sockets
that are gone, `missed` badges whose conflict ended without an event, `taken`
badges that were taken back while the conflict lasts.

### Digest

A run takes its `now`, lists the users with their marks, claims each with a
conditional update, sends, and on failure puts back the mark it listed.  Each
run takes one tick, so the `now`s of two runs differ, as milliseconds do.  A
mail may be out although sending it failed (`doubtful`).

### Membership and Rooms

A call of `organization.service` or `project.service` checks and later writes; what it
has checked is its record in `call`, and each write is a step.  Three writes are
followed up on the connections: eviction after a removal, revalidation after a
change of role or visibility, dissolution after the end of a project.  `Rooms`
carries them out socket by socket, with the query for the card rooms after each,
while sockets shake hands, ask to enter (`asked`: the check has passed, the join has
not happened), leave and disconnect.  `stray` names the places that no follow-up
takes away, by the way they came about: the end of a membership that a join or a
handshake was past; and a follow-up that finds users by the room they are in
(`revalidateProjectRoom`), when an eviction takes the user's first connection out of that
room before it comes to it, and a second connection has the project in its list only.  `OneRule` compares the three forms of the
rule of visibility in `access-control.service.ts` in every state that calls lead to.

### Intake, Accounts, Delivery, Assistant

`Intake` has a clock of ten-second ticks; sweeps and delayed deletes are timers that
run before anything else of their tick, requests take as long as they like.
`Accounts` splits an operation at the hash, the query or the answer of GitHub it
awaits.  `Delivery` has two halves: a worker per delivery, whose message may arrive
although the answer is lost and whose process may stop, and handlers of GitHub
events that may come twice and at once.

`Assistant` follows one request.  A reply of the provider is text, an error, a
rate limit, a failure, or a set of tool calls; tools run in batches, in any order
inside one, and neither the timer nor anything else stops them.  `memory` is the
history kept between rounds and `sees` what the call under way was given: they
differ when `callWithRetry` repeats a call with the messages the chat began with.
`DoneOnce` holds but for that case (`forgot`), under one assumption about the
provider, which is external: it does not ask again for what it is shown to be
done.  A tool that throws after its write is reported as failed and may be asked
for again; the property does not count it as done.

### Graph, Notices, Files, Mailbox

`Graph` follows the cycle check query by query, while other requests write:
`late` names the links whose check was overtaken, and without them there are no
cycles.  `LinksAtHome` leaves out the links of cards that were ever relocated.

`Notices` has two scans at once and comments between them; `doubled` names what both
were about to tell.  What was told is found again as `notifyOnce` does it: about a card
by the card, whatever the message says; about a column, which a notification cannot
name, by its message, and that carries the project's and the column's name and the
limit.  `Reword` changes title, name or limit at any time.  So `NotifiedOnce` promises one unread
notification about a card, and for a column only one of each wording: a column that is
renamed, or whose limit changes, while it is too full is warned of a second time.  That
is what the code does; the comment at `scan.service.ts:12-16` explains it for cards and
keeps the comparison of messages for the rest.  There is one column in the model:
two columns whose names and limits agree, in projects of one name, suppress each
other's warnings in the code.

`Files` has an object store and rows, written one after the other by requests that may
stop in between; `torn` and `litter` name what they leave.  A row is a path and an owner,
for several rows may name one path: `duplicateCard` reads a card with its attachments
and writes rows for the copy that name the same objects (`BeginCopy`, `WriteCopy`).  A
deletion of an attachment removes the object whoever else names it.  `bereft` names the
objects that went this way while another row named them, or that were gone when a copy
took their paths over; `FilesBacked` excepts them, and `BytesBehindRows`, without the
exception, is violated (`copied_files`).  Documents, mails and avatars are not copied.

In `Mailbox` a draft is claimed by a conditional update; an edit that
does not send checks the draft only at its beginning (`overwritten`).

### Flow

A request is a list of calls of `updateCard` (one for a person, several for a bulk
action or an analysed push) or a move of the system.  Each call reads the row and
checks the rules of the column, writes, sends `CARD_MOVED`, runs the automation
rules, reads the row again and sends `CARD_UPDATED`: a phase each, with other
requests in between.  `fresh` says that nothing the check depends on has changed
since, `current` that nobody wrote the row since this request read it.
`GatesKept` says that a card enters a column against its rules only when an admin
forces it or the check was overtaken; `BoardsCatchUp` that the boards show the row
once requests are done, unless the last event was sent from an overtaken reading
or its request failed before it (`blurred`).  Creation does not check the rules of
its column in the code, and is not an action here; the rules of `MCUpkeep` move and
assign, one after the other on the same card.

## Runs and bounds

| Run | Bounds | Why they are enough |
|---|---|---|
| `cards` | 2 projects, 3 columns, 2 labels of one name, 2 cards, 2 requests at once, 4 begun, 2 numbers per project, imports of 2 | every hazard listed is a race of two requests on one card; four requests are a creation, a deletion or move, and two that race |
| `change_requests` | 2 requests, 1 card, 2 reviews at once, 4 begun | two reviewers meet; the two requests may share the card; a failed review can be followed by others |
| `presence` | 3 users, 4 sockets (one user has two), 2 files, 2 cards, TTL of 2 ticks, 4 reports | a third user and a second editor are needed for `taken` and `missed`; with two ticks fresh and stale entries stand side by side |
| `presence_live` | 2 users, 3 sockets, 3 reports, no symmetry | each entry ages and is swept; other entries do not matter to it |
| `rooms` | a founder and a member, 1 project, 1 card, 2 invitations, 2 calls at once, 2 sockets, 3 calls or connections begun, 1 request to enter | a removal, what it meets, and a socket that enters meanwhile; the places of a socket are checked one by one |
| `gate` | `Intake`: 2 requests, 1 key, 1 caller, window of 4 ticks, 3 calls, 2 failures, 7 ticks; `Accounts`: 2 jobs, 2 links, 3 tokens of which 1 may be active, 1 text, 2 languages of which 1 may be kept; `Delivery`: 2 webhooks, 1 event, 3 tries; 1 event of GitHub with 2 tickets, 2 handlers; `Assistant`: 3 wishes, 1 of them for admins, batches of 2, 3 rounds, 2 attempts; `Digest`: 1 user, 3 runs at once, 2 days of 3 ticks, 4 runs begun | two requests race on one record, link, token or event; a window is seen to end and begin anew; a reply can exceed a batch, and a chat its rounds; runs of the digest share only the mark of a user |
| `upkeep` | `Graph`: 3 cards, 2 projects, 2 requests, 2 links, 1 relocation; `Notices`: 2 people, 2 wordings, 3 comments, 1 request, 2 scans at once of 3; `Files`: 3 paths, 4 owners (a project, a mail, a card and its copy), 2 requests, 1 file an owner; `Mailbox`: 3 members, 2 mails, 2 requests; `Flow`: 2 cards, one waiting for the other, 2 columns, 1 person, 3 automation rules, 2 requests begun | three cards make a cycle two edges can close at once; two requests race on one draft, avatar or card, and a request meets the rules it sets off; a warning is told in one wording and looked up in the other; a card, its copy and a file of both are enough to share an object, and a second request meets the copying |

Symmetry is used where a specification treats the members of a set alike, and
never with liveness.  `CHECK_DEADLOCK FALSE` throughout: every model stops when
its bound on requests, reports or time is used up, and a real system may idle.

The runs that find a violation document five disagreements between a
comment or a document and the code; `PROJECT.json` quotes them: `card_keys`,
`reviews_twice`, `presence_badges`, `digest_lost`, `copied_files`.

In `gate` the numbers of the code (5 tool calls in a batch, 4 rounds, 10 tokens, 20
languages, windows of minutes) are constants with small values; the modules only
compare against them.

Fairness is assumed only in `presence_live`: weak fairness of `Tick` (time
passes) and of `Sweep` (`setInterval` keeps firing while the process lives).
Nothing is assumed of clients.

## Proofs

`CardsProofs` proves, for every set of projects, columns, labels, cards and
requests and every bound, that `Spec` implies each property of `Cards` the run
`cards` checks.  The assumptions are those of `CardsAssumption`: columns and
labels belong to projects, `None` is no element, `CardIds` is finite (for the
cardinality of an import).  No property is inductive by itself:

- `TypeOK` needs `Shape`: what a request carries in each phase (a write has a
  card, a column and that column's project).
- `NumbersNeverReused` needs `NumberInv`: numbers given lie at or below the
  counter, so do the numbers pending in requests, which nobody holds and which
  differ from each other.
- `KeysIssued` and `KeyPermanent` need `KeyInv`: what a request in flight knows
  of its card.  Unless the card is crossed it is still in the project the
  request was checked for, and a relocation is alone on it.
- `LabelsAtHome` needs `LabelInv`: the labels a request carries are of the project they
  are for, and a card being relocated bears no others.

`Inv` is the conjunction; `Invariance` is `Spec => []Inv`, and each theorem
follows from it.  The invariant was first checked by TLC on the bounds above.

`ChangeRequestsProofs` proves the invariants of `ChangeRequests` and that `Spec` implements
`Decisions`, from `ReviewsAssumption` alone (`None` is no request and no card).
What a run checks after the fact needs what reviews know on the way:

- `Holders`: a request is claimed by one review, and the row says so.  This is
  what the conditional update buys, and every other part uses it.
- `Effects`: a claim finds a request that was not carried out yet.
- `Settlements`: what the member has been told, or is about to be, is held by
  nobody any more; so no failure can take it back.  `ToldTheTruth` follows.
- `Agreement`: until a request is reopened, a review that read its payload agrees
  with the row.  `RecordedAsApplied` follows.

For the refinement, `Decided` of a request is its verdict, or open while a review
holds it.  A step keeps each verdict or gives one; only `Refuse`, `Finish`, `Stop` and
deletions do the latter.

`PresenceProofs`: the four invariants are inductive together.  Every handler is made of
two pieces, a removal from the map and the writing of an entry; one lemma for each says
which conflicts begin and which end, and `UpdateShows` that the boards follow.

`DigestProofs`: `Holding` says that a run which has claimed a user is the one whose mark
stands, that nobody else has settled its day, and that what was settled before is no
later than the mark it replaced; `HoldersApart` that two runs hold a user only on
different days.  `OncePerDay` follows, because what went out was settled (`Sent`).
That days are ordered like times is a lemma on `\div`.  The theorems are in `ServerProofs`.

`RoomsProofs` has three invariants, each on top of the one before.  `OrgInv` says
what a call carries from its check to its write, and (`Unanswered`) that an open invitation
has brought nobody in; with it each deletion of a membership is followed through the grants:
either the call deletes them too, or the grant came by a call that is named in the
exception.  `TypesInv` adds which fields a call and its follow-up have in each phase.
`AccessInv` adds to `RoomsFollowAccess` that a place on its way is open to its user
(`ComingSafe`) and that of a deleted project none is held (`LiveHeld`), or it is a stray.
The proof found what TLC's bounds did not hold: `RoomsFollowAccess` was first stated
without the second exception described under "Membership and Rooms", and with two
connections of a member, an eviction and a revalidation 17 steps break it.  The
code is at `server/socket.ts:1016-1065`.  `OneRule` needs no induction: the three
forms are equivalent whatever the tables hold.

`ServerProofs` and `UpkeepProofs` state results about whole servers.  The parts share
no variable, so a step of the server is a step of a part or leaves the part alone,
and an invariant of the part is one of the server.  Those of `Server`:

- Idempotency: `Guarded`, that the record of the request at work on a key stays
  as it is until that request ends or a sweep takes it, which keeps others out.
- Limits (`LimitsInv`): what a window let through was counted (`PassedCounted`), and
  failures plus logins under way exceed the lock by less than the number of requests
  (`LockHolds`: logins that began before it fell are not stopped).
- Accounts: `SpentIsOver`, that no reset follows a link that is spent; `SyncKnows`,
  that a synchronisation no edit has crossed knows what the user wrote; `OwnerInv`, that
  there is an account, and tokens, languages and resets are within their limits.
- Outgoing webhooks: `RowFits` and `RowTrue`, that a delivery starts once and its worker
  alone writes its row, until one of its tries is heard.
- GitHub events: `Alone` and `Recorded`, that the record of an event lets one handler
  through; `MovedOnce` and `MeantIsBound`, that the handler takes each ticket once and
  leaves none.
- Assistant: `Shown`, that the call under way was given all there is in memory unless
  it was repeated, and `Fresh`, that what is asked for is not in memory; `Paid`, what
  the rounds so far can have cost.  The provider is assumed not to ask for what
  it is shown to be done.

Those of `Upkeep`:

- Flow: `Allowed`, that a request about to write goes by a check that is still true,
  or is marked as overtaken, and every step that changes what a check read marks those
  who go by it; `CatchInv`, that what an event is about to show is the row, or its
  request knows that another wrote since.
- Mail: `LetterFits`, that one request at most announces a mail, none while it may
  still be claimed, and that nobody was told before.
- Notifications: `ToldFits`, that who is about to be told of a matter has nothing unread
  about it and is about to be told by one scan; a matter is a card, in whatever words, or
  one wording of the warning about a column.  Neither a rename nor a new limit disturbs
  it, since a scan tells in the words it read and looked for.
- Links: `HomeInv` and `ValuesInv`, that what is being linked was of one project when
  that was checked, and that relocations of a card which meet no writing are one at a
  time.  For cycles, `Frontier` and `Climbed`: what a search has seen is closed under the
  links but for the cards it goes on from; so a search that ends has seen all there is,
  and the link it allows closes nothing.  `NoCycle` speaks of closed sets, not of
  paths, and needs no recursion.
- Files: `FilesInv` and `FaceInv`, that a new path is one request's own until its first row
  is there, that a row without an object is half removed by a request on that row
  (`HalfGone`), torn, or bereft, its object gone with another owner's row of the path or
  before the row was written, and that an object without any row is awaited or litter.

`UpkeepTypesCorrect` says more than types, and so needs invariants of its own, on top of
those above:

- Links: `LateInv`, that a link named in the history `late` is there still; a link that is
  written again or whose card is deleted leaves it.
- Comments: `ThreadsInv`, that an answer has a root that is written and is no answer
  itself, though the request that answers found the root before it inserts.  The root may
  be deleted in between, and the insert fails then, because ids are not used again.
- Mail: `RootsInv`, that a mail keeps its sender and its conversation, and a request is
  about a mail that was written.
- Files: `RowsInv`, that rows go with their owner, that a copy under way carries no more files
  than a card can have and is written for an owner that never was, and (`Fits`) that the files of an owner
  and the requests writing one are together fewer than the limit and all requests; so the
  limit is passed by one file for each further request at most.
- Flow: `LanesInv`, that every column a request or a rule goes to is one of the project.

Their assumptions are those of the modules: limits are positive, `Absent` is no
record, `Stay` is no column, `AdminWishes` are wishes, the given starts are typed, the
time of a digest run has at least one day, and the sets whose members are counted
(requests, jobs, languages, file transfers) are finite; rules move cards to columns of the
project; and `Nobody`, `NoTask`, `NoLetter` and `NoOwner` are none of the users, cards, mails
and owners there are.

Every invariant and every action property the passing runs check is a theorem, and so is the
refinement of `Decisions`.  Checked by TLC only: liveness (`presence_live`), which is beyond
the prover, as it does not handle `ENABLED`.

## Not modelled

- Positions of cards: two moves at once may get the same one, and the order of the
  two is then arbitrary.
- Creation against the rules of its column, and the conditions of automation rules.
- The cache of users in `middleware/auth.ts` (30 s): bounded staleness.
- When the sweep of sessions comes round: what it drops, with an expired token or an
  account that is gone, is a `Disconnect` of `Rooms`, which may happen at any time.
- The free project key (`card-key.service.ts:72`): the database refuses the second
  project with it.
- Chat, templates, time log, badges, saved views: rows of one owner, written in one
  query.
- Exports, search, dashboards, insight, roadmap, activity: reads and formatting.
- Prompts, the context of the board and the parsing of texts in `ai.service.ts`;
  extraction of text and compression of images: pure conversions.
- Routes and validation: one service call each.

## Plan

To model: `Rooms` with a third user, so that the owner of a project and its founder differ;
several columns in `Notices`; positions of cards.
