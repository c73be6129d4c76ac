# A verification of threema-beeper

The service bridges one Threema profile to Matrix (Beeper). This directory holds TLA+
specifications of the parts in which the order of events, crashes and late answers
decide whether a message is lost, doubled or misplaced; TLC configurations that check
them on small instances; and proofs, checked by TLAPS, of safety properties of six of
them for every value of the constants.

    tlc -workers 2 -config MCTextOutbox_safety.cfg MCTextOutbox
    tlapm TextOutboxProofs.tla

## 1. The system

One process owns a Threema profile. It holds encrypted SQLite databases and runs loops
("pumps") over them; Threema Desktop's own code runs in a worker thread behind a message
port. A script on the host makes backups of both.

| component | state it keeps | operations | talks to | module |
|---|---|---|---|---|
| transaction server and inbox (`matrix/transaction-*.ts`, `native-transaction.ts`) | tables `transactions`, `events`; crypto store | `accept`, `recordAttempt`, `complete`, `acknowledgeEvent`, `predecessorsPermit` | homeserver (HTTP), all consumers of events | TransactionInbox |
| source order and ingress (`outbox/source-order.ts`, `matrix-ingress.ts`, `reaction-ingress.ts`, `unsupported-notices.ts`, `reply-target.ts`, `reaction-target.ts`) | cursors in memory | classify an event: queue it, refuse it, wait | inbox, outbox database | SourceOrder |
| text outbox (`outbox/store.ts`, `worker.ts`, `dispatcher.ts`, `echo.ts`) | tables `requests`, `parts`, `rejections` | `prepare`, `reorderPrepared`, `claim`, `recordIds`, `sent`, `unknown`, `observe`, `recoverInterrupted` | backend thread | TextOutbox |
| media outbox (`outbox/media-*.ts`) | tables `media_requests`, `media_parts`, `media_replies`; prepared files | the same life cycle for an attachment and for the text quote before it | backend thread, spool | MediaOutbox |
| reactions (`outbox/reaction-*.ts`, `matrix/reaction-delivery.ts`) | tables `reaction_*` of the outbox database, `reactions` of the portal store | plan, claim, recover, announce, retire; add and remove a projected event | backend thread, homeserver | Reactions |
| edits and deletions (`outbox/mutation-*.ts`, `echo.ts`, `matrix/message-delivery.ts`, `deletion-delivery.ts`) | tables `mutation_*`, `message_projections`, `message_versions`, `message_deletions` | plan, claim, recover, announce; tell an echo from a change of the phone | backend thread, homeserver | Mutations |
| message journal and synchronisation (`threema/message-journal.ts`, `reconcile-chat.ts`, `profile-sync.ts`, `matrix/journal-delivery.ts`) | tables `messages`, `changes`, staged history, metadata | stage, commit, upsert, acknowledge, deliver | backend thread, Matrix delivery | ProfileSync |
| backend controller and thread (`threema/backend-controller.ts`, `send-allocation.ts`, `backend-session-router.ts`, `byte-stream.ts`, `node-prepared-files.ts`) | pending requests, ports, registry of prepared files | request and reply, allocation handshake, streams, graceful stop | Threema Desktop | BackendThread |
| service, runtime, supervisor (`service/start.ts`, `profile-runtime.ts`, `process-supervisor.ts`) | the order of what is open | start, close, restart the proxy | all of it | Service, ProcessSupervisor |
| portals, ghosts, management (`matrix/portals.ts`, `ghosts.ts`, `portal-store.ts`, `service/room-state-router.ts`, `management/worker.ts`) | portal store, joined rooms per ghost, saved results | create rooms, reconcile members, answer commands | homeserver | Rooms |
| backup, restore, adoption (`deploy/backup.sh`, `backup/*.ts`) | archives, workspaces, the two profile locks | capture, publish, prune, restore, adopt | host, Docker | Backup |
| operations, media codecs, setup, doctors | single files | sequential work | - | none (section 8) |

What is hard here: events arrive out of order of decryption; several consumers share one
inbox and several dispatchers one order; every check of a room is asynchronous, with a
claim after it; a send cannot be undone and its outcome may be unknown; the process, or
only the backend thread, may die between any two commits; an echo may overtake the
result of its own send; the phone changes the same messages at any time; a snapshot of
history and the live changes after it come by different ways; two managers work on one
room. `PROJECT.json` lists these hazards at their lines with the properties that cover
them.

What makes the components correct:

* inbox: nothing answered is lost, positions never change, what can be decoded is;
* source order: no event of a room enters a journal, or is sent, before its elders are
  classified, or settled; nobody waits for ever on somebody who waits;
* outbox: at most one send, owned before it exists, in order, confirmed only on
  evidence, never doubled in the room;
* media outbox: the same for an attachment and for its quote, the quote first, and every
  prepared file removed or given away exactly once;
* reactions: Threema has the owner's emoji exactly while some event of the owner stands
  for it, and the room shows what Threema has;
* edits and deletions: each carried out at most once, the last one of the owner wins,
  the room ends with what Threema has, a deletion leaves nothing behind;
* message journal: a resynchronisation is all or nothing and loses no live change;
  delivery passes over nothing;
* service: nothing is used after it was closed, a start or a stop that fails anywhere
  releases everything, a claimed file is never removed;
* rooms: one room for a conversation, with the right members; a command is answered
  once, with the result it had;
* backups: an archive is one closed state, what bears its final name is whole, the
  bridge runs again.

## 2. Modules

    AtMostOnceDelivery        what an outbox promises, without its mechanism
      ^ refined by
    TextOutbox                the outbox, its loop, the backend thread, the echo
      MCTextOutbox            instances;  TextOutboxProofs  theorems
      ^ refined, twice, by
    MediaOutbox               attachments with their quotes, spool, dispatcher
      MCMediaOutbox                       MediaOutboxProofs
    TransactionInbox          server, inbox tables, decoding worker
      ^ extended by
    SourceOrder               inbox + text and reaction journals + dispatchers
      MCSourceOrder                       SourceOrderProofs (of both)
    Reactions                 reactions in both directions
      MCReactions                         ReactionsProofs
    Mutations                 edits, deletions in both directions
      MCMutations                         MutationsProofs
    ProfileSync               epochs, journal, delivery
      MCProfileSync                       ProfileSyncProofs
    BackendThread, ProcessSupervisor
      ^ extended by
    Service                   start and end of the whole
      MCService                           HostProofs
    Rooms                     portals, ghosts, `pm` commands
      MCRooms                             RoomsProofs
    Backup                    script, locks, restore, adoption
      MCBackup                            HostProofs

The modules of the second half each hold both sides of a fact that two components share:
an emoji in Threema, the text of a message, a resynchronised conversation, the resources
of the process, a room, the data of an installation.

### TextOutbox

| variables | code |
|---|---|
| `state`, `slot`, `lastSlot`, `deferred` | columns `state`, `sequence` (AUTOINCREMENT), `retry_at` of `requests` |
| `parts`, `observed`, `rejected` | tables `parts` and `rejections` |
| `pc`, `cur`, `halting` | where `OutboxDispatcher.run` / `OutboxWorker.perform` stands, its candidate, `abort.signal` |
| `backend`, `call`, `callIds` | the thread, the one `sendText` call and its allocation handshake |
| `native`, `foreign`, `evidenced` | messages in Threema, and those with a timestamp |
| `journaled`, `changes`, `projected` | `messages` and `changes` of the journal, events made from foreign messages |
| `handed` | history: calls of `sender.send` per request |

The steps follow the awaits of the code. `BeginCheck` picks the candidate, `Claim`,
`CheckFails` and `Decline` are the three ends of the asynchronous preflight, and `Claim`
looks the candidate up again as `claim(expectedId)` does. The handshake is `Allocate`,
`RecordIds` or `RefuseIds`, `ReceiveCommit`, `NativeSend`; the send may fail at every
point of it (`CallErrs`). `BackendDies` is `stopWithError`: pending requests are
rejected first, and the thread goes on until `BackendTerminated`, so a send already
granted can still happen while the row is uncertain. `Crash` loses everything in memory;
`Start` recovers. `EchoObserve` may leave its change unacknowledged: it is delivered
again. `Prepare` takes the events in any order; which order the inbox allows is
SourceOrder's subject.

Left out: the contents of messages and the edit branch of `reconcileOutboundEcho` (they
belong to the mutation journal), the length of the back-off (a row is deferred or not),
multi-part echoes (the code throws on them; recorded identifiers are sets so that the
retained scan, which does handle several, is covered), the binding of the echo in the
portal store.

### MediaOutbox

| variables | code |
|---|---|
| `state`, `slot`, `lastSlot`, `deferred` | columns `state`, `sequence`, `retry_at` of `media_requests` |
| `part`, `quote`, `quoteId`, `observed` | `media_parts`; `state` and identifier of `media_replies`; both `observed` columns |
| `pc`, `cur`, `excluded`, `cleanup` | where `MediaDispatcher.process` stands, its candidate, its set of chats to leave alone, the files whose `discard` failed |
| `spool` | files on disk that were not given to Desktop |
| `backend`, `call`, `callId` | the thread and the one `sendText` or `sendFile` in it |
| `native`, `evidenced` | messages in Threema, and those with a timestamp |

Here too the steps follow the awaits. A pass (`BeginPass`) removes files left over, then
per candidate: `Pick`, the room check and download (`FilePrepared`), the quote if there
is one (`SendQuote`, `QuoteReturns`, `QuoteFails`, or `QuoteUnsent` when the connection
is gone), the second check and `Claim`, which looks the candidate up again, then the
send. Every way out before the send ends in `Discard`, which removes the file or fails
and remembers it. `QuoteEcho` and `FileEcho` are `observeReply` and `observe`, called
with the journal's changes and with the retained history alike; since both only need the
recorded identifier and a timestamp, the lag of the journal is in their being free to
happen late.

Left out: the kinds of attachments and their canonical projections (that one cannot be
stored is `ProjectionFails`), rejections by the ingress, which write no row here, the
removal of all spools at a start, which is part of `Crash`, and the order of texts
against attachments, which SourceOrder does not have yet (section 9). A send is given
one identifier, and none is drawn twice.

### TransactionInbox

`arrival`, `done`, `attempts` are the columns of `transactions`, `place`, `origin`,
`delivered` those of `events`, `keys` stands for the crypto store, `page` and `stage`
for the running pass of the worker. `Put` is the whole PUT handler: it commits, and its
answer may be lost. A pass (`BeginPass`) reads a page ordered by attempts and arrival,
then per transaction `Attempt`, `ApplyKeys`, and `Complete` or `DecodeFails`. `Complete`
is one database transaction: new events are inserted in order, known ones keep their
row. Keys once applied stay when decoding fails. `MaxAttempts` bounds the counter: at
the bound, the counters of the others are lowered instead, which keeps the order by
attempts the worker reads (equal counters at zero stay equal, a merge the counters of
the code would not make, at which the order of arrival decides).

Left out: digests and the 409 for a transaction of other content, events of the same
identifier and other content (both leave the database unchanged), transient typing
events, management results.

### SourceOrder

It extends the inbox by `op`, what the outbox database says of an event, and
`candidate`, what each dispatcher works on. `BarredBy`, `Elders` and `Permits` translate
`predecessorsPermit`; `MayEnter` and `MayDispatch` are the two phases of
`sourceOrderPermits`. `Ingest` is the drain of texts or of reactions, `Refuse` the
notice worker, `BeginDispatch` and `Claim` the two order checks around the asynchronous
room check. The inside of the text journal is not repeated: its queue keeps the order in
which texts were queued, and `ClassifiedInOrder` shows that to be the source order. A
room is a chat, as the portal store maps them one to one. A reaction has one part, and
is not withdrawn.

### Reactions

| variables | code |
|---|---|
| `seq`, `lastSeq`, `state` | `sequence` of an operation, `state` of its parts, one per Threema message the Matrix event stands for |
| `retired`, `noticed` | `reaction_retirements`; parts whose refusal was announced |
| `pc`, `op`, `spot`, `asked`, `excluded` | where the drain of the reaction runtime stands |
| `backend`, `call`, `callOf` | the thread and the one `reactMessage` in it |
| `native` | Threema messages ("spots", a message with an emoji) that bear the owner's emoji |
| `journaled`, `changes` | the journal's snapshot of a spot and what is not delivered of it |
| `bound`, `gone`, `dpc` | `reactions` of the portal store, events already redacted, the call of ReactionDelivery |
| `accepted`, `orphans` | has the homeserver the event of the change under delivery; history: spots with an event that no store knows |

A drain has the phases ingress, recover, dispatch, notices and retire, each of which may
end early. `Counts`, `ActiveAt` and `NeedsRemote` replay the operations in their order
as `requiresRemoteMutation` does: Threema is told only when the first reference to an
emoji appears or the last one goes. `RecoverPart` settles an uncertain part by what
Threema shows. A retirement asks for the spots of an event in order of rank, plans the
redaction durably and is resumed after a crash (`ResumeRetire`). Delivery adds or
removes one projected event: the homeserver carries the request out (`Effect`), and its
answer binds the event or ends the binding (`Project`). The request may fail, or the
answer be lost after the effect (`AnswerLost`): the change is delivered again, with what
Threema says then. An addition whose event is there is completed under the same
identifier; when Threema has lost the emoji meanwhile, `Reconcile` finds nothing to do,
and the event stays in the room unbound (`orphans`).

Left out: reactions of other people, which have no outgoing side, and texts of notices.
A state read from Threema and the decision taken from it are one step.

### Mutations

| variables | code |
|---|---|
| `posted`, `shown` | the owner's edits and redactions in the room, and what it shows |
| `queue`, `state`, `noticed` | rows of the mutation journal in `sequence` order; refusals |
| `pc`, `op`, `excluded`, `already` | the dispatcher, its candidate, and the answer to `alreadyDeleted` |
| `call`, `native`, `carried` | the request in the thread; the message in Threema; history: executions |
| `stale`, `changes` | messages the journal is behind on; snapshots to deliver |
| `latest`, `plan`, `accepted`, `versions`, `deletion` | last projected text, `message_projections`, the homeserver's event of the plan, `message_versions`, `message_deletions` |

The dispatcher checks the room, asks for a deletion whether the message is already gone,
claims, and sends. The echo of an own edit must not be sent back to the room, a change
of the phone must: `ProjectsUnasked` next to `Projects` shows the bug this would
otherwise be. A watch of the message may be replaced while it lags (`stale`), so that
the journal misses a content in between (`lost`).

Left out: messages of more than one part (the text sender returns one identifier and the
echo refuses more), so that the cancellation of later parts has nothing to cancel.

### ProfileSync

| variables | code |
|---|---|
| `native`, `topo` | messages and conversations in Threema |
| `topoWatch`, `watch`, `events` | watches of the thread, bounded, and changes they hold back |
| `pc`, `aborted`, `listed`, `dir`, `filled`, `attached`, `cursor`, `page`, `staging`, `buffered` | the running epoch of `ProfileSynchronizer` |
| `tokens`, `snap`, `lives` | `reconciliations` and staged messages of both phases |
| `latest`, `changes`, `meta`, `metaPending` | tables `messages`, `changes`, the stored metadata |
| `dpc`, `view`, `fresh` | the call of JournalDelivery and the metadata it was made with |
| `shown`, `rooms`, `portals` | messages and rooms in Matrix, with name and members; the rooms that are bound |
| `misnamed` | history: rooms found by their alias under another name and not renamed since |

An epoch watches the topology first, then lists, attaches a watch per chat, reads
history page by page, replays snapshots before live messages (`Ordered`), commits in one
transaction and follows the live messages until a reset, a full buffer, a failure, a
`resync` or the hour of the next epoch aborts it; `Discarded` drops its tokens and
staged messages. The delivery takes metadata before messages and messages in order, each
with the metadata of its moment, which may be replaced meanwhile. Metadata is applied to
the bound rooms of conversations that were listed with a last message (`Filled`), and to
no others; a message finds or makes its room and reconciles its members, a deletion
without the members. A message may fail half way (`HalfWay`), with a room that is made
and not bound, or bound and without the message.

Left out: statuses and pictures, media of others, contents beyond a number. The early
returns of `MatrixJournalSink.message` (a deletion that is done, an observed reply, the
text-only assembly) change no room and are not told apart from a delivery.

### BackendThread, ProcessSupervisor and Service

`call` is the controller's table of requests: one waits for `ready`, is posted, is
answered or refused, or is rejected with all others by `StopWithError`. `Stop` begins
the graceful end (`graceful`, `closing`): the thread is asked to close its files and has
two seconds (`TimeUp`), then it is terminated. `registry`, `disk`, `attempted`, `owned`,
`stuck` translate `NodePreparedFiles`, `flow` and `got` the byte stream with its one
demand per packet. `thread` may hang in anything, die, or not come up.

`ProcessSupervisor` is the loop around the proxy: verify, launch, back off, SIGTERM,
SIGKILL. `Service` composes the two: `pc` is the step of `startService`, `closeStep`
that of `close`, with the loops of the runtime (`sync`, `delivery`, work with a file)
between. Every opening step may fail, `Abort` and `StartupExpires` may come at every
moment. A configuration has the proxy or media; the two do not touch.

Left out: linking and password changes, the single reads, typing and receipts.

### Rooms

`alias`, `member` and `unheard` are the homeserver: the alias of the conversation, the
members of each room there is, and the last membership event of a ghost that has not
come back yet; `late` are events whose transaction has failed. `portal`, `ghosts` are the portal store; `message`, `metadata` what the
journal has for the sink; `asked`, `answered`, `result`, `prepared`, `replies`, `open`
the command worker; `tracker` and `tail` the RoomStateRouter with its lock. The sink and
the worker (`pc`, `room`, `seen`, `todo`) each have a PortalManager and GhostManager:
look the room up or make it, verify and bind it, register ghosts from a snapshot, and
reconcile the members by another: `Leave`, `Invite`, `Join`. A join or departure is the
homeserver's first; its answer, which tells the tracker, is a step of its own (`Left`,
`Joined`), and the other actor's calls and the stream may come between. The sink desires the
profile's ghost besides the contact's, the worker does not. A call may fail with or
without its effect, the process may restart, the owner may leave.

Events of a ghost are decoded in their order (`Hear`), of which the last of those that
wait is kept. One whose transaction fails (`Stall`), before the router has applied it or
after, waits behind those to come and is applied then (`HearAgain`). What a tracker is
told out of this order, by an answer or by such an event, may hold no more: `misled` are
the ghosts of which that is so, until their tracker is told something that holds.

The behaviour starts after the profile's first metadata. An epoch comes only when the sink is idle.
Commands other than `pm` take the path of a contact that is gone. The provisioning of
the management room by the notices is external.

### Backup

`bridge`, `version` and `lock` are the running installation and the two profile locks,
`pc`, `was`, `failed`, `copied`, `name` the script and its container, `archives`,
`sound`, `fresh` what there is of archives, `op`, `place`, `held`, `durable`, `shown`,
`spoiled` a restore or an adoption. A power loss (`PowerLoss`) ends everything and takes
back any part of what is not durable; Docker then starts what had not been stopped.

Left out: the status record and the notice made from it; `BACKUP_KEEP=0`; that an unlink
may not be durable; a SIGKILL of the script alone; temporary names left over by a crash.
Three weaknesses are named in the model: a bridge that Docker is about to start again is
not listed as running, so that it is not started again (`backup.sh:36`, `abandoned`); an
adoption that fails after its link removes what is already published
(`adopt-workspace.ts:117`, `spoiled`); and after a clock was set back the new archive is
not the newest and nothing is pruned (`retention.ts:33`, `Stuck`).

## 3. Runs

| run | instance | question |
|---|---|---|
| `text_outbox_safety` | 3 texts, 2 chats, 2 identifiers | is nothing sent twice, unowned, out of order, or projected again? Is AtMostOnceDelivery implemented? |
| `text_outbox_liveness` | 2 texts of a chat, 1 identifier | does a waiting text get its attempt, and an accepted one its acknowledgement? |
| `source_order` | 3 transactions with 4 events of 2 rooms: a text whose key comes late and which is repeated, a reaction to it and a text in the clear, an event of the other room that is never decoded; pages of 1 | is anything lost, attempted early, acknowledged unclassified, starved, or waited for in a circle? |
| `media_outbox` | any 2 of 3 attachments (`MaxRows`), 2 of a chat with one a reply and 1 of another chat, 3 identifiers | order and single delivery of attachments and quotes, removal of files, release by evidence |
| `reactions_safety` | 2 reactions for one emoji on one message, a withdrawal of the first, 2 changes on the phone | do references decide what Threema is told, and does the room agree at rest? |
| `reactions_progress` | 1 reaction to a text of two messages, 2 changes on the phone | does an uncertain part settle, an absent reaction retire? |
| `mutations` | 1 message, an edit, a deletion, 1 change on the phone | executed once, the owner's last word, agreement at rest, nothing left of a deletion, everything settled |
| `profile_sync` | 2 messages of a chat, page, queue and buffer of 1, 2 changes in Threema | does the journal follow Threema, Matrix the journal, and do they converge? |
| `service` | 1 file of 1 packet and room for 1, or a proxy | is anything used after its end, a claimed file removed, anything not released? |
| `rooms` | 1 contact, 1 message of the owner, 1 `pm`, 2 faults or one failed transaction; the management room can be joined | one room, true answers, trackers and members as they should be, every command answered |
| `rooms_launched` | the same, 0 faults; the management room as the launched service treats it | is a command answered? (No: section 7) |
| `backup` | 3 names, 2 kept, 2 faults | sound archives, whole places, a bridge that runs again |

Why these bounds are enough to be interesting. An overtaking needs two requests of a
chat, and the choice across chats a third. Two identifiers make a two-part send, one
that fails half way, a foreign message beside an own one, and, being fewer than the
requests, identifiers that are not free any more. Two attachments of
a chat, one a reply, are in order or not; two of different chats make a claim decline;
three identifiers are as many as there are sends. Ordering across the inbox needs a pair
and something between; three transactions arrive in all six orders, and a page of one is
the worst case for starvation. For references two events of one emoji are needed, so
that the first withdrawal is not the last; for a retirement that is cut short, two
messages. Two changes of the phone are there and back again; for a message the deletion
is final, so that one change beside the owner's two is each of its crossings. A queue
and a buffer of one overflow at once, a page of one has a second page. One file fills
the registry. Two faults allow a failure while another is being repaired. Three archives
with two kept are the least with something to prune.

Where an instance is small, proofs go further: the safety properties of the outboxes,
the inbox, the source order, the rooms and the backups hold for all instances (section
5), and those that are no longer run are the theorems without a run in `PROJECT.json`.

Deadlock is checked in all runs but `service`, whose process really ends. A mutant per
property (in the sections "Plausible bugs" of the modules) shows that the property does
depend on the code it is about.

## 4. Fairness

Every liveness property names its assumptions in the module.

* `LoopFairness`: the loop, the restart of a stopped profile and the calls to the thread
  are weakly fair. A pass's end, the choice of a candidate and its claim are strongly
  fair, since a crash or a stop may preempt them again and again: the code does retry,
  but nothing bounds how often a preflight fails. `CallProgress` assumes that Desktop's
  send returns. The code bounds the acknowledgement (30 s) but not the send
  (`worker.ts:59`).
* `EchoFairness`: the journal follows Threema while the backend lives and its changes
  are delivered until acknowledged. A dead backend thread is never replaced while the
  profile runs (`Profile runtime cannot restart a terminated backend`), so
  `EvidenceSettles` needs `StopForRestart`, an operator or supervisor restarting the
  profile. Without it the property does not hold.
* `MediaFairness`: a pass, the calls in it, retries and the journal go on. `Steady`
  confines `EvidenceReleases` to behaviours in which crashes and failures come to an
  end, and names the failures (`Failure`): of a download, a check, the removal of a
  file, the connection, a pass cut short. One of them is no failure of anything: a row
  of another chat that comes due between the check and the claim of a candidate makes
  the claim decline, and nothing in the code keeps that from happening each time.
* `InboxFairness`: the pump runs; the crypto clients become ready. `Attempt`, `Complete`
  and an `ApplyKeys` that brings something new are strongly fair: a process restart
  interrupts them, but not for ever.
* `OrderFairness`: the ingresses, the notice worker and the dispatchers run; rooms are
  authorised in the end; an uncertain send is found out (`Resolve`), by its echo or by
  the recovery of reactions. An uncertain text whose message does not exist is never
  resolved in the code and stays a barrier by design. `EventsSettle` is about mutual
  waiting and takes that case out by this assumption; `PreparedProceeds` keeps it and
  names it.
* `ReactionFairness`, `MutationFairness`: the drain and the thread go on. In Reactions
  the questions and redactions that settle something are strongly fair, since the code
  asks again. `Steady` confines both to behaviours in which crashes, and in Mutations
  failures, come to an end. `ChangesSettle` names the exception the code makes: an
  operation of unknown outcome that Threema does not bear out holds its chat back.
* `SyncFairness`: the steps of an epoch and the live messages of a chat; strong fairness
  of the delivery, which is enabled again and again only because epochs are periodic.
  `Steady` says that failures and resyncs come to an end and that the hour of an epoch
  is enough for what there is to deliver. `Converges` excepts `Blocked`: the first
  undelivered change belongs to a conversation or sender that is gone, and the delivery
  of the profile does not get past it (`journal-sink.ts:219`).
* `Fairness` of Service: the process's own steps, its timers, the end of a terminated
  thread and of a killed child. Nothing is assumed of what the thread answers, which is
  what `Settles` is about.
* `FairSpec` of Rooms: sink, worker and the periodic epochs go on; nobody waits for an
  event to be decoded. Faults are bounded by `MaxFaults`; a failed transaction counts as
  two, so that with a bound of two it is combined with no other fault.
* `FairSpec` of Backup: Docker starts the bridge, and a script that has begun goes on.
  `BridgeReturns` excepts backups that follow each other without a pause, and an
  abandoned bridge.

Nobody is obliged to write, stop, crash or lose the backend.

## 5. Proofs

All of these hold for every value of the constants that meets the named assumptions
(`ConstantsAssumption`, `MediaAssumption`, `InboxAssumption`, `SourceAssumption`,
`MutationAssumption`, `ReactionAssumption`, `SyncAssumption`, `BackendAssumption`,
`ConfigurationAssumption`, `RoomsAssumption`, `BackupAssumption`: the constants have their
types, `None` is not one of the things it stands for the absence of, an edit is no
deletion, the mark of a deleted message is no text, a withdrawal covers the messages of
its reaction, what covers the same spot is of one chat, and a file is not the name of a
request). Every inductive invariant was first checked by TLC on small instances.

**TextOutboxProofs**: the safety properties of `text_outbox_safety`, six more, and the
refinement. The argument is one inductive invariant, `IInv`. The properties alone are
not inductive: `AttemptOrder` is preserved by a claim since nothing older waits
(`Blocking`), and by a reordering only since waiting rows exchange slots among
themselves and slots are distinct (`SlotsDistinct`); a granted send, which may happen
after its row has become uncertain, delivers in order because that row still holds the
younger ones back (`CallLeads`); `AckedIsEvidenced` needs the trail of evidence from
Threema over journal and change to the part (`EvidenceTrail`); `NoDuplicateProjection`
needs that others' identifiers are apart from recorded and offered ones
(`ForeignApart`); `ClaimsInSourceOrder` needs that the drain has sorted what the loop
chooses from (`FlushSorted`). Each action has a lemma, and the refinement maps each to a
step of AtMostOnceDelivery or a stutter.

**MediaOutboxProofs**: the safety properties of `media_outbox`, `QuoteFirst` and
`MessagesOwned`, from the invariant `MediaInv`. `QuoteFirst` needs `CandidateKnown`,
what each place of the pass knows of its candidate, and `SentIsNative`; `SpoolAccounted`
needs `CleanupExcluded`: a second file for a request whose first could not be removed is
never made, since its chat is left alone. The order of deliveries rests on
`EldersNative`: a send begins only when the elders of the chat are in Threema, which a
row called SENT proves, even when a later recovery takes that state back. `CallOwned`
says whose message a granted call will create, also after the row has given up on it.
The refinement is proved once for attachments and once for quotes, each a stutter in the
other's steps.

**SourceOrderProofs**, the inbox: `InboxInv`, with the parts `PageDistinct`,
`StageHasPage`, `ArrivalsUnique` and `OriginsDone`; from it `NothingLost` and
`ProvenanceFixed`. The whole: `ComposedInbox` shows that SourceOrder implements
InboxSpec, so that what is proved of the inbox holds in the composition. `OrderInv` adds
to it that only stored events are classified. The heart is `PermissionIsFinal`: an event
that may enter still may after every step. A transaction decrypted late cannot bring an
elder into a room, because while it was pending it barred exactly the rooms of its
events; the arrival numbers of transactions, not the places of events, decide.

**ReactionsProofs**: `ReferencesDecide` and `QuietAgrees`, and of single steps that a part
once sent or refused stays so (`FinalStays`) and that a chat has one part under way at most
(`OneUnderWay`).
- `Base` is what both rest on: the numbers of the rows are distinct, whatever stands before
  a part that was attempted is settled, and what the dispatcher, the thread, the retirement
  and the delivery each know of their row.
- `ReferencesDecide` compares Threema with a replay of the outbox. `RefInv` follows a spot
  through the attempt: until the part is settled the emoji is as the replay says, or one
  uncertain part has already changed it as it will (`Effected`). Since nothing unsettled
  stands before that part and nothing behind it was attempted, its settlement changes the
  replay at its end (`StandingSent`), and two uncertain parts never blame each other.
- `QuietAgrees` speaks of the point of rest. The way there is `ShowInv`: the last waiting
  change of a spot tells its present emoji (`LastTells`), and once it is delivered a
  bound event has an emoji and an emoji has a projected event or one of the owner that
  holds it. A withdrawal that lets go of one event must find the emoji gone or another
  holder (`HoldersStay`); what breaks this on the way (`Spoilt`) is over at rest.

**MutationsProofs**: `CarriedOnce`, `NothingLeft`, `OwnersLastWord` and `QuietAgrees`.
- `CarriedOnce` needs to know who may have a call under way (`WorkerInv`): with a backend
  that is up only the dispatcher that waits for it, and nobody once the thread is gone, so
  an operation is never claimed while an earlier call of it is left in a dying thread.
- `NothingLeft` needs `Recordings`: what the homeserver accepted without a record still
  has its plan, and a deletion has begun only where there is no plan. That is what
  `beginDeletion`'s check is for.
- `OwnersLastWord` needs one order kept throughout (`OrderInv`): the queue has the changes
  of a chat in the order of the room, and what is settled or under way has nothing
  unsettled before it. From this follows `OneFlying`: two operations of a chat are never
  under way together, so that what applies an operation, its answer or a later look at
  Threema, speaks of the newest one (`WordInv`).
- From the same order: operations of a chat are never under way together
  (`NeverTogether`), none is carried out after a later one (`CarriedInOrder`), and what was
  applied or refused stays so (`SettledStays`). No run checks these three; the first two are
  what `OwnersLastWord` takes from `OrderInv`.
- `QuietAgrees` needs to know of every change that waits, since a delivery compares it with
  what was projected last and may pass over it. `TrailInv` says what the waiting changes of
  a message are: the last is its present content unless that was not seen, none repeats
  the one before, and the first differs from what was projected. So what is passed over is
  only ever the echo of the owner's edit or the first text, and there the room already shows
  what it says (`SkippedAgrees`, which takes `OrderInv` and `WordInv`). `RoomInv` then
  holds throughout: with nothing waiting, the room shows the content of Threema, or what the
  owner did last and Threema has yet to do (`Ahead`), or is mistaken about the first text.
  At rest nothing of the owner is left to do. What a sequence of changes gains with one at
  its end and loses with its first is stated once (`ChangesAppended`, `ChangesDelivered`).

**ProfileSyncProofs**: `LiveRecorded`, `NothingSkipped` and `RoomsFollow`.
- `LiveRecorded` compares Threema with a table that is filled from two sides. During an
  epoch the invariant follows each message (`FollowInv`): what the history has of it, which
  is the staged part, the page under way or, for what is not read yet, Threema itself
  (`Seen`), then the live messages that were staged, then the changes the watch holds back.
  Together they make the content of Threema. The step that commits turns this into the
  property. It holds since the watch begins before the history is read (`PhaseInv`), the
  history before the live messages is what is replayed, and a topology that is watched
  without a reset is the one the epoch has read (`TopologyInv`).
- `NothingSkipped` needs `HeadInv`: the change under delivery is the first of the list, and
  no commit, crash or failed delivery removes it.
- `RoomsFollow` needs `ViewInv`: a delivery whose metadata was replaced under it leaves the
  new one pending. A room that is not bound has nobody in it (`Unbound`), so that one that
  is found by its alias has no members of an older epoch.

The replay of the staged messages (`Replayed`) is a recursive function. That its recursion
has a solution and leaves of every message what the log says last (`ReplayedAll`) is
proved by induction on the length of the log, from a least counterexample: the induction
theorems with an operator as a parameter cannot be used.

**HostProofs**, the service: `ResourcesOutlive` and `FilesKept`. The steps are of three kinds, the
service's own, those of the thread with its controller, and those of the supervisor, and
each part of the invariant is about one of them. The service only asks and stops
(`LeavesFiles`), so that `FilesInv` is about the registry alone: a file about to be removed
is on disk and not claimed, which is why the registry awaits what is under way before it
removes the rest, and why `work` of a claimed file can only be sending or over. The
thread lives once (`WorkerInv`, `ThreadAges`), so that a thread found gone stays gone.
`OpenInv` says what each step of the start finds and `CloseInv` how far close has come:
the server and the child end before the runtime is awaited, the runtime before the thread,
the thread before Matrix, Matrix before the stores. A loop that is over does not begin
again since every loop asks for a running runtime.

**RoomsProofs**: `OnePortal`, `AnswerTrue` and `TrackersFollow` from `RoomsInv`. The
room of an actor is the bound one because the alias decides which there is and no
binding is ever replaced (`AliasDecides`, `RoomsBound`). That a chat called ready has
its contact needs `ContactStays`: who has joined is in nobody's list of ghosts to
remove, whatever the age of the snapshot that list was made from. A tracker is right
only when no event of its ghost waits and the ghost is not in `misled`, which is
inductive with `EventsCurrent` and `SnapshotsCurrent`: the last event that waits says how
things are, and a registration holds the lock from its snapshot to its use, so that what
it read still holds or will be corrected. What comes out of turn is judged when it is
told (`Told`): it holds, or the ghost is misled.

**HostProofs**, backups: `ArchivesSound` rests on the locks (`LocksHeld`, `CopiesCurrent`):
while the script copies it has both, so no bridge has the databases open and the data
stand still. `PublishedWhole` rests on the order fill, synchronize, link (`StepsBehind`)
and on a power loss taking back only what is not durable.

Only model-checked: the liveness properties, of which `DeadNotReady` is one, since the
installed provers have no rules for fairness that would carry them. Every invariant and
every property of single steps that a run checks is stated by one of the theorems.

## 6. What the properties do not say

Some hold only apart from a case the code leaves open, which they name: `QuietAgrees` of
Reactions leaves out spots where a change went by unrecorded (`blind`), that of
Mutations contents the journal never saw (`lost`), a plan left over and an edit mistaken
for an echo; `ReferencesDecide` and `OwnersLastWord` speak of what the phone did not
touch. `QuietAgrees` of Reactions speaks of the events that are bound, and not of one
that was accepted while its answer was lost (`orphans`). `RoomsFollow` speaks of the
bound rooms of conversations with a last message: the room of an emptied one is passed
over although the epoch is acknowledged (`journal-sink.ts:149-152`), one found by its
alias keeps another name until the next epoch is applied (`misnamed`), and nobody is in
a room before the first message that is no deletion. `TrackersFollow` leaves out ghosts
whose tracker was told last, out of turn, what held no more (`misled`). `FilesKept` and `SpoolAccounted` count files, not bytes.

## 7. Where the documents and the code differ

Found by a run:

* **No command in the management room is answered.** `service/start.ts:238-242` and
  `269-273` pass the management room to `session.joinOwnerRoom`, which looks it up among
  the portals (`matrix-session.ts:375`) and rejects every other room; the management
  room is never bound as a portal, so that the command worker is never opened.
  `docs/MANAGEMENT-ROOM.md:180-188` describes the commands as wired;
  `docs/DISK-NOTICES.md:3-5` and `docs/UPSTREAM-MONITORING.md:51` rely on the room. Run
  `rooms_launched`; with `Joins = TRUE`, as in `rooms`, every command is answered.

Stated as definitions which TLC refutes when they are added to a configuration:

* `UndecodedBlocksAll` (SourceOrder). `docs/OUTBOUND-ORDERING.md:5-6`: "An older
  undecoded transaction blocks all outbound chats because its destinations are not known
  yet." The code (`transaction-inbox.ts:241-258`) reads the rooms of the envelopes and
  blocks these only. The code's rule is the better one, and the proofs show it
  sufficient for the order.
* `PlaintextIndependent` (SourceOrder). `docs/OUTBOUND-ORDERING.md:12-13`: "Plaintext
  message/reaction events ... do not become outbound dependencies." The code
  (`source-order.ts:13-17`) exempts plaintext messages only.
* `QuietShown` (Reactions). `docs/MATRIX-PORTALS.md:145-147` says that retries converge
  and that a reaction made again gets a fresh event. When the redaction of a projected
  event succeeded but its answer was lost, and the emoji is set again before the retry,
  the code (`reaction-delivery.ts:62-66`, `95-101`) finds the old binding and sends
  nothing.
* `NothingStrays` (Reactions). The same lines in the other direction: when an added event
  was accepted but its answer was lost, and the emoji is taken back before the retry, no
  binding names the event (`reaction-delivery.ts:121-140`), so that nothing redacts it
  and the room keeps a reaction that Threema has not.
* `ParticipantsTracked` (Rooms). `service/room-state-router.ts:7`: "Route owned-room crypto
  state only to initialized clients participating in that room." The profile's ghost is
  joined by the sink and removed by the worker; when the answer to the join comes last
  (`matrix-session.ts:160-170`), the tracker has a room the ghost is not in. The event of
  a transaction that failed does the same behind a newer one (`transaction-inbox.ts:132`).
* `MatchesShown` (Mutations). `docs/MATRIX-PORTALS.md:80-82` says that every change of
  content is sent. An edit of the phone back to the first text, before anything was
  projected, is taken for the echo of the message (`echo.ts:41-53`).
* `PlanReplayed` (Mutations). `docs/MATRIX-PORTALS.md:86-90` has an unfinished plan
  replayed. A plan of an earlier change can be left over when the delivery goes on with
  a later one.

## 8. Not modelled

* Operations (reconnection policy, notices of disk, backup and update): timers over
  single files, each apart from the rest. They are next if the project grows.
* Typing, receipts, the owner's own device and offline repair: nothing else reads their
  state.
* Group chats, pictures and names of portals; health and recovery routes of the
  transaction server; the calls of linking, passwords and settings of the thread.
* Media codecs and preparation (data transformation without state), the setup wizard,
  configuration, doctors and metrics (read-only), build scripts, native patches and the
  crypto engine.
* Hazards that are known and not covered. `PROJECT.json` lists three: the send without a
  limit (`worker.ts:59`), a reply whose text is empty after its quote
  (`matrix-ingress.ts:111`), and a withdrawal pending on the reaction it withdraws
  (`reaction-withdrawal.ts:44`). Besides: an event identifier that occurs in two
  transactions with different content makes `complete()` throw on every pass
  (`transaction-inbox.ts:180`); the three weaknesses named under Backup.

## 9. Plan

Done: the outboxes, the inbox and the source order, edits and deletions, reactions,
synchronisation, the service, rooms and backups, all with proofs of their safety.
Left, in order of importance:

1. SourceOrder with attachments and withdrawals beside texts and reactions, for the
   mutual waits across three journals.
2. Rooms with groups and more than one conversation.
3. The reconnection policy composed with Service.
