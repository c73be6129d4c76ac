------------------------------ MODULE ProfileSync ------------------------------
(***************************************************************************)
(* How what Threema has comes into the message journal and from there to   *)
(* Matrix.  ProfileSynchronizer (src/threema/profile-sync.ts) runs epochs: *)
(* it watches the topology, lists conversations and directory, watches the *)
(* messages of every chat, reads the retained history in pages, publishes  *)
(* all of it in one transaction of MessageJournal and follows the live     *)
(* messages until something invalidates the epoch.  JournalDelivery        *)
(* (src/matrix/journal-delivery.ts) hands the journal to Matrix.           *)
(*                                                                         *)
(* Messages are numbers in the order of the history (ordinal, then id).  A *)
(* content is a number, 0 where there is no message; a conversation is a   *)
(* number that stands for its name and members, 0 where there is none.     *)
(***************************************************************************)
EXTENDS Naturals, Sequences, FiniteSets, SequencesExt

CONSTANTS Chats, NumMessages, ChatOf, Contents,
          Retained,      \* messages Desktop has at first
          PageSize,      \* messages of a page of history
          QueueLimit,    \* changes a watch may hold back
          BufferLimit,   \* maxBufferedEvents
          MaxMoves,      \* bound: changes in Threema
          None

Messages == 1..NumMessages

ASSUME SyncAssumption ==
  /\ NumMessages \in Nat \ {0} /\ Retained \subseteq Messages
  /\ ChatOf \in [Messages -> Chats] /\ None \notin Chats
  /\ Contents \subseteq Nat \ {0} /\ 1 \in Contents
  /\ PageSize \in Nat \ {0} /\ QueueLimit \in Nat \ {0} /\ BufferLimit \in Nat
  /\ MaxMoves \in Nat

Kinds == {0, 1, 2}

VARIABLES
  \* Threema
  native, topo, moves,
  \* watches of the backend thread and their ports: "off", "on", or "tripped",
  \* when the reset is under way
  topoWatch, watch,
  events,     \* changes of a chat the watch has not handed over
  \* synchronizer, in memory
  pc, aborted,
  listed, dir,   \* conversations and directory, as read
  filled,     \* conversations that were listed with a last message
  attached,   \* chats with a token and a watch
  cursor,     \* last message of the history that was staged; NumMessages + 1 at the end
  page,       \* answer to the request for a page, or None
  staging, buffered,
  \* journal database
  tokens,     \* reconciliations
  snap, lives,   \* staged messages of the two phases
  latest, changes,
  meta, metaPending,
  \* delivery
  dpc, view,  \* metadata the call under way was made with
  fresh,      \* and that is still the stored epoch
  \* Matrix
  shown,
  rooms,      \* name and members of the room of a chat, <<0, 0>> where there is none
  portals,    \* chats whose room is bound
  misnamed    \* history: those whose room was found under another name, and not renamed since

threemaVars == <<native, topo, moves>>
watchVars == <<topoWatch, watch, events>>
runVars == <<pc, aborted, listed, dir, filled, attached, cursor, page, staging, buffered>>
stageVars == <<tokens, snap, lives>>
journalVars == <<latest, changes, meta, metaPending>>
deliveryVars == <<dpc, view, fresh>>
matrixVars == <<shown, rooms, portals, misnamed>>
vars == <<threemaVars, watchVars, runVars, stageVars, journalVars, deliveryVars, matrixVars>>

Topology == [Chats -> Kinds]
Metadata == [list: Topology, dir: Topology, active: SUBSET Chats]
Recorded == Messages \X Contents

SyncTypeOK ==
  /\ native \in [Messages -> Contents \cup {0}] /\ topo \in Topology /\ moves \in 0..MaxMoves
  /\ topoWatch \in {"off", "on", "tripped"} /\ watch \in [Chats -> {"off", "on", "tripped"}]
  /\ events \in [Chats -> Seq(Recorded)]
  /\ pc \in {"stopped", "topology", "list", "directory", "attach", "history", "reconciled",
             "live", "cleanup"}
  /\ aborted \in BOOLEAN /\ listed \in Topology /\ dir \in Topology /\ filled \in SUBSET Chats
  /\ attached \in SUBSET Chats /\ cursor \in [Chats -> 0..(NumMessages + 1)]
  /\ page = None \/ page \in [chat: Chats, messages: Seq(Recorded), more: BOOLEAN]
  /\ staging \in BOOLEAN /\ buffered \in 0..BufferLimit
  /\ tokens \in SUBSET Chats /\ snap \in Seq(Recorded) /\ lives \in Seq(Recorded)
  /\ latest \in [Messages -> Contents \cup {0}] /\ changes \in Seq(Recorded)
  /\ meta \in Metadata \cup {None} /\ metaPending \in BOOLEAN
  /\ dpc \in {"idle", "metadata", "applied", "message", "delivered"}
  /\ view \in Metadata \cup {None} /\ fresh \in BOOLEAN
  /\ shown \in [Messages -> Contents \cup {0}]
  /\ rooms \in [Chats -> Kinds \X Kinds]
  /\ portals \in SUBSET Chats /\ misnamed \in SUBSET Chats

Empty == [c \in Chats |-> 0]
AllOff == [c \in Chats |-> "off"]
NoEvents == [c \in Chats |-> <<>>]

\* The members of a finite set of numbers, ascending.
Ascending(numbers) ==
  [i \in 1..Cardinality(numbers) |->
     CHOOSE n \in numbers : Cardinality({k \in numbers : k < n}) = i - 1]

\* A synchronizer that has not started, and a delivery that asks nothing.
SynchronizerInit ==
  /\ pc = "stopped" /\ aborted = FALSE /\ listed = Empty /\ dir = Empty /\ filled = {}
  /\ attached = {} /\ cursor = Empty /\ page = None /\ staging = TRUE /\ buffered = 0
DeliveryInit == dpc = "idle" /\ view = None /\ fresh = TRUE
JournalInit ==
  /\ tokens = {} /\ snap = <<>> /\ lives = <<>>
  /\ latest = [m \in Messages |-> 0] /\ changes = <<>> /\ meta = None /\ metaPending = FALSE

Init ==
  /\ native = [m \in Messages |-> IF m \in Retained THEN 1 ELSE 0]
  /\ topo = [c \in Chats |-> 1] /\ moves = 0
  /\ topoWatch = "off" /\ watch = AllOff /\ events = NoEvents
  /\ SynchronizerInit /\ JournalInit /\ DeliveryInit
  /\ shown = [m \in Messages |-> 0] /\ rooms = [c \in Chats |-> <<0, 0>>]
  /\ portals = {} /\ misnamed = {}

-----------------------------------------------------------------------------
(* Plausible bugs: each replaces the definition named in its comment, and  *)
(* the runs must notice.                                                   *)

OrderedLiveFirst == lives \o snap                                    \* Ordered
StartKept(discarded) == {}                                           \* Discarded
SettledAlways == FALSE                                               \* StillPending
FailsForGood ==                                                      \* DeliveryFails
  /\ dpc = "message" /\ dpc' = "idle" /\ view' = None /\ fresh' = TRUE
  /\ changes' = Tail(changes)
  /\ UNCHANGED <<threemaVars, watchVars, runVars, stageVars, latest, meta, metaPending,
                 matrixVars>>
-----------------------------------------------------------------------------
(* Threema.                                                                *)

\* watchNodeMessages: a change is queued behind the earlier ones; one too many,
\* and the watch gives up.
Notified(c, change) ==
  CASE watch[c] # "on" -> UNCHANGED <<watch, events>>
    [] watch[c] = "on" /\ Len(events[c]) < QueueLimit ->
         /\ events' = [events EXCEPT ![c] = Append(@, change)] /\ UNCHANGED watch
    [] OTHER -> /\ watch' = [watch EXCEPT ![c] = "tripped"]
                /\ events' = [events EXCEPT ![c] = <<>>]

Move == moves < MaxMoves /\ moves' = moves + 1

\* A message comes in, or changes in place.
Change(m, content) ==
  /\ Move /\ topo[ChatOf[m]] # 0 /\ native[m] # content
  /\ native' = [native EXCEPT ![m] = content]
  /\ Notified(ChatOf[m], <<m, content>>)
  /\ UNCHANGED <<topo, topoWatch, runVars, stageVars, journalVars, deliveryVars,
                 matrixVars>>

\* The watch of a chat gives up: its queue and its port are gone.
Tripped(c) ==
  /\ watch' = [watch EXCEPT ![c] = IF @ = "on" THEN "tripped" ELSE @]
  /\ events' = [events EXCEPT ![c] = <<>>]

\* The local record of a message is removed; this is no deletion.
RemoveRecord(m) ==
  /\ Move /\ native[m] # 0 /\ native' = [native EXCEPT ![m] = 0]
  /\ Tripped(ChatOf[m])
  /\ UNCHANGED <<topo, topoWatch, runVars, stageVars, journalVars, deliveryVars,
                 matrixVars>>

\* A conversation appears, disappears with its messages, or changes its name or
\* members: every listener of watchNodeTopology resets.
Reshape(c, kind) ==
  /\ Move /\ topo[c] # kind /\ topo' = [topo EXCEPT ![c] = kind]
  /\ native' = [m \in Messages |-> IF kind = 0 /\ ChatOf[m] = c THEN 0 ELSE native[m]]
  /\ topoWatch' = IF topoWatch = "on" THEN "tripped" ELSE topoWatch
  /\ UNCHANGED <<watch, events, runVars, stageVars, journalVars, deliveryVars, matrixVars>>

\* A missing acknowledgement, a failed normalization or a closed port.
WatchFails(c) ==
  /\ watch[c] = "on" /\ Tripped(c)
  /\ UNCHANGED <<threemaVars, topoWatch, runVars, stageVars, journalVars, deliveryVars,
                 matrixVars>>

-----------------------------------------------------------------------------
(* Synchronizer.                                                           *)

Running == {"topology", "list", "directory", "attach", "history", "reconciled", "live"}

\* discardIncompleteReconciliations.
Discarded(rows) == rows
Start ==
  /\ pc = "stopped" /\ pc' = "topology"
  /\ tokens' = tokens \ Discarded(tokens)
  /\ IF Discarded(tokens) = tokens THEN snap' = <<>> /\ lives' = <<>>
                                   ELSE UNCHANGED <<snap, lives>>
  /\ UNCHANGED <<threemaVars, watchVars, aborted, listed, dir, filled, attached, cursor,
                 page, staging, buffered, journalVars, deliveryVars, matrixVars>>

\* The process ends; the databases stay.
Crash ==
  /\ pc # "stopped" /\ pc' = "stopped"
  /\ aborted' = FALSE /\ listed' = Empty /\ dir' = Empty /\ filled' = {} /\ attached' = {}
  /\ cursor' = Empty /\ page' = None /\ staging' = TRUE /\ buffered' = 0
  /\ topoWatch' = "off" /\ watch' = AllOff /\ events' = NoEvents
  /\ dpc' = "idle" /\ view' = None /\ fresh' = TRUE
  /\ UNCHANGED <<threemaVars, stageVars, journalVars, matrixVars>>

WatchTopology ==
  /\ pc = "topology" /\ ~aborted /\ topoWatch' = "on" /\ pc' = "list"
  /\ UNCHANGED <<threemaVars, watch, events, aborted, listed, dir, filled, attached, cursor,
                 page, staging, buffered, stageVars, journalVars, deliveryVars, matrixVars>>

\* Conversations that have a last message.
Filled == {c \in Chats : \E m \in Messages : ChatOf[m] = c /\ native[m] # 0}
ListChats ==
  /\ pc = "list" /\ listed' = topo /\ filled' = Filled /\ pc' = "directory"
  /\ UNCHANGED <<threemaVars, watchVars, aborted, dir, attached, cursor, page, staging,
                 buffered, stageVars, journalVars, deliveryVars, matrixVars>>

ReadDirectory ==
  /\ pc = "directory" /\ ~aborted /\ dir' = topo /\ pc' = "attach"
  /\ UNCHANGED <<threemaVars, watchVars, aborted, listed, filled, attached, cursor, page,
                 staging, buffered, stageVars, journalVars, deliveryVars, matrixVars>>

Expected == {c \in Chats : listed[c] # 0}

\* beginReconciliation, one token for a chat, and watchMessages.
Attach(c) ==
  /\ pc = "attach" /\ ~aborted /\ c \in Expected \ attached
  /\ c \notin tokens /\ topo[c] # 0
  /\ tokens' = tokens \cup {c} /\ attached' = attached \cup {c}
  /\ watch' = [watch EXCEPT ![c] = "on"]
  /\ UNCHANGED <<threemaVars, topoWatch, events, pc, aborted, listed, dir, filled, cursor,
                 page, staging, buffered, snap, lives, journalVars, deliveryVars,
                 matrixVars>>

AttachedAll ==
  /\ pc = "attach" /\ attached = Expected /\ pc' = "history"
  /\ UNCHANGED <<threemaVars, watchVars, aborted, listed, dir, filled, attached, cursor,
                 page, staging, buffered, stageVars, journalVars, deliveryVars, matrixVars>>

\* readNodeHistoryPage: the first messages after the cursor, as they are now.
After(c) == {m \in Messages : ChatOf[m] = c /\ native[m] # 0 /\ m > cursor[c]}
PageAfter(c) ==
  LET found == {m \in After(c) : Cardinality({k \in After(c) : k < m}) < PageSize}
      order == Ascending(found)
  IN [chat |-> c, messages |-> [i \in DOMAIN order |-> <<order[i], native[order[i]]>>],
      more |-> found # After(c)]
Unread == {c \in Expected : cursor[c] <= NumMessages}

ReadPage(c) ==
  /\ pc = "history" /\ ~aborted /\ page = None /\ c \in Unread /\ topo[c] # 0
  /\ page' = PageAfter(c)
  /\ UNCHANGED <<threemaVars, watchVars, pc, aborted, listed, dir, filled, attached, cursor,
                 staging, buffered, stageVars, journalVars, deliveryVars, matrixVars>>

\* stageSnapshotPage.
StagePage ==
  /\ pc = "history" /\ ~aborted /\ page # None
  /\ snap' = snap \o page.messages
  /\ cursor' = [cursor EXCEPT ![page.chat] =
                  IF page.more THEN Last(page.messages)[1] ELSE NumMessages + 1]
  /\ page' = None
  /\ UNCHANGED <<threemaVars, watchVars, pc, aborted, listed, dir, filled, attached,
                 staging, buffered, tokens, lives, journalVars, deliveryVars, matrixVars>>

\* upsert: a content that differs from the recorded one is a change.
Upserted(journal, change) ==
  IF journal.latest[change[1]] = change[2] THEN journal
  ELSE [latest |-> [journal.latest EXCEPT ![change[1]] = change[2]],
        changes |-> Append(journal.changes, change)]

\* replayStaged: one phase after the other, and every change upon the earlier ones.
Ordered == snap \o lives
Replayed(journal, log) ==
  LET upTo[n \in 0..Len(log)] ==
        IF n = 0 THEN journal ELSE Upserted(upTo[n - 1], log[n])
  IN upTo[Len(log)]

\* commitProfile.
Commit ==
  /\ pc = "history" /\ ~aborted /\ page = None /\ Unread = {} /\ attached = Expected
  /\ LET journal == Replayed([latest |-> latest, changes |-> changes], Ordered)
     IN latest' = journal.latest /\ changes' = journal.changes
  /\ meta' = [list |-> listed, dir |-> dir, active |-> filled]
  /\ metaPending' = TRUE /\ fresh' = (dpc = "idle")
  /\ tokens' = tokens \ attached /\ snap' = <<>> /\ lives' = <<>>
  /\ staging' = FALSE /\ pc' = "reconciled"
  /\ UNCHANGED <<threemaVars, watchVars, aborted, listed, dir, filled, attached, cursor,
                 page, buffered, dpc, view, matrixVars>>

\* onReconciled has returned.
GoLive ==
  /\ pc = "reconciled" /\ ~aborted /\ pc' = "live"
  /\ UNCHANGED <<threemaVars, watchVars, aborted, listed, dir, filled, attached, cursor,
                 page, staging, buffered, stageVars, journalVars, deliveryVars, matrixVars>>

\* One bound for all chats.
MayStage == buffered < BufferLimit

\* A live message arrives and is staged or recorded.
Consume(c) ==
  /\ watch[c] = "on" /\ events[c] # <<>> /\ ~aborted
  /\ staging => MayStage
  /\ IF staging
       THEN lives' = Append(lives, Head(events[c])) /\ buffered' = buffered + 1
            /\ UNCHANGED <<latest, changes>>
       ELSE LET journal == Upserted([latest |-> latest, changes |-> changes], Head(events[c]))
            IN /\ latest' = journal.latest /\ changes' = journal.changes
               /\ UNCHANGED <<lives, buffered>>
  /\ events' = [events EXCEPT ![c] = Tail(@)]
  /\ UNCHANGED <<threemaVars, topoWatch, watch, pc, aborted, listed, dir, filled, attached,
                 cursor, page, staging, tokens, snap, meta, metaPending, deliveryVars,
                 matrixVars>>

\* Or it arrives in an epoch that is over, or is one too many: the watch is reset.
Overflow(c) ==
  /\ watch[c] = "on" /\ events[c] # <<>>
  /\ aborted \/ (staging /\ ~MayStage)
  /\ aborted' = TRUE /\ Tripped(c)
  /\ UNCHANGED <<threemaVars, topoWatch, pc, listed, dir, filled, attached, cursor, page,
                 staging, buffered, stageVars, journalVars, deliveryVars, matrixVars>>

\* reset: a watch that gave up, or resync.
ResetArrives ==
  /\ pc \in Running /\ ~aborted /\ aborted' = TRUE
  /\ topoWatch = "tripped" \/ \E c \in Chats : watch[c] = "tripped"
  /\ UNCHANGED <<threemaVars, watchVars, pc, listed, dir, filled, attached, cursor, page,
                 staging, buffered, stageVars, journalVars, deliveryVars, matrixVars>>
Resync ==
  /\ pc \in Running /\ ~aborted /\ aborted' = TRUE
  /\ UNCHANGED <<threemaVars, watchVars, pc, listed, dir, filled, attached, cursor, page,
                 staging, buffered, stageVars, journalVars, deliveryVars, matrixVars>>

\* The epoch leaves its try block: aborted, after the period, or by an error.
\* What it read goes with it.
Leave ==
  /\ pc' = "cleanup" /\ aborted' = TRUE
  /\ listed' = Empty /\ dir' = Empty /\ filled' = {} /\ cursor' = Empty /\ page' = None
  /\ staging' = TRUE /\ buffered' = 0
  /\ UNCHANGED <<threemaVars, watchVars, attached, stageVars, journalVars, deliveryVars,
                 matrixVars>>
EpochAborted == pc \in Running /\ aborted /\ Leave
PeriodOver == pc = "live" /\ ~aborted /\ Leave
EpochFails == pc \in Running \ {"live"} /\ ~aborted /\ Leave

\* What is left of a phase when the tokens of some chats are discarded.
Without(log, chats) ==
  LET kept == Ascending({i \in DOMAIN log : ChatOf[log[i][1]] \notin chats})
  IN [n \in DOMAIN kept |-> log[kept[n]]]

\* finally: the watches are stopped, then the tokens go with what they staged; the
\* next epoch begins after a delay.
Cleanup ==
  /\ pc = "cleanup" /\ pc' = "topology" /\ aborted' = FALSE
  /\ topoWatch' = "off" /\ watch' = AllOff /\ events' = NoEvents
  /\ tokens' = tokens \ attached /\ attached' = {}
  /\ snap' = Without(snap, attached) /\ lives' = Without(lives, attached)
  /\ UNCHANGED <<threemaVars, listed, dir, filled, cursor, page, staging, buffered,
                 journalVars, deliveryVars, matrixVars>>

-----------------------------------------------------------------------------
(* Delivery.                                                               *)

\* readyForMessages.
Ready == pc = "live" /\ ~aborted

\* The sink takes what the journal stores now.
Taken(step) ==
  /\ dpc = "idle" /\ Ready /\ meta # None /\ dpc' = step
  /\ view' = meta /\ fresh' = TRUE
  /\ UNCHANGED <<threemaVars, watchVars, runVars, stageVars, journalVars, matrixVars>>

BeginMetadata == metaPending /\ Taken("metadata")

\* MatrixJournalSink.metadata: the bound rooms of the chats that have a last message
\* get name and members, others keep theirs; a group that the directory lacks is an
\* error.
ApplyMetadata ==
  /\ dpc = "metadata" /\ dpc' = "applied"
  /\ \A c \in Chats : view.list[c] # 0 => view.dir[c] # 0
  /\ rooms' = [c \in Chats |-> IF c \in view.active \cap portals
                               THEN <<view.list[c], view.dir[c]>> ELSE rooms[c]]
  /\ misnamed' = misnamed \ view.active
  /\ UNCHANGED <<threemaVars, watchVars, runVars, stageVars, journalVars, view, fresh,
                 shown, portals>>

\* acknowledgeMetadata: of this epoch only.
StillPending == ~fresh
AckMetadata ==
  /\ dpc = "applied" /\ dpc' = "idle" /\ metaPending' = StillPending
  /\ view' = None /\ fresh' = TRUE
  /\ UNCHANGED <<threemaVars, watchVars, runVars, stageVars, latest, changes, meta,
                 matrixVars>>

Here == Head(changes)[1]
\* MatrixJournalSink.message throws for a chat, or a sender, that the metadata lacks.
Deliverable(m) == meta.list[ChatOf[m]] # 0 /\ meta.dir[ChatOf[m]] # 0
BeginMessage == ~metaPending /\ changes # <<>> /\ Deliverable(Here) /\ Taken("message")

\* PortalManager.prepare: a chat without a room gets one, by the name of the metadata;
\* an unbound room is found by its alias, and keeps its name.  Then it is bound.
Named(c) == IF rooms[c] = <<0, 0>> THEN view.list[c] ELSE rooms[c][1]
Ensure(c) ==
  /\ portals' = portals \cup {c}
  /\ misnamed' = IF c \in portals \/ Named(c) = view.list[c] THEN misnamed
                 ELSE misnamed \cup {c}
\* GhostManager.reconcile: the members of the chat become those of the room, but for a
\* deletion, which leaves them.
Peopled(c) ==
  \E members \in {rooms[c][2], view.dir[c]} :
    rooms' = [rooms EXCEPT ![c] = <<Named(c), members>>]

\* MatrixJournalSink.message: the room, its members, and the message.
ApplyMessage ==
  /\ dpc = "message" /\ dpc' = "delivered"
  /\ Ensure(ChatOf[Here]) /\ Peopled(ChatOf[Here])
  /\ shown' = [shown EXCEPT ![Here] = Head(changes)[2]]
  /\ UNCHANGED <<threemaVars, watchVars, runVars, stageVars, journalVars, view, fresh>>

AckMessage ==
  /\ dpc = "delivered" /\ dpc' = "idle" /\ changes' = Tail(changes)
  /\ view' = None /\ fresh' = TRUE
  /\ UNCHANGED <<threemaVars, watchVars, runVars, stageVars, latest, meta, metaPending,
                 matrixVars>>

DeliveryFails ==
  /\ dpc # "idle" /\ dpc' = "idle" /\ view' = None /\ fresh' = TRUE
  /\ UNCHANGED <<threemaVars, watchVars, runVars, stageVars, journalVars, matrixVars>>

\* Or it fails half way: with a room that is made and not bound, or with its room and
\* members and without the message.
HalfWay ==
  /\ dpc = "message" /\ dpc' = "idle" /\ view' = None /\ fresh' = TRUE
  /\ \/ /\ rooms[ChatOf[Here]] = <<0, 0>>
        /\ rooms' = [rooms EXCEPT ![ChatOf[Here]] = <<Named(ChatOf[Here]), 0>>]
        /\ UNCHANGED <<portals, misnamed>>
     \/ Ensure(ChatOf[Here]) /\ Peopled(ChatOf[Here])
  /\ UNCHANGED <<threemaVars, watchVars, runVars, stageVars, journalVars, shown>>

-----------------------------------------------------------------------------

ThreemaStep ==
  \/ \E m \in Messages : RemoveRecord(m) \/ \E content \in Contents : Change(m, content)
  \/ \E c \in Chats : WatchFails(c) \/ \E kind \in Kinds : Reshape(c, kind)
EpochStep ==
  \/ WatchTopology \/ ListChats \/ ReadDirectory \/ AttachedAll \/ StagePage \/ Commit
  \/ GoLive \/ ResetArrives \/ EpochAborted \/ Cleanup
  \/ \E c \in Chats : Attach(c) \/ ReadPage(c)
LiveStep(c) == Consume(c) \/ Overflow(c)
DeliveryProgress == \/ BeginMetadata \/ ApplyMetadata \/ AckMetadata
                    \/ BeginMessage \/ ApplyMessage \/ AckMessage
Next == \/ Start \/ Crash \/ ThreemaStep \/ EpochStep \/ Resync \/ PeriodOver \/ EpochFails
        \/ DeliveryProgress \/ DeliveryFails \/ HalfWay
        \/ \E c \in Chats : LiveStep(c)

Spec == Init /\ [][Next]_vars

-----------------------------------------------------------------------------
(* Safety.                                                                 *)

\* What a sequence of changes makes of a message, if it starts as was.
Outcome(m, was, log) ==
  LET mine == {i \in DOMAIN log : log[i][1] = m}
  IN IF mine = {} THEN was ELSE log[Max(mine)][2]

\* While delivery is enabled and no reset is under way, the journal has what
\* Threema has, but for what the watches still hold back: no change fell between
\* the history and the live messages, and none was overtaken for good.
\* (With the types of the module.)
LiveRecorded ==
  /\ SyncTypeOK
  /\ Ready /\ topoWatch = "on" /\ (\A c \in attached : watch[c] = "on") =>
       /\ meta.list = topo /\ meta.dir = topo
       /\ \A m \in Messages : native[m] # 0 =>
            Outcome(m, latest[m], events[ChatOf[m]]) = native[m]

\* Matrix shows what the journal last recorded, once the changes that are still
\* listed are applied: none is dropped or passed, whatever crashes and fails.
NothingSkipped == \A m \in Messages : Outcome(m, shown[m], changes) = latest[m]

\* The bound room of a chat that has messages has the name and members of the stored
\* epoch, unless that waits to be applied, however an epoch is replaced under a
\* delivery.  The room of an emptied chat is left alone; a room found by its alias under
\* another name keeps that until an epoch is applied; and nobody is in a room before the
\* first message that is no deletion.
RoomsFollow ==
  meta # None /\ ~metaPending =>
    \A c \in meta.active \cap portals :
      /\ c \notin misnamed => rooms[c][1] = meta.list[c]
      /\ rooms[c][2] \in {0, meta.dir[c]}

-----------------------------------------------------------------------------
(* Liveness.                                                               *)

\* The synchronizer, the ports and the delivery go on.  Delivery is enabled again
\* and again only, because of the periodic epochs.
SyncFairness ==
  /\ WF_vars(Start) /\ WF_vars(EpochStep) /\ SF_vars(DeliveryProgress)
  /\ \A c \in Chats : WF_vars(LiveStep(c))
FairSpec == Spec /\ SyncFairness

\* In the end no request fails and no watch breaks, after any number of times, and
\* the hour of an epoch is enough to deliver what there is.
HasWork == dpc # "idle" \/ metaPending \/ changes # <<>>
Failure ==
  \/ EpochFails \/ DeliveryFails \/ HalfWay \/ Resync \/ Crash \/ (PeriodOver /\ HasWork)
  \/ \E c \in Chats : WatchFails(c)
Steady == <>[][~Failure]_vars

\* The first change belongs to a conversation that is gone, or to a sender who is:
\* the delivery of the profile does not get past it.
Blocked == changes # <<>> /\ meta # None /\ ~Deliverable(Here)

\* Matrix comes to show every message as Threema has it, and goes on to, unless the
\* delivery is blocked.
Converges ==
  Steady => \/ <>[](\A m \in Messages : native[m] # 0 => shown[m] = native[m])
            \/ <>[]Blocked
=============================================================================
