----------------------------- MODULE TextOutbox -----------------------------
(***************************************************************************)
(* The durable text outbox: OutboxStore (src/outbox/store.ts), the worker  *)
(* and dispatcher that drain it (worker.ts, dispatcher.ts), the allocation *)
(* handshake with the Threema backend thread (send-allocation.ts,          *)
(* backend-controller.ts) and the two paths that confirm a send: the echo  *)
(* of the message in the journal (echo.ts) and the scan of retained        *)
(* history after a resynchronisation (reconcile-retained.ts).              *)
(*                                                                         *)
(* A request stands for one Matrix event of the owner.  A retry deadline   *)
(* is abstracted to "deferred", the contents of a message to nothing.      *)
(***************************************************************************)
EXTENDS Naturals, FiniteSets

CONSTANTS Requests,   \* owner text events, one outbox row each
          Chats,      \* Threema conversations
          ChatOf,     \* the conversation a request is addressed to
          Source,     \* position of the event in the inbox, 0 when unknown
          Ids,        \* Threema message identifiers
          None        \* no request

ASSUME ConstantsAssumption ==
  /\ ChatOf \in [Requests -> Chats]
  /\ Source \in [Requests -> Nat]
  /\ None \notin Requests

VARIABLES
  \* outbox database
  state,      \* state column of table requests, "absent" before the insert
  slot,       \* sequence column, 0 while absent
  lastSlot,   \* AUTOINCREMENT counter of that column
  parts,      \* message identifiers recorded for a request
  observed,   \* identifiers whose part row has observed=1
  deferred,   \* requests whose retry_at lies in the future
  rejected,   \* events in table rejections
  \* dispatcher loop, in memory
  pc,         \* where the loop stands
  cur,        \* the candidate it is working on
  halting,    \* stop() has aborted the loop
  \* backend thread and the port to it, in memory
  backend,    \* "up", "dying" (requests rejected, thread running), "down"
  call,       \* progress of the sendText call in the thread
  callIds,    \* identifiers the thread offered for it
  \* Threema
  native,     \* messages created from outbox sends
  foreign,    \* messages of other devices and people
  evidenced,  \* messages with a sent, delivered or read timestamp
  \* message journal and portal store
  journaled,  \* latest snapshot committed to the journal
  changes,    \* undelivered journal changes
  projected,  \* messages sent into the room as a new Matrix event
  \* history
  handed      \* how often a request was given to sender.send

storeVars == <<state, slot, lastSlot, parts, observed, deferred, rejected>>
loopVars == <<pc, cur, halting>>
callVars == <<backend, call, callIds>>
nativeVars == <<native, foreign, evidenced>>
journalVars == <<journaled, changes, projected>>
vars == <<storeVars, loopVars, callVars, nativeVars, journalVars, handed>>

States == {"absent", "PREPARED", "DISPATCHING", "SENT", "OUTCOME_UNKNOWN", "ACKED"}
Attempted == {"DISPATCHING", "SENT", "OUTCOME_UNKNOWN", "ACKED"}
Snapshots == {"local", "confirmed"}

TypeOK ==
  /\ state \in [Requests -> States]
  /\ slot \in [Requests -> Nat]
  /\ lastSlot \in Nat
  /\ parts \in [Requests -> SUBSET Ids]
  /\ observed \in SUBSET Ids
  /\ deferred \in SUBSET Requests
  /\ rejected \in SUBSET Requests
  /\ pc \in {"stopped", "drain", "flush", "check", "send"}
  /\ cur \in Requests \cup {None}
  /\ halting \in BOOLEAN
  /\ backend \in {"up", "dying", "down"}
  /\ call \in {"idle", "requested", "offered", "committed", "granted", "done", "failed"}
  /\ callIds \in SUBSET Ids
  /\ native \in SUBSET Ids
  /\ foreign \in SUBSET Ids
  /\ evidenced \in SUBSET Ids
  /\ journaled \in [Ids -> Snapshots \cup {"none"}]
  /\ changes \in SUBSET (Ids \X Snapshots)
  /\ projected \in SUBSET Ids
  /\ handed \in [Requests -> Nat]

Init ==
  /\ state = [r \in Requests |-> "absent"]
  /\ slot = [r \in Requests |-> 0]
  /\ lastSlot = 0
  /\ parts = [r \in Requests |-> {}]
  /\ observed = {}
  /\ deferred = {}
  /\ rejected = {}
  /\ pc = "stopped" /\ cur = None /\ halting = FALSE
  /\ backend = "down" /\ call = "idle" /\ callIds = {}
  /\ native = {} /\ foreign = {} /\ evidenced = {}
  /\ journaled = [i \in Ids |-> "none"]
  /\ changes = {} /\ projected = {}
  /\ handed = [r \in Requests |-> 0]

-----------------------------------------------------------------------------
(* Plausible bugs: each replaces the definition named in its comment, and  *)
(* the runs must notice.                                                   *)

OvertakeDeferred == {"DISPATCHING", "OUTCOME_UNKNOWN"}             \* Blocking
ForgetClaims == {"SENT"}                                           \* Interrupted
ResendInterrupted == [r \in Requests |->                           \* Recovered
  IF state[r] = "DISPATCHING" THEN "PREPARED"
  ELSE IF state[r] = "SENT" THEN "OUTCOME_UNKNOWN" ELSE state[r]]
UnknownAlways(r) == [state EXCEPT ![r] = "OUTCOME_UNKNOWN"]        \* MarkedUnknown
MoveUncertain == {"PREPARED", "OUTCOME_UNKNOWN"}                   \* Movable
KeepInsertionOrder(f) == f = slot                                  \* Reordered
IgnoreRejection(r) == state[r] = "absent"                          \* Acceptable
SendOnOffer == {"offered", "committed"}                            \* Acknowledged
OwnedWhenSent(i) ==                                                \* Foreign
  \A r \in Requests : state[r] \in {"SENT", "ACKED"} => i \notin parts[r]
ObserveSentOnly(i) ==                                              \* Observe
  \E r \in Requests :
    /\ i \in parts[r]
    /\ observed' = observed \cup {i}
    /\ state' = IF parts[r] \subseteq observed \cup {i} /\ state[r] = "SENT"
                  THEN [state EXCEPT ![r] = "ACKED"] ELSE state
LocalIsEnough == {"local", "confirmed"}                            \* Convincing
-----------------------------------------------------------------------------
(* Queue order.                                                            *)

Before(r, s) == ChatOf[r] = ChatOf[s] /\ 0 < slot[r] /\ slot[r] < slot[s]

\* What holds a later request of the chat back: an unsettled earlier one.
Blocking == {"PREPARED", "DISPATCHING", "OUTCOME_UNKNOWN"}

Eligible(r) ==
  /\ state[r] = "PREPARED"
  /\ r \notin deferred
  /\ \A s \in Requests : Before(s, r) => state[s] \notin Blocking

\* nextPrepared: the lowest sequence among the eligible rows.
NextPrepared(r) ==
  /\ Eligible(r)
  /\ \A s \in Requests : Eligible(s) => slot[r] <= slot[s]

Recorded == UNION {parts[r] : r \in Requests}

-----------------------------------------------------------------------------
(* Store operations, as the functions of state they assign.                *)

\* recoverInterrupted: neither a claim nor a local result proves a send.
Interrupted == {"DISPATCHING", "SENT"}
Recovered == [r \in Requests |->
                IF state[r] \in Interrupted THEN "OUTCOME_UNKNOWN" ELSE state[r]]

\* unknown(id): only a row still DISPATCHING becomes uncertain.
MarkedUnknown(r) ==
  IF state[r] = "DISPATCHING" THEN [state EXCEPT ![r] = "OUTCOME_UNKNOWN"] ELSE state

\* observe(profile, chat, message): mark the part, acknowledge the full set.
Observe(i) ==
  \E r \in Requests :
    /\ i \in parts[r]
    /\ observed' = observed \cup {i}
    /\ state' = IF parts[r] \subseteq observed \cup {i}
                  THEN [state EXCEPT ![r] = "ACKED"] ELSE state

\* reorderPrepared: the PREPARED rows of a chat permute their own slots into
\* source order; a chat with a row of unknown position is left as it is.
Movable == {"PREPARED"}
Waiting(c) == {r \in Requests : state[r] \in Movable /\ ChatOf[r] = c}
Sortable(c) == \A r \in Waiting(c) : Source[r] # 0
Reordered(f) ==
  /\ \A r \in Requests :
       state[r] \notin Movable \/ ~Sortable(ChatOf[r]) => f[r] = slot[r]
  /\ \A c \in Chats : {f[r] : r \in Waiting(c)} = {slot[r] : r \in Waiting(c)}
  /\ \A c \in Chats : \A r, s \in Waiting(c) : r # s => f[r] # f[s]
  /\ \A c \in Chats : Sortable(c) =>
       \A r, s \in Waiting(c) : Source[r] < Source[s] => f[r] < f[s]

-----------------------------------------------------------------------------
(* The dispatcher loop.                                                    *)

\* start(): a new process, recovery before the first pass.
Start ==
  /\ pc = "stopped"
  /\ state' = Recovered
  /\ pc' = "drain" /\ cur' = None /\ halting' = FALSE
  /\ backend' = "up" /\ call' = "idle" /\ callIds' = {}
  /\ UNCHANGED <<slot, lastSlot, parts, observed, deferred, rejected,
                 nativeVars, journalVars, handed>>

\* A known event keeps its stored row; a rejected one makes prepare throw.
Acceptable(r) == state[r] = "absent" /\ r \notin rejected

\* ingress.drain queues an event.  The inbox decides which event is next (see
\* SourceOrder); here any may be.
Prepare(r) ==
  /\ pc = "drain" /\ ~halting
  /\ Acceptable(r)
  /\ state' = [state EXCEPT ![r] = "PREPARED"]
  /\ lastSlot' = lastSlot + 1
  /\ slot' = [slot EXCEPT ![r] = lastSlot + 1]
  /\ UNCHANGED <<parts, observed, deferred, rejected, loopVars, callVars,
                 nativeVars, journalVars, handed>>

\* rejectEvent: by the ingress (text too long) or by the unsupported-notice
\* worker, which runs beside the loop.  An accepted event cannot be rejected.
RejectEvent(r) ==
  /\ pc # "stopped"
  /\ state[r] = "absent" /\ r \notin rejected
  /\ rejected' = rejected \cup {r}
  /\ UNCHANGED <<state, slot, lastSlot, parts, observed, deferred, loopVars,
                 callVars, nativeVars, journalVars, handed>>

\* The drain of a pass ends with reorderPrepared.
EndDrain ==
  /\ pc = "drain" /\ ~halting
  /\ \E f \in [Requests -> 0..lastSlot] : Reordered(f) /\ slot' = f
  /\ pc' = "flush"
  /\ UNCHANGED <<state, lastSlot, parts, observed, deferred, rejected, cur, halting,
                 callVars, nativeVars, journalVars, handed>>

\* flushOne picks a candidate and starts the asynchronous preflight.
BeginCheck ==
  /\ pc = "flush" /\ ~halting
  /\ \E r \in Requests : NextPrepared(r) /\ cur' = r
  /\ pc' = "check"
  /\ UNCHANGED <<storeVars, halting, callVars, nativeVars, journalVars, handed>>

\* deferPreflight: a failed preflight leaves the row PREPARED, for later.
CheckFails ==
  /\ pc = "check"
  /\ deferred' = IF state[cur] = "PREPARED" THEN deferred \cup {cur} ELSE deferred
  /\ pc' = "flush"
  /\ cur' = None
  /\ UNCHANGED <<state, slot, lastSlot, parts, observed, rejected, halting, callVars,
                 nativeVars, journalVars, handed>>

\* claim(expectedId) looks the next row up again in its transaction.
StillNext(r) == NextPrepared(r)

\* The preflight passed: claim the row, then hand it to the backend.  A dead
\* backend rejects the request without posting it.
Claim ==
  /\ pc = "check" /\ ~halting
  /\ StillNext(cur)
  /\ state' = [state EXCEPT ![cur] = "DISPATCHING"]
  /\ handed' = [handed EXCEPT ![cur] = @ + 1]
  /\ pc' = "send"
  /\ IF backend = "up" THEN call' = "requested" /\ callIds' = {}
                       ELSE UNCHANGED <<call, callIds>>
  /\ UNCHANGED <<slot, lastSlot, parts, observed, deferred, rejected, cur, halting,
                 backend, nativeVars, journalVars>>

\* The preflight passed but the loop is not ready any more, or the row is no
\* longer the next one: flushOne returns false and the pass is over.
Decline ==
  /\ pc = "check"
  /\ pc' = "drain"
  /\ cur' = None
  /\ UNCHANGED <<storeVars, halting, callVars, nativeVars, journalVars, handed>>

\* Nothing to send, not ready, or the batch is used up: wait, then next pass.
EndPass ==
  /\ pc = "flush" /\ ~halting
  /\ pc' = "drain"
  /\ UNCHANGED <<storeVars, cur, halting, callVars, nativeVars, journalVars, handed>>

\* stop() aborts; the loop leaves when what it awaits has ended.
Stop ==
  /\ pc # "stopped" /\ ~halting
  /\ halting' = TRUE
  /\ UNCHANGED <<storeVars, pc, cur, callVars, nativeVars, journalVars, handed>>

LoopExit ==
  /\ halting /\ pc \in {"drain", "flush"}
  /\ pc' = "stopped"
  /\ UNCHANGED <<storeVars, cur, halting, callVars, nativeVars, journalVars, handed>>

\* A retry deadline passes; retryPrepared clears them all on request.
RetryDue(r) ==
  /\ r \in deferred
  /\ deferred' = deferred \ {r}
  /\ UNCHANGED <<state, slot, lastSlot, parts, observed, rejected, loopVars, callVars,
                 nativeVars, journalVars, handed>>

RetryPrepared ==
  /\ pc # "stopped"
  /\ deferred' = {r \in deferred : state[r] # "PREPARED"}
  /\ UNCHANGED <<state, slot, lastSlot, parts, observed, rejected, loopVars, callVars,
                 nativeVars, journalVars, handed>>

-----------------------------------------------------------------------------
(* The send in the backend thread and the allocation handshake.            *)

\* A parent still waits for this call on an open port.
Awaited == pc = "send" /\ backend = "up"

\* SendAllocation.record: the thread offers the identifiers it will use.
\* Desktop draws them unused.
Allocate ==
  /\ Awaited /\ call = "requested"
  /\ \E S \in SUBSET (Ids \ (native \cup foreign)) : S # {} /\ callIds' = S
  /\ call' = "offered"
  /\ UNCHANGED <<storeVars, loopVars, backend, nativeVars, journalVars, handed>>

\* recordIds accepts identifiers no other request owns.
Allocatable(r) ==
  /\ state[r] = "DISPATCHING"
  /\ IF parts[r] # {} THEN parts[r] = callIds ELSE callIds \cap Recorded = {}

\* acceptSendAllocation: persist, then acknowledge ...
RecordIds ==
  /\ Awaited /\ call = "offered" /\ Allocatable(cur)
  /\ parts' = [parts EXCEPT ![cur] = callIds]
  /\ call' = "committed"
  /\ UNCHANGED <<state, slot, lastSlot, observed, deferred, rejected, loopVars,
                 backend, callIds, nativeVars, journalVars, handed>>

\* ... or close the port.
RefuseIds ==
  /\ Awaited /\ call = "offered" /\ ~Allocatable(cur)
  /\ call' = "failed"
  /\ UNCHANGED <<storeVars, loopVars, backend, callIds, nativeVars, journalVars, handed>>

\* The thread may send once it has seen the acknowledgement of its offer.
Acknowledged == {"committed"}
ReceiveCommit ==
  /\ backend # "down" /\ call \in Acknowledged
  /\ call' = "granted"
  /\ UNCHANGED <<storeVars, loopVars, backend, callIds, nativeVars, journalVars, handed>>

\* No acknowledgement within the time limit, or an error before the send.
CallErrs ==
  /\ backend # "down" /\ call \in {"requested", "offered", "committed"}
  /\ call' = "failed"
  /\ UNCHANGED <<storeVars, loopVars, backend, callIds, nativeVars, journalVars, handed>>

\* Desktop creates the local messages: all of them, or it fails part way.
NativeSend ==
  /\ backend # "down" /\ call = "granted"
  /\ \E S \in SUBSET callIds :
       /\ native' = native \cup S
       /\ call' = IF S = callIds THEN "done" ELSE "failed"
  /\ UNCHANGED <<storeVars, loopVars, backend, callIds, foreign, evidenced, journalVars,
                 handed>>

\* The result arrives: sent() keeps an ACKED row as it is.
Settled(r) == IF state[r] = "ACKED" THEN "ACKED" ELSE "SENT"
CallReturns ==
  /\ Awaited /\ call = "done"
  /\ state[cur] \in {"DISPATCHING", "ACKED"} /\ parts[cur] = callIds
  /\ state' = [state EXCEPT ![cur] = Settled(cur)]
  /\ pc' = "flush" /\ cur' = None
  /\ call' = "idle" /\ callIds' = {}
  /\ UNCHANGED <<slot, lastSlot, parts, observed, deferred, rejected, halting, backend,
                 nativeVars, journalVars, handed>>

\* The send is rejected: an error of the thread, or no backend to take it.
CallRejected ==
  /\ pc = "send"
  /\ call = "failed" \/ backend # "up"
  /\ state' = MarkedUnknown(cur)
  /\ pc' = "flush" /\ cur' = None
  /\ IF backend = "up" THEN call' = "idle" /\ callIds' = {}
                       ELSE UNCHANGED <<call, callIds>>
  /\ UNCHANGED <<slot, lastSlot, parts, observed, deferred, rejected, halting, backend,
                 nativeVars, journalVars, handed>>

\* stopWithError: every pending request is rejected before the thread ends,
\* so a send that was granted can still happen afterwards.
BackendDies ==
  /\ pc # "stopped" /\ backend = "up"
  /\ backend' = "dying"
  /\ IF pc = "send"
       THEN state' = MarkedUnknown(cur) /\ pc' = "flush" /\ cur' = None
       ELSE UNCHANGED <<state, pc, cur>>
  /\ UNCHANGED <<slot, lastSlot, parts, observed, deferred, rejected, halting, call,
                 callIds, nativeVars, journalVars, handed>>

BackendTerminated ==
  /\ backend = "dying"
  /\ backend' = "down" /\ call' = "idle" /\ callIds' = {}
  /\ UNCHANGED <<storeVars, loopVars, nativeVars, journalVars, handed>>

\* The process is killed: everything in memory is gone.
Crash ==
  /\ pc # "stopped"
  /\ pc' = "stopped" /\ cur' = None /\ halting' = FALSE
  /\ backend' = "down" /\ call' = "idle" /\ callIds' = {}
  /\ UNCHANGED <<storeVars, nativeVars, journalVars, handed>>

-----------------------------------------------------------------------------
(* Evidence coming back.                                                   *)

\* Somebody else writes, or the owner does on another device.
ForeignMessage(i) ==
  /\ i \notin native \cup foreign \cup Recorded \cup callIds
  /\ foreign' = foreign \cup {i}
  /\ UNCHANGED <<storeVars, loopVars, callVars, native, evidenced, journalVars, handed>>

\* The Threema server takes the message; a timestamp appears on it.
TransportAccepts(i) ==
  /\ i \in native \ evidenced
  /\ evidenced' = evidenced \cup {i}
  /\ UNCHANGED <<storeVars, loopVars, callVars, native, foreign, journalVars, handed>>

\* hasOutboundDeliveryEvidence tells a local insertion from an accepted send.
Snapshot(i) == IF i \in evidenced THEN "confirmed" ELSE "local"

\* upsert: commit the latest state of the message and a change to deliver.
JournalUpsert(i) ==
  /\ pc # "stopped" /\ backend = "up"
  /\ i \in native \cup foreign /\ journaled[i] # Snapshot(i)
  /\ journaled' = [journaled EXCEPT ![i] = Snapshot(i)]
  /\ changes' = changes \cup {<<i, Snapshot(i)>>}
  /\ UNCHANGED <<storeVars, loopVars, callVars, nativeVars, projected, handed>>

\* Journal changes are delivered in order.
FirstChange(i, e) ==
  /\ pc # "stopped"
  /\ <<i, e>> \in changes
  /\ e = "confirmed" => <<i, "local">> \notin changes

\* reconcileOutboundEcho, for a request of one message: bind the message to
\* the owner's event (the portal store, not modelled here), then mark a
\* confirmed part observed.  The change stays pending when the process dies,
\* or the rest of the sink fails, before it is acknowledged.
EchoObserve(i, e) ==
  /\ FirstChange(i, e)
  /\ \E r \in Requests : parts[r] = {i}
  /\ IF e = "confirmed" THEN Observe(i) ELSE UNCHANGED <<state, observed>>
  /\ \E acknowledged \in BOOLEAN :
       changes' = IF acknowledged THEN changes \ {<<i, e>>} ELSE changes
  /\ UNCHANGED <<slot, lastSlot, parts, deferred, rejected, loopVars, callVars,
                 nativeVars, journaled, projected, handed>>

\* A message no request owns is somebody else's: it becomes a room event.
Foreign(i) == i \notin Recorded
ProjectForeign(i, e) ==
  /\ FirstChange(i, e) /\ Foreign(i)
  /\ projected' = projected \cup {i}
  /\ changes' = changes \ {<<i, e>>}
  /\ UNCHANGED <<storeVars, loopVars, callVars, nativeVars, journaled, handed>>

\* reconcileRetainedConfirmations: evidence in the committed journal.
Convincing == {"confirmed"}
RetainedConfirm(i) ==
  /\ pc # "stopped"
  /\ journaled[i] \in Convincing
  /\ \E r \in Requests : i \in parts[r] /\ state[r] # "ACKED"
  /\ Observe(i)
  /\ UNCHANGED <<slot, lastSlot, parts, deferred, rejected, loopVars, callVars,
                 nativeVars, journalVars, handed>>

-----------------------------------------------------------------------------

LoopStep == \/ Start \/ EndDrain \/ BeginCheck \/ CheckFails \/ Claim \/ Decline
            \/ EndPass \/ Stop \/ LoopExit \/ RetryPrepared
            \/ \E r \in Requests : Prepare(r) \/ RejectEvent(r) \/ RetryDue(r)
CallStep == \/ Allocate \/ RecordIds \/ RefuseIds \/ ReceiveCommit \/ CallErrs
            \/ NativeSend \/ CallReturns \/ CallRejected \/ BackendDies
            \/ BackendTerminated \/ Crash
EvidenceStep ==
  \/ \E i \in Ids : ForeignMessage(i) \/ TransportAccepts(i) \/ JournalUpsert(i)
                    \/ RetainedConfirm(i)
  \/ \E i \in Ids, e \in Snapshots : EchoObserve(i, e) \/ ProjectForeign(i, e)

Next == LoopStep \/ CallStep \/ EvidenceStep

Spec == Init /\ [][Next]_vars

-----------------------------------------------------------------------------
(* Safety.                                                                 *)

\* A request is given to the backend at most once, whatever fails or is
\* restarted, and it has been given exactly when its row says so.
AtMostOnce ==
  \A r \in Requests :
    handed[r] = IF state[r] \in Attempted THEN 1 ELSE 0

\* Every message in Threema that came from the outbox has an owner row: the
\* identifiers are durable before the thread may send.
OwnedBeforeNative == native \subseteq Recorded

\* Acknowledged means every part is in Threema with delivery evidence.
AckedIsEvidenced ==
  \A r \in Requests :
    state[r] = "ACKED" => parts[r] # {} /\ parts[r] \subseteq native \cap evidenced

\* The owner's own message never comes back as a second Matrix event.
NoDuplicateProjection == projected \cap native = {}

\* An attempted request has no unattempted elder in its chat, even when the
\* elder was deferred or the queue reordered in between.
AttemptOrder ==
  \A r, s \in Requests :
    Before(r, s) /\ state[s] \in Attempted => state[r] \in Attempted

\* A claim outlives neither its send nor its process: a row is DISPATCHING
\* only while the loop awaits it, or until the next start recovers it.
NoOrphanClaim ==
  \A r \in Requests :
    state[r] = "DISPATCHING" => pc = "stopped" \/ (pc = "send" /\ cur = r)

\* An event is sent or refused with a notice, never both.
OneFate == \A r \in rejected : state[r] = "absent"

\* Once acknowledged a request stays so: a failure, result or recovery that
\* comes after the echo does not take it back.
AckedForever ==
  [][\A r \in Requests : state[r] = "ACKED" => state'[r] = "ACKED"]_vars

\* A claim takes the earliest source event waiting in its chat, although the
\* inbox may have delivered the events in another order.  One event of unknown
\* origin suspends the promise for its chat.
Sourced(c) == \A r \in Requests : ChatOf[r] = c => Source[r] # 0
ClaimsInSourceOrder ==
  [][\A r, s \in Requests :
       /\ state[r] = "PREPARED" /\ state'[r] = "DISPATCHING"
       /\ state[s] = "PREPARED" /\ ChatOf[s] = ChatOf[r] /\ Sourced(ChatOf[r])
       => Source[r] <= Source[s]]_vars

\* The outbox delivers each request at most once and in order, seen from
\* outside.
Abs == INSTANCE AtMostOnceDelivery WITH
         accepted <- {r \in Requests : state[r] # "absent"},
         refused <- rejected,
         turn <- slot,
         delivered <- {r \in Requests : parts[r] \cap native # {}},
         confirmed <- {r \in Requests : state[r] = "ACKED"}
DeliversAtMostOnce == Abs!Spec

-----------------------------------------------------------------------------
(* The inductive invariant behind these properties (TextOutboxProofs).     *)

\* Slots of stored rows are positive, distinct and below the counter.
SlotsDistinct ==
  /\ \A r \in Requests : (state[r] = "absent" <=> slot[r] = 0) /\ slot[r] <= lastSlot
  /\ \A r, s \in Requests : slot[r] = slot[s] /\ slot[r] # 0 => r = s

\* The loop works on a row it has looked up, and sends one it has claimed.
LoopHasRow ==
  /\ pc \in {"check", "send"} => cur \in Requests
  /\ pc = "send" => state[cur] \in {"DISPATCHING", "ACKED"}

\* While a row is being sent nothing younger of its chat has been attempted.
DispatchLeads ==
  \A r, s \in Requests :
    Before(r, s) /\ state[r] = "DISPATCHING" => state[s] \notin Attempted

PartsOwned ==
  /\ \A r \in Requests : parts[r] # {} => state[r] \in Attempted
  /\ \A r, s \in Requests : r # s => parts[r] \cap parts[s] = {}

\* Evidence is never claimed before it exists, at any stage of its way back.
EvidenceTrail ==
  /\ observed \subseteq evidenced /\ evidenced \subseteq native
  /\ \A i \in Ids : journaled[i] # "none" => i \in native \cup foreign
  /\ \A i \in Ids : journaled[i] = "confirmed" => i \in evidenced
  /\ \A i \in Ids, e \in Snapshots : <<i, e>> \in changes =>
       i \in native \cup foreign /\ (e = "confirmed" => i \in evidenced)
  /\ \A r \in Requests : state[r] = "ACKED" => parts[r] # {} /\ parts[r] \subseteq observed

\* Messages of others share no identifier with requests, recorded or on offer.
ForeignApart ==
  /\ foreign \cap native = {} /\ foreign \cap Recorded = {} /\ foreign \cap callIds = {}
  /\ projected \subseteq foreign

\* A live call: nothing of it exists yet, and once its identifiers are
\* recorded its row still holds back the younger rows of the chat.
CallLeads ==
  /\ call \in {"offered", "committed", "granted"} => callIds # {} /\ callIds \cap native = {}
  /\ call \in {"committed", "granted"} =>
       \E r \in Requests :
         /\ parts[r] = callIds
         /\ state[r] \in {"DISPATCHING", "OUTCOME_UNKNOWN"}
         /\ \A s \in Requests : Before(r, s) => state[s] \notin Attempted

\* Between two drains the waiting rows of a chat are in source order.
FlushSorted ==
  pc \in {"flush", "check", "send"} =>
    \A r, s \in Requests :
      /\ state[r] = "PREPARED" /\ state[s] = "PREPARED"
      /\ ChatOf[r] = ChatOf[s] /\ Sourced(ChatOf[r])
      /\ Source[r] < Source[s]
      => slot[r] < slot[s]

IInv == /\ TypeOK /\ SlotsDistinct
        /\ LoopHasRow /\ NoOrphanClaim /\ AtMostOnce
        /\ AttemptOrder /\ DispatchLeads
        /\ PartsOwned /\ OwnedBeforeNative /\ EvidenceTrail /\ ForeignApart /\ CallLeads
        /\ OneFate /\ FlushSorted

-----------------------------------------------------------------------------
(* Liveness.  The service restarts a stopped profile, a running loop goes  *)
(* on, and every call to the thread ends (it has a limit on the            *)
(* acknowledgement, and Desktop is assumed to return).  Crashes, failing   *)
(* preflights and lost readiness may recur but not for ever stand in the   *)
(* way: steps they can preempt are strongly fair.  Nobody is obliged to    *)
(* write, reject, stop, crash or lose the backend.                         *)

CallProgress == Allocate \/ RecordIds \/ RefuseIds \/ ReceiveCommit \/ CallErrs
                \/ NativeSend \/ CallReturns \/ CallRejected

CheckEnds == CheckFails \/ Claim \/ Decline

LoopFairness ==
  /\ WF_vars(Start) /\ WF_vars(LoopExit) /\ WF_vars(BackendTerminated)
  /\ WF_vars(CheckEnds) /\ WF_vars(CallProgress)
  /\ SF_vars(EndDrain) /\ SF_vars(BeginCheck) /\ SF_vars(Claim)
  /\ \A r \in Requests : WF_vars(RetryDue(r))

\* The journal follows Threema and its changes are delivered, again and
\* again until acknowledged.  Nothing in the service replaces a backend thread
\* that is gone: an operator has to restart the profile.
StopForRestart == backend = "down" /\ Stop
EchoFairness ==
  /\ WF_vars(Start) /\ WF_vars(LoopExit) /\ WF_vars(BackendTerminated)
  /\ WF_vars(CheckEnds) /\ WF_vars(CallProgress) /\ WF_vars(StopForRestart)
  /\ \A i \in Ids : SF_vars(JournalUpsert(i))
  /\ \A i \in Ids, e \in Snapshots : SF_vars(EchoObserve(i, e))

FairSpec == Spec /\ LoopFairness /\ EchoFairness

\* A waiting request is attempted in the end, unless an elder in its chat is
\* uncertain; in particular a claim left by a crash does not block the chat
\* as an invisible DISPATCHING row.
PreparedProceeds ==
  \A r \in Requests :
    state[r] = "PREPARED"
      ~> \/ state[r] \in Attempted
         \/ \E s \in Requests : Before(s, r) /\ state[s] = "OUTCOME_UNKNOWN"

\* A text (one message) Threema has evidently accepted is acknowledged in the
\* end, also when its send had been written off as uncertain.
EvidenceSettles ==
  \A r \in Requests, i \in Ids :
    parts[r] = {i} /\ i \in evidenced ~> state[r] = "ACKED"
=============================================================================
