---------------------------- MODULE MediaOutbox ----------------------------
(***************************************************************************)
(* The durable outbox of attachments: MediaJournal (src/outbox/            *)
(* media-journal.ts), the dispatcher that prepares and sends them (media-  *)
(* dispatcher.ts) and the text quote sent before an attachment that is a   *)
(* reply (media-reply.ts), which Threema's attachments cannot express.     *)
(* An attachment is two sends then, each with a state and a message of its *)
(* own, and a file in the spool that somebody has to remove.               *)
(*                                                                         *)
(* A request stands for one attachment of the owner.  Contents, kinds and  *)
(* their canonical projections are abstracted away, a retry deadline to    *)
(* "deferred".  The identifiers Desktop draws are 64 random bits: none is  *)
(* drawn twice.                                                            *)
(***************************************************************************)
EXTENDS Naturals

CONSTANTS Requests,   \* attachments of the owner, one row each
          Chats,      \* Threema conversations
          ChatOf,     \* the conversation a request is addressed to
          Quoting,    \* requests that reply to a message
          Ids,        \* Threema message identifiers
          MaxRows,    \* bound: attachments that are ever stored
          None        \* no request, no identifier

ASSUME MediaAssumption ==
  /\ ChatOf \in [Requests -> Chats]
  /\ Quoting \subseteq Requests
  /\ None \notin Requests /\ None \notin Ids /\ MaxRows \in Nat

VARIABLES
  \* outbox database
  state,      \* state column of media_requests, "absent" before the insert
  slot,       \* sequence column, 0 while absent
  lastSlot,   \* AUTOINCREMENT counter of that column
  part,       \* message identifier recorded for the attachment
  quote,      \* state column of media_replies, "absent" before the insert
  quoteId,    \* message identifier recorded for the quote
  observed,   \* identifiers with observed=1 in media_parts or media_replies
  deferred,   \* requests whose retry_at lies in the future
  \* dispatcher, in memory
  pc,         \* where process stands
  cur,        \* the candidate it is working on
  excluded,   \* chats this pass leaves alone
  cleanup,    \* requests with a file whose removal failed
  spool,      \* files on disk for a request that were never given away
  \* backend thread and Threema
  backend,    \* "up", "dying" (requests rejected, thread running), "down"
  call,       \* progress of the send in the thread
  callId,     \* identifier the thread offered for it
  native,     \* messages created from these sends
  evidenced   \* messages with a sent, delivered or read timestamp

rowVars == <<state, slot, lastSlot, deferred>>
quoteVars == <<quote, quoteId>>
spoolVars == <<excluded, cleanup, spool>>
callVars == <<backend, call, callId>>
nativeVars == <<native, evidenced>>
vars == <<rowVars, part, quoteVars, observed, pc, cur, spoolVars, callVars, nativeVars>>

Journal == {"absent", "PREPARED", "DISPATCHING", "SENT", "OUTCOME_UNKNOWN"}
Attempted == {"DISPATCHING", "SENT", "OUTCOME_UNKNOWN"}

\* The candidate's file is on disk while the dispatcher stands here.
HoldsFile == {"prepared", "quote", "claim", "discard", "leave"}

MediaTypeOK ==
  /\ state \in [Requests -> Journal] /\ quote \in [Requests -> Journal]
  /\ slot \in [Requests -> Nat] /\ lastSlot \in Nat
  /\ part \in [Requests -> Ids \cup {None}]
  /\ quoteId \in [Requests -> Ids \cup {None}]
  /\ observed \in SUBSET Ids
  /\ deferred \in SUBSET Requests
  /\ pc \in HoldsFile \cup {"stopped", "idle", "pick", "prepare", "send"}
  /\ cur \in Requests \cup {None}
  /\ excluded \in SUBSET Chats
  /\ cleanup \in SUBSET Requests
  /\ spool \in [Requests -> Nat]
  /\ backend \in {"up", "dying", "down"}
  /\ call \in {"idle", "requested", "offered", "recorded", "done", "failed"}
  /\ callId \in Ids \cup {None}
  /\ native \in SUBSET Ids /\ evidenced \in SUBSET Ids

Init ==
  /\ state = [r \in Requests |-> "absent"] /\ quote = [r \in Requests |-> "absent"]
  /\ slot = [r \in Requests |-> 0] /\ lastSlot = 0
  /\ part = [r \in Requests |-> None] /\ quoteId = [r \in Requests |-> None]
  /\ observed = {} /\ deferred = {}
  /\ pc = "stopped" /\ cur = None
  /\ excluded = {} /\ cleanup = {} /\ spool = [r \in Requests |-> 0]
  /\ backend = "down" /\ call = "idle" /\ callId = None
  /\ native = {} /\ evidenced = {}

-----------------------------------------------------------------------------
(* Plausible bugs: each replaces the definition named in its comment, and  *)
(* the runs must notice.                                                   *)

QuoteAttempted(r) == quote[r] \in {"SENT", "OUTCOME_UNKNOWN"}      \* QuoteDone
OvertakePrepared == {"DISPATCHING", "OUTCOME_UNKNOWN"}             \* Unsettled
RecordedOnReturn == {"offered", "recorded"}                        \* Granted
CleanupLater(S) == {}                                              \* Skipped
SuppressOnly(r) == quote[r]                                         \* Confirmed
-----------------------------------------------------------------------------
(* Queue order.                                                            *)

Before(r, s) == ChatOf[r] = ChatOf[s] /\ 0 < slot[r] /\ slot[r] < slot[s]

\* What holds a later attachment of the chat back.
Unsettled == {"PREPARED", "DISPATCHING", "OUTCOME_UNKNOWN"}

Eligible(r) ==
  /\ state[r] = "PREPARED" /\ r \notin deferred /\ ChatOf[r] \notin excluded
  /\ \A s \in Requests : Before(s, r) => state[s] \notin Unsettled

\* next(profile, excluded): the lowest sequence among the eligible rows.
NextFile(r) == Eligible(r) /\ \A s \in Requests : Eligible(s) => slot[r] <= slot[s]

Owned == {part[r] : r \in Requests} \cup {quoteId[r] : r \in Requests}

-----------------------------------------------------------------------------
(* Journal operations, as the functions of state they assign.              *)

\* unknown(profile, event) and replyUnknown: only what is being sent becomes
\* uncertain; an echo may have settled it before.
FileUnknown(r) ==
  IF state[r] = "DISPATCHING" THEN [state EXCEPT ![r] = "OUTCOME_UNKNOWN"] ELSE state
QuoteUnknown(r) ==
  IF quote[r] = "DISPATCHING" THEN [quote EXCEPT ![r] = "OUTCOME_UNKNOWN"] ELSE quote

\* recoverInterrupted: a claim, or a local result without evidence, proves
\* nothing after a restart.
Recovered(states, ids) ==
  [r \in Requests |->
     IF states[r] = "DISPATCHING" \/ (states[r] = "SENT" /\ ids[r] \notin observed)
       THEN "OUTCOME_UNKNOWN" ELSE states[r]]

\* deferPreparation: a failure before the claim leaves the row for later.
Deferred(r) == IF state[r] = "PREPARED" THEN deferred \cup {r} ELSE deferred

\* observeReply on a confirmed quote, whatever became of its send.
Confirmed(r) == "SENT"

\* prepareReply stores the quote; a row that is there stays.
ReplyPrepared(r) ==
  IF quote[r] = "absent" THEN [quote EXCEPT ![r] = "PREPARED"] ELSE quote

\* prepare: a row behind all others.
Inserted(r) ==
  /\ state' = [state EXCEPT ![r] = "PREPARED"]
  /\ lastSlot' = lastSlot + 1 /\ slot' = [slot EXCEPT ![r] = lastSlot + 1]

\* observe: a confirmed identifier settles its row, whatever became of its send.
FileObserved(r) ==
  /\ state' = [state EXCEPT ![r] = "SENT"]
  /\ observed' = observed \cup {part[r]}

-----------------------------------------------------------------------------
(* Process and queue.                                                      *)

\* activate(): a new process.  Spools of the old one are removed, interrupted
\* sends recovered, before the first pass.
Start ==
  /\ pc = "stopped"
  /\ state' = Recovered(state, part) /\ quote' = Recovered(quote, quoteId)
  /\ pc' = "idle" /\ backend' = "up"
  /\ UNCHANGED <<slot, lastSlot, deferred, part, quoteId, observed, cur, spoolVars,
                 call, callId, nativeVars>>

\* The process dies, or is stopped: everything in memory is gone.
Crash ==
  /\ pc # "stopped"
  /\ pc' = "stopped" /\ cur' = None
  /\ excluded' = {} /\ cleanup' = {} /\ spool' = [r \in Requests |-> 0]
  /\ backend' = "down" /\ call' = "idle" /\ callId' = None
  /\ UNCHANGED <<rowVars, part, quoteVars, observed, nativeVars>>

\* MediaIngress.drain, in front of a pass, stores an event it has not seen.
Prepare(r) ==
  /\ pc = "idle" /\ state[r] = "absent" /\ lastSlot < MaxRows
  /\ Inserted(r)
  /\ UNCHANGED <<deferred, part, quoteVars, observed, pc, cur, spoolVars, callVars,
                 nativeVars>>

\* A retry deadline passes; retryPrepared clears those of rows whose quote is
\* not uncertain.
RetryDue(r) ==
  /\ r \in deferred
  /\ deferred' = deferred \ {r}
  /\ UNCHANGED <<state, slot, lastSlot, part, quoteVars, observed, pc, cur, spoolVars,
                 callVars, nativeVars>>

RetryPrepared ==
  /\ pc # "stopped"
  /\ deferred' = {r \in deferred : state[r] # "PREPARED" \/ quote[r] = "OUTCOME_UNKNOWN"}
  /\ UNCHANGED <<state, slot, lastSlot, part, quoteVars, observed, pc, cur, spoolVars,
                 callVars, nativeVars>>

-----------------------------------------------------------------------------
(* A pass of the dispatcher.                                               *)

\* The candidate failed before it was sent: later, and not again this pass.
SetAside ==
  /\ deferred' = Deferred(cur)
  /\ excluded' = excluded \cup {ChatOf[cur]}

\* First remove files left over; their chats are skipped if that fails again.
Skipped(S) == {ChatOf[r] : r \in S}
BeginPass ==
  /\ pc = "idle"
  /\ \E S \in SUBSET cleanup :
       /\ cleanup' = S
       /\ excluded' = Skipped(S)
       /\ spool' = [r \in Requests |->
                      IF r \in cleanup \ S THEN spool[r] - 1 ELSE spool[r]]
  /\ pc' = "pick"
  /\ UNCHANGED <<rowVars, part, quoteVars, observed, cur, callVars, nativeVars>>

Pick(r) ==
  /\ pc = "pick" /\ NextFile(r)
  /\ cur' = r /\ pc' = "prepare"
  /\ UNCHANGED <<rowVars, part, quoteVars, observed, spoolVars, callVars, nativeVars>>

\* Nothing to send, not ready, or the batch is used up.
EndPass ==
  /\ pc = "pick"
  /\ pc' = "idle" /\ cur' = None /\ excluded' = {}
  /\ UNCHANGED <<rowVars, part, quoteVars, observed, cleanup, spool, callVars, nativeVars>>

\* The room is authorised and the file downloaded into the spool ...
FilePrepared ==
  /\ pc = "prepare"
  /\ spool' = [spool EXCEPT ![cur] = @ + 1]
  /\ pc' = "prepared"
  /\ UNCHANGED <<rowVars, part, quoteVars, observed, cur, excluded, cleanup, callVars,
                 nativeVars>>

\* ... or not.
PrepareFails ==
  /\ pc = "prepare"
  /\ SetAside
  /\ pc' = "pick"
  /\ UNCHANGED <<state, slot, lastSlot, part, quoteVars, observed, cur, cleanup, spool,
                 callVars, nativeVars>>

\* ready() turned false during one of the awaits: the pass is over.
LoseReady ==
  /\ pc \in {"prepare", "prepared", "claim"}
  /\ pc' = IF pc = "prepare" THEN "idle" ELSE "leave"
  /\ excluded' = IF pc = "prepare" THEN {} ELSE excluded
  /\ UNCHANGED <<rowVars, part, quoteVars, observed, cur, cleanup, spool, callVars,
                 nativeVars>>

\* The room or the order refuses, the quoted message is unknown, or the quote
\* is uncertain.
CheckFails ==
  /\ pc \in {"prepared", "claim"}
  /\ SetAside
  /\ pc' = "discard"
  /\ UNCHANGED <<state, slot, lastSlot, part, quoteVars, observed, cur, cleanup, spool,
                 callVars, nativeVars>>

\* No quote is needed, or it went out in an earlier attempt.
QuoteDone(r) == quote[r] = "SENT"
NoQuoteToSend ==
  /\ pc = "prepared"
  /\ cur \in Quoting => QuoteDone(cur)
  /\ pc' = "claim"
  /\ UNCHANGED <<rowVars, part, quoteVars, observed, cur, spoolVars, callVars, nativeVars>>

\* The quote is stored, and the connection is gone.
QuoteUnsent ==
  /\ pc = "prepared" /\ cur \in Quoting /\ quote[cur] = "absent"
  /\ quote' = ReplyPrepared(cur)
  /\ SetAside
  /\ pc' = "discard"
  /\ UNCHANGED <<state, slot, lastSlot, part, quoteId, observed, cur, cleanup, spool,
                 callVars, nativeVars>>

\* A dead backend rejects a request without posting it.
Post == IF backend = "up" THEN call' = "requested" /\ callId' = None
                          ELSE UNCHANGED <<call, callId>>

\* claimReply takes the prepared row; then sendText.
ClaimReply(r) ==
  /\ ReplyPrepared(r)[r] = "PREPARED"
  /\ quote' = [ReplyPrepared(r) EXCEPT ![r] = "DISPATCHING"]
SendQuote ==
  /\ pc = "prepared" /\ cur \in Quoting /\ ClaimReply(cur)
  /\ pc' = "quote"
  /\ Post
  /\ UNCHANGED <<rowVars, part, quoteId, observed, cur, spoolVars, backend, nativeVars>>

Returned == backend = "up" /\ call = "done"
Refused == backend # "up" \/ call = "failed"
EndCall == call' = IF backend = "up" THEN "idle" ELSE call

QuoteReturns ==
  /\ pc = "quote" /\ Returned
  /\ quote' = [quote EXCEPT ![cur] = "SENT"]
  /\ pc' = "claim" /\ EndCall
  /\ UNCHANGED <<rowVars, part, quoteId, observed, cur, spoolVars, backend, callId,
                 nativeVars>>

QuoteFails ==
  /\ pc = "quote" /\ Refused
  /\ quote' = QuoteUnknown(cur)
  /\ SetAside
  /\ pc' = "discard" /\ EndCall
  /\ UNCHANGED <<state, slot, lastSlot, part, quoteId, observed, cur, cleanup, spool,
                 backend, callId, nativeVars>>

\* claim(), which looks the candidate up again; then the file is given away.
Claim ==
  /\ pc = "claim" /\ NextFile(cur)
  /\ state' = [state EXCEPT ![cur] = "DISPATCHING"]
  /\ spool' = [spool EXCEPT ![cur] = @ - 1]
  /\ pc' = "send"
  /\ Post
  /\ UNCHANGED <<slot, lastSlot, deferred, part, quoteVars, observed, cur, excluded,
                 cleanup, backend, nativeVars>>

\* The canonical projection cannot be stored: claimed, but never sent.
ProjectionFails ==
  /\ pc = "claim" /\ NextFile(cur)
  /\ state' = [state EXCEPT ![cur] = "OUTCOME_UNKNOWN"]
  /\ excluded' = excluded \cup {ChatOf[cur]}
  /\ pc' = "discard"
  /\ UNCHANGED <<slot, lastSlot, deferred, part, quoteVars, observed, cur, cleanup,
                 spool, callVars, nativeVars>>

\* An earlier row of another chat came due meanwhile: the pass goes on with it.
ClaimDeclined ==
  /\ pc = "claim" /\ ~NextFile(cur)
  /\ pc' = "discard"
  /\ UNCHANGED <<rowVars, part, quoteVars, observed, cur, spoolVars, callVars, nativeVars>>

FileReturns ==
  /\ pc = "send" /\ Returned
  /\ state' = [state EXCEPT ![cur] = "SENT"]
  /\ pc' = "pick" /\ EndCall
  /\ UNCHANGED <<slot, lastSlot, deferred, part, quoteVars, observed, cur, spoolVars,
                 backend, callId, nativeVars>>

FileFails ==
  /\ pc = "send" /\ Refused
  /\ state' = FileUnknown(cur)
  /\ excluded' = excluded \cup {ChatOf[cur]}
  /\ pc' = "pick" /\ EndCall
  /\ UNCHANGED <<slot, lastSlot, deferred, part, quoteVars, observed, cur, cleanup,
                 spool, backend, callId, nativeVars>>

\* The file of an attempt that was not made is removed, or remembered.
Discard ==
  /\ pc \in {"discard", "leave"}
  /\ \/ /\ spool' = [spool EXCEPT ![cur] = @ - 1]
        /\ UNCHANGED <<cleanup, excluded>>
     \/ /\ cleanup' = cleanup \cup {cur}
        /\ excluded' = IF pc = "leave" THEN {} ELSE excluded \cup {ChatOf[cur]}
        /\ UNCHANGED spool
  /\ pc' = IF pc = "leave" THEN "idle" ELSE "pick"
  /\ UNCHANGED <<rowVars, part, quoteVars, observed, cur, callVars, nativeVars>>

-----------------------------------------------------------------------------
(* The send in the backend thread.                                         *)

Awaited == pc \in {"quote", "send"} /\ backend = "up"

Allocate ==
  /\ Awaited /\ call = "requested"
  /\ \E i \in Ids \ (native \cup Owned) : callId' = i
  /\ call' = "offered"
  /\ UNCHANGED <<rowVars, part, quoteVars, observed, pc, cur, spoolVars, backend,
                 nativeVars>>

\* replyIds and recordIds: the row must be in dispatch (a quote may have been
\* confirmed), and keeps the identifier it has.
RecordQuoteId ==
  /\ Awaited /\ call = "offered" /\ pc = "quote"
  /\ quote[cur] \in {"DISPATCHING", "SENT"} /\ quoteId[cur] \in {None, callId}
  /\ quoteId' = [quoteId EXCEPT ![cur] = callId]
  /\ call' = "recorded"
  /\ UNCHANGED <<rowVars, part, quote, observed, pc, cur, spoolVars, backend, callId,
                 nativeVars>>

RecordFileId ==
  /\ Awaited /\ call = "offered" /\ pc = "send"
  /\ state[cur] = "DISPATCHING" /\ part[cur] \in {None, callId}
  /\ part' = [part EXCEPT ![cur] = callId]
  /\ call' = "recorded"
  /\ UNCHANGED <<rowVars, quoteVars, observed, pc, cur, spoolVars, backend, callId,
                 nativeVars>>

\* Desktop creates the message once it knows the identifier is durable; the
\* call may still fail after that.
Granted == {"recorded"}
NativeSend ==
  /\ backend # "down" /\ call \in Granted
  /\ native' = native \cup {callId}
  /\ call' \in {"done", "failed"}
  /\ UNCHANGED <<rowVars, part, quoteVars, observed, pc, cur, spoolVars, backend, callId,
                 evidenced>>

CallErrs ==
  /\ backend # "down" /\ call \in {"requested", "offered", "recorded"}
  /\ call' = "failed"
  /\ UNCHANGED <<rowVars, part, quoteVars, observed, pc, cur, spoolVars, backend, callId,
                 nativeVars>>

\* stopWithError rejects pending requests first; the thread ends later.
BackendDies ==
  /\ backend = "up"
  /\ backend' = "dying"
  /\ UNCHANGED <<rowVars, part, quoteVars, observed, pc, cur, spoolVars, call, callId,
                 nativeVars>>

BackendTerminated ==
  /\ backend = "dying"
  /\ backend' = "down" /\ call' = "idle" /\ callId' = None
  /\ UNCHANGED <<rowVars, part, quoteVars, observed, pc, cur, spoolVars, nativeVars>>

-----------------------------------------------------------------------------
(* Evidence.                                                               *)

TransportAccepts(i) ==
  /\ i \in native \ evidenced
  /\ evidenced' = evidenced \cup {i}
  /\ UNCHANGED <<rowVars, part, quoteVars, observed, pc, cur, spoolVars, callVars, native>>

\* JournalSink.message, or the scan of retained history after a
\* resynchronisation, meets a confirmed quote: observeReply.
QuoteEcho(r) ==
  /\ pc # "stopped" /\ quoteId[r] \in evidenced
  /\ quote' = [quote EXCEPT ![r] = Confirmed(r)]
  /\ observed' = observed \cup {quoteId[r]}
  /\ UNCHANGED <<rowVars, part, quoteId, pc, cur, spoolVars, callVars, nativeVars>>

\* reconcileMediaEcho, or the same scan, meets a confirmed attachment: observe.
FileEcho(r) ==
  /\ pc # "stopped" /\ part[r] \in evidenced /\ FileObserved(r)
  /\ UNCHANGED <<slot, lastSlot, deferred, part, quoteVars, pc, cur, spoolVars, callVars,
                 nativeVars>>

-----------------------------------------------------------------------------

PassStep == \/ BeginPass \/ EndPass \/ FilePrepared \/ PrepareFails \/ LoseReady
            \/ CheckFails \/ NoQuoteToSend \/ QuoteUnsent \/ SendQuote \/ QuoteReturns
            \/ QuoteFails \/ Claim \/ ProjectionFails \/ ClaimDeclined \/ FileReturns
            \/ FileFails \/ Discard
            \/ \E r \in Requests : Pick(r)
CallStep == \/ Allocate \/ RecordQuoteId \/ RecordFileId \/ NativeSend \/ CallErrs
            \/ BackendDies \/ BackendTerminated
Next == \/ Start \/ Crash \/ RetryPrepared \/ PassStep \/ CallStep
        \/ \E r \in Requests : Prepare(r) \/ RetryDue(r) \/ QuoteEcho(r) \/ FileEcho(r)
        \/ \E i \in Ids : TransportAccepts(i)

Spec == Init /\ [][Next]_vars

-----------------------------------------------------------------------------
(* Safety.                                                                 *)

\* An attachment that replies is only attempted when its quote is in Threema,
\* although quote and attachment may be attempts of different processes.
QuoteFirst ==
  \A r \in Quoting : state[r] \in Attempted => quoteId[r] \in native

\* Every message made here has an owner row before it exists, so that its echo
\* is neither taken for somebody else's nor, for a quote, shown in the room.
MessagesOwned == native \subseteq Owned

\* A file in the spool is the one being worked on or waits for its removal: none
\* is forgotten, none removed that Desktop has been given.
SpoolAccounted ==
  \A r \in Requests :
    spool[r] = (IF r \in cleanup THEN 1 ELSE 0)
               + (IF pc \in HoldsFile /\ cur = r THEN 1 ELSE 0)

\* Attachments, and likewise their quotes, reach Threema at most once each and
\* in the order of their chat, seen from outside.
AbsFiles == INSTANCE AtMostOnceDelivery WITH
              accepted <- {r \in Requests : state[r] # "absent"},
              refused <- {},
              turn <- slot,
              delivered <- {r \in Requests : part[r] \in native},
              confirmed <- {r \in Requests : part[r] \in observed}
AbsQuotes == INSTANCE AtMostOnceDelivery WITH
              accepted <- {r \in Requests : state[r] # "absent"},
              refused <- {},
              turn <- slot,
              delivered <- {r \in Requests : quoteId[r] \in native},
              confirmed <- {r \in Requests : quoteId[r] \in observed}
DeliversInOrder == AbsFiles!Spec /\ AbsQuotes!Spec

-----------------------------------------------------------------------------
(* The inductive invariant behind these properties (MediaOutboxProofs).    *)

SlotsDistinct ==
  /\ \A r \in Requests : (state[r] = "absent" <=> slot[r] = 0) /\ slot[r] <= lastSlot
  /\ \A r, s \in Requests : slot[r] = slot[s] /\ slot[r] # 0 => r = s

\* Only a stored reply has a quote.
QuoteHasRow ==
  \A r \in Requests : quote[r] # "absent" => r \in Quoting /\ state[r] # "absent"

\* What is known of the candidate at each place of the pass.
BeforeClaim == {"prepare", "prepared", "quote", "claim"}
CandidateKnown ==
  /\ pc \in BeforeClaim \cup HoldsFile \cup {"send"} => cur \in Requests
  /\ pc \in BeforeClaim => state[cur] = "PREPARED"
  /\ pc = "quote" => cur \in Quoting /\ quote[cur] \in {"DISPATCHING", "SENT"}
  /\ pc = "claim" /\ cur \in Quoting => quote[cur] = "SENT"
  /\ pc = "send" => state[cur] \in {"DISPATCHING", "SENT"}

\* The pass stays away from chats with a file still to be removed.
CleanupExcluded ==
  /\ pc \notin {"stopped", "idle", "leave"} => \A r \in cleanup : ChatOf[r] \in excluded
  /\ pc \in BeforeClaim \cup HoldsFile => cur \notin cleanup
  /\ pc = "stopped" => cleanup = {}

\* Identifiers belong to one attachment or one quote, that was attempted.
IdsApart ==
  /\ \A r \in Requests : part[r] # None => state[r] \in Attempted
  /\ \A r \in Requests : quoteId[r] # None => quote[r] \in Attempted
  /\ \A r, s \in Requests :
       /\ r # s /\ part[r] # None => part[r] # part[s]
       /\ r # s /\ quoteId[r] # None => quoteId[r] # quoteId[s]
       /\ part[r] # None => part[r] # quoteId[s]

\* A send that was reported or observed is a message.
SentIsNative ==
  /\ observed \subseteq evidenced /\ evidenced \subseteq native
  /\ \A r \in Requests : state[r] = "SENT" => part[r] \in native
  /\ \A r \in Requests : quote[r] = "SENT" => quoteId[r] \in native

\* A send begins when the elders of the chat are in Threema.
Sending(r) == state[r] \in Attempted \/ quote[r] \in Attempted
EldersNative ==
  \A r, s \in Requests :
    Before(r, s) /\ (Sending(s) \/ (cur = s /\ pc \in BeforeClaim)) => part[r] \in native

\* A live call is the candidate's while it is awaited.  Its message does not
\* exist yet, and its row holds the younger ones of the chat back.
CallOwned ==
  /\ (backend = "down" => call = "idle") /\ (pc = "stopped" => backend = "down")
  /\ call # "idle" /\ backend = "up" => pc \in {"quote", "send"}
  /\ call = "offered" => callId \in Ids /\ callId \notin native \cup Owned
  /\ call \in {"recorded", "done"} /\ backend = "up" =>
       callId = (IF pc = "quote" THEN quoteId[cur] ELSE part[cur])
  /\ call = "done" => callId \in native
  /\ call = "recorded" =>
       /\ callId \in Ids \ native
       /\ \E r \in Requests : callId \in {part[r], quoteId[r]}

MediaInv == /\ MediaTypeOK /\ SlotsDistinct /\ QuoteHasRow /\ CandidateKnown
            /\ CleanupExcluded /\ SpoolAccounted /\ IdsApart /\ SentIsNative
            /\ EldersNative /\ CallOwned /\ QuoteFirst /\ MessagesOwned

-----------------------------------------------------------------------------
(* Liveness.                                                               *)

\* A pass, the calls in it, retries and the journal go on.
MediaFairness ==
  /\ WF_vars(PassStep)
  /\ WF_vars(Allocate \/ RecordQuoteId \/ RecordFileId \/ NativeSend \/ CallErrs)
  /\ \A r \in Requests : WF_vars(RetryDue(r))
  /\ \A r \in Quoting : WF_vars(QuoteEcho(r))

FairSpec == Spec /\ MediaFairness

\* A check, a download or the removal of a file fails, the connection is gone, a
\* pass is cut short, or a row of another chat comes due in front of a claim.
Failure ==
  \/ PrepareFails \/ LoseReady \/ QuoteUnsent \/ ClaimDeclined
  \/ CheckFails /\ quote[cur] # "OUTCOME_UNKNOWN"
  \/ EndPass /\ \E r \in Requests : NextFile(r)
  \/ ~(cleanup' \subseteq cleanup) \/ (BeginPass /\ cleanup' # {})

\* In the end a process stays up and nothing fails, after any number of crashes
\* and failures before.
Steady == <>[](pc # "stopped" /\ backend = "up") /\ <>[][~Failure]_vars

\* Evidence of a quote, even one written off as uncertain, releases its
\* attachment: it is attempted in the end, unless an elder of the chat waits for
\* evidence itself.  (A row that waits goes on waiting until then, so that it is
\* enough that again and again nobody waits.)
Stuck(r) == state[r] = "OUTCOME_UNKNOWN" \/ quote[r] = "OUTCOME_UNKNOWN"
Waits(r) ==
  /\ state[r] = "PREPARED" /\ (r \in Quoting => quoteId[r] \in evidenced)
  /\ \A s \in Requests : ~(Before(s, r) /\ Stuck(s))
EvidenceReleases == Steady => []<>(\A r \in Requests : ~Waits(r))
=============================================================================
