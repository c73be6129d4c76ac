------------------------------ MODULE Mutations ------------------------------
(***************************************************************************)
(* Edits and deletions of the owner's messages, in both directions.        *)
(* MutationJournal (src/outbox/mutation-journal.ts) keeps what the owner   *)
(* changed in Matrix; its runtime classifies, recovers and dispatches the  *)
(* changes one after the other and announces those Threema refused.  The   *)
(* journal sink (src/matrix/journal-sink.ts) shows in Matrix what changed  *)
(* in Threema: reconcileOutboundEcho tells the echo of a Matrix edit from  *)
(* an edit made on the phone, MessageDelivery sends the latter as an edit  *)
(* of the owner, DeletionDelivery redacts.                                 *)
(*                                                                         *)
(* A message is one the owner wrote in Matrix and Threema has: it has one  *)
(* Threema message, because the text sender returns one identifier and the *)
(* echo refuses more, so an operation has one part.  A snapshot in the     *)
(* journal is its text, or "deleted"; it carries the time of the edit, so  *)
(* that two edits never look the same to the journal.                      *)
(***************************************************************************)
EXTENDS Naturals, Sequences, SequencesExt

CONSTANTS Edits, Deletes,   \* Matrix events of the owner
          Messages, Chats, ChatOf,
          MessageOf,        \* message an event changes
          Texts, TextOf,    \* replacement text of an edit
          Original,         \* text a message was sent with
          MaxMoves,         \* bound: changes made on the phone
          None

Ops == Edits \cup Deletes

ASSUME MutationAssumption ==
  /\ Edits \cap Deletes = {} /\ None \notin Ops \cup Texts \cup {"root"}
  /\ ChatOf \in [Messages -> Chats] /\ MessageOf \in [Ops -> Messages]
  /\ TextOf \in [Edits -> Texts] /\ Original \in [Messages -> Texts]
  /\ {"deleted", "gone", "root"} \cap Texts = {} /\ MaxMoves \in Nat

VARIABLES
  \* Matrix
  posted,     \* the owner's changes, in the order of the room
  shown,      \* text the room shows of a message, or "gone"
  \* outbox database
  queue,      \* journaled operations in sequence order
  state,      \* state of an operation; "refused" is a row of rejections
  noticed,    \* refusals of Threema that were announced
  \* mutation runtime, in memory
  pc, op, excluded,
  already,    \* alreadyDeleted
  \* backend thread and Threema
  backend, call, callOf,
  native,     \* text of a message, or "deleted"
  moves,      \* changes made on the phone
  carried,    \* history: how often Threema carried an operation out
  touched,    \* history: messages the phone changed
  lost,       \* history: messages with a content the journal never recorded
  \* message journal
  stale,      \* messages whose content the journal does not have
  changes,    \* recorded snapshots that are not delivered yet
  \* Matrix delivery
  dpc,
  latest,     \* last projected text, "root" while there is none, or None
  plan,       \* message_projections: "none", "current" or of an "earlier" change
  accepted,   \* the homeserver has the event of the plan
  versions,   \* number of recorded events that are not redacted
  deletion    \* message_deletions: "no", "begun" or "done"

roomVars == <<posted, shown>>
rowVars == <<queue, state, noticed>>
workVars == <<pc, op, excluded, already>>
threadVars == <<backend, call, callOf>>
phoneVars == <<native, moves, carried, touched, lost, stale>>
showVars == <<dpc, latest, plan, accepted, versions, deletion>>
vars == <<roomVars, rowVars, workVars, threadVars, phoneVars, changes, showVars>>

Settled == {"APPLIED", "REJECTED"}
Tried == {"DISPATCHING", "OUTCOME_UNKNOWN", "APPLIED"}

MutationTypeOK ==
  /\ posted \in Seq(Ops) /\ shown \in [Messages -> Texts \cup {"gone"}]
  /\ queue \in Seq(Ops) /\ noticed \in SUBSET Ops
  /\ state \in [Ops -> {"absent", "refused", "PREPARED", "DISPATCHING", "APPLIED",
                        "OUTCOME_UNKNOWN", "REJECTED"}]
  /\ pc \in {"stopped", "ingress", "recover", "dispatch", "notices", "check",
             "asked", "claimed", "mutate"}
  /\ op \in Ops \cup {None} /\ excluded \in SUBSET Chats /\ already \in BOOLEAN
  /\ backend \in {"up", "dying", "down"}
  /\ call \in {"idle", "requested", "done", "rejected", "failed"}
  /\ callOf \in Ops \cup {None}
  /\ native \in [Messages -> Texts \cup {"deleted"}]
  /\ moves \in 0..MaxMoves /\ carried \in [Ops -> Nat]
  /\ touched \in SUBSET Messages /\ lost \in SUBSET Messages
  /\ stale \in SUBSET Messages
  /\ changes \in Seq(Messages \X (Texts \cup {"deleted"}))
  /\ dpc \in {"idle", "deliver", "send", "sent", "redact"}
  /\ latest \in [Messages -> Texts \cup {None, "root"}]
  /\ plan \in [Messages -> {"none", "current", "earlier"}]
  /\ accepted \in SUBSET Messages /\ versions \in [Messages -> Nat]
  /\ deletion \in [Messages -> {"no", "begun", "done"}]

\* The messages were sent; Threema's snapshots of them are not delivered yet.
Init ==
  /\ posted = <<>> /\ shown = Original
  /\ queue = <<>> /\ noticed = {} /\ state = [o \in Ops |-> "absent"]
  /\ pc = "stopped" /\ op = None /\ excluded = {} /\ already = FALSE
  /\ backend = "down" /\ call = "idle" /\ callOf = None
  /\ native = Original /\ moves = 0 /\ carried = [o \in Ops |-> 0]
  /\ touched = {} /\ lost = {} /\ stale = Messages /\ changes = <<>>
  /\ dpc = "idle" /\ latest = [m \in Messages |-> None]
  /\ plan = [m \in Messages |-> "none"] /\ accepted = {}
  /\ versions = [m \in Messages |-> 0] /\ deletion = [m \in Messages |-> "no"]

-----------------------------------------------------------------------------
(* Plausible bugs: each replaces the definition named in its comment, and  *)
(* the runs must notice.                                                   *)

RecoveredPrepared(s) == IF s = "DISPATCHING" THEN "PREPARED" ELSE s   \* Recovered
RecoveredNot(s) == s                                                  \* Recovered
RecoverUnasked(o) ==                                                  \* RecoverOp
  /\ pc = "recover" /\ backend = "up" /\ state[o] = "OUTCOME_UNKNOWN"
  /\ state' = [state EXCEPT ![o] = "APPLIED"]
  /\ UNCHANGED <<roomVars, queue, noticed, workVars, threadVars, phoneVars, changes,
                 showVars>>
BeginAnyway(m) == TRUE                                                \* MayBegin
ProjectsUnasked(m, text) ==                                           \* Projects
  text # Original[m] /\ \A o \in Edits : state[o] \in Tried => TextOf[o] # text
-----------------------------------------------------------------------------
(* The owner in Matrix, and the ingress.                                   *)

\* A client shows the owner's edit, or takes the message away, at once.
Post(o) ==
  LET m == MessageOf[o]
  IN /\ ~Contains(posted, o) /\ shown[m] # "gone"
     /\ posted' = Append(posted, o)
     /\ shown' = [shown EXCEPT ![m] = IF o \in Edits THEN TextOf[o] ELSE "gone"]
     /\ UNCHANGED <<rowVars, workVars, threadVars, phoneVars, changes, showVars>>

\* Every earlier change of the room is journaled or refused.
Classifiable(o) ==
  \E i \in 1..Len(posted) :
    /\ posted[i] = o /\ state[o] = "absent"
    /\ \A j \in 1..(i - 1) :
         ChatOf[MessageOf[posted[j]]] = ChatOf[MessageOf[o]] => state[posted[j]] # "absent"

\* prepare: the plan stands behind all others.
Planned(o) ==
  queue' = Append(queue, o) /\ state' = [state EXCEPT ![o] = "PREPARED"]

Prepare(o) ==
  /\ pc = "ingress" /\ Classifiable(o) /\ Planned(o)
  /\ UNCHANGED <<roomVars, noticed, workVars, threadVars, phoneVars, changes, showVars>>

\* rejectEvent: the replacement changes what an edit cannot change.
Refuse(o) ==
  /\ pc = "ingress" /\ Classifiable(o) /\ o \in Edits
  /\ state' = [state EXCEPT ![o] = "refused"]
  /\ UNCHANGED <<roomVars, queue, noticed, workVars, threadVars, phoneVars, changes,
                 showVars>>

-----------------------------------------------------------------------------
(* Runtime.                                                                *)

\* recoverInterrupted.
Recovered(s) == IF s = "DISPATCHING" THEN "OUTCOME_UNKNOWN" ELSE s

Start ==
  /\ pc = "stopped" /\ pc' = "ingress" /\ backend' = "up"
  /\ state' = [o \in Ops |-> Recovered(state[o])]
  /\ UNCHANGED <<roomVars, queue, noticed, op, excluded, already, call, callOf,
                 phoneVars, changes, showVars>>

Crash ==
  /\ pc # "stopped" /\ pc' = "stopped"
  /\ op' = None /\ excluded' = {} /\ already' = FALSE
  /\ backend' = "down" /\ call' = "idle" /\ callOf' = None /\ dpc' = "idle"
  /\ UNCHANGED <<roomVars, rowVars, phoneVars, changes, latest, plan, accepted,
                 versions, deletion>>

\* The phases of drain() follow each other, whether or not one of them failed.
Phases == <<"ingress", "recover", "dispatch", "notices">>
EndPhase ==
  /\ \E i \in 1..4 : pc = Phases[i] /\ pc' = Phases[(i % 4) + 1]
  /\ excluded' = {}
  /\ UNCHANGED <<roomVars, rowVars, op, already, threadVars, phoneVars, changes, showVars>>

\* readNodeMutation.
Holds(o) ==
  IF o \in Deletes THEN native[MessageOf[o]] = "deleted"
                   ELSE native[MessageOf[o]] = TextOf[o]

Uncertain(o) == state[o] = "OUTCOME_UNKNOWN"
\* observeDesiredState: a match settles the operation, whoever brought it about.
Observed(o) == Uncertain(o) /\ state' = [state EXCEPT ![o] = "APPLIED"]
RecoverOp(o) ==
  /\ pc = "recover" /\ backend = "up" /\ Holds(o) /\ Observed(o)
  /\ UNCHANGED <<roomVars, queue, noticed, workVars, threadVars, phoneVars, changes,
                 showVars>>

Blocks(s) == s \notin Settled
Candidate(i) ==
  /\ state[queue[i]] = "PREPARED" /\ ChatOf[MessageOf[queue[i]]] \notin excluded
  /\ \A j \in 1..(i - 1) :
       ChatOf[MessageOf[queue[j]]] = ChatOf[MessageOf[queue[i]]] => ~Blocks(state[queue[j]])
\* peek: the first one that nothing of its chat stands before.
NextOp(o) ==
  \E i \in 1..Len(queue) :
    queue[i] = o /\ Candidate(i) /\ \A j \in 1..(i - 1) : ~Candidate(j)

Pick(o) ==
  /\ pc = "dispatch" /\ NextOp(o) /\ op' = o /\ pc' = "check" /\ already' = FALSE
  /\ UNCHANGED <<roomVars, rowVars, excluded, threadVars, phoneVars, changes, showVars>>

\* A deletion asks whether there is anything left to delete.
AskDeleted ==
  /\ pc = "check" /\ op \in Deletes /\ backend = "up"
  /\ already' = Holds(op) /\ pc' = "asked"
  /\ UNCHANGED <<roomVars, rowVars, op, excluded, threadVars, phoneVars, changes, showVars>>

Over == pc' = "dispatch" /\ op' = None
Shunned == excluded' = excluded \cup {ChatOf[MessageOf[op]]}

\* The room, an unsettled predecessor or the question says no.
CheckFails ==
  /\ pc \in {"check", "asked"} /\ Shunned /\ Over
  /\ UNCHANGED <<roomVars, rowVars, already, threadVars, phoneVars, changes, showVars>>

Claim ==
  /\ pc = (IF op \in Deletes THEN "asked" ELSE "check") /\ NextOp(op)
  /\ state' = [state EXCEPT ![op] = "DISPATCHING"] /\ pc' = "claimed"
  /\ UNCHANGED <<roomVars, queue, noticed, op, excluded, already, threadVars, phoneVars,
                 changes, showVars>>

AlreadyDeleted ==
  /\ pc = "claimed" /\ already
  /\ state' = [state EXCEPT ![op] = "APPLIED"] /\ Over
  /\ UNCHANGED <<roomVars, queue, noticed, excluded, already, threadVars, phoneVars,
                 changes, showVars>>

\* mutateMessage; a dead backend rejects it without posting.
SendMutation ==
  /\ pc = "claimed" /\ ~already /\ pc' = "mutate"
  /\ IF backend = "up" THEN call' = "requested" /\ callOf' = op
                       ELSE UNCHANGED <<call, callOf>>
  /\ UNCHANGED <<roomVars, rowVars, op, excluded, already, backend, phoneVars, changes,
                 showVars>>

\* The dispatcher takes the outcome of its call.
Outcome(result, to) ==
  /\ pc = "mutate" /\ backend = "up" /\ call = result
  /\ state' = [state EXCEPT ![op] = to] /\ call' = "idle" /\ callOf' = None /\ Over
  /\ UNCHANGED <<roomVars, queue, noticed, already, backend, phoneVars, changes, showVars>>
MutateReturns == Outcome("done", "APPLIED") /\ UNCHANGED excluded
MutateRejected == Outcome("rejected", "REJECTED") /\ UNCHANGED excluded
MutateFails == Outcome("failed", "OUTCOME_UNKNOWN") /\ Shunned
MutateAborted ==
  /\ pc = "mutate" /\ backend # "up"
  /\ state' = [state EXCEPT ![op] = "OUTCOME_UNKNOWN"] /\ Shunned /\ Over
  /\ UNCHANGED <<roomVars, queue, noticed, already, threadVars, phoneVars, changes,
                 showVars>>

\* MutationFailureNotices.
PendingFailure(o) == state[o] = "REJECTED" /\ o \notin noticed
AcknowledgeFailure(o) == noticed' = noticed \cup {o}
Notice(o) ==
  /\ pc = "notices" /\ PendingFailure(o) /\ AcknowledgeFailure(o)
  /\ UNCHANGED <<roomVars, queue, state, workVars, threadVars, phoneVars, changes, showVars>>

-----------------------------------------------------------------------------
(* Threema and the watch of its conversations.                             *)

\* The content of a message changes.  The watch records it, or it is being
\* replaced and a later scan has to find it.
Becomes(m, content) ==
  /\ native' = [native EXCEPT ![m] = content]
  /\ \/ stale' = stale \ {m} /\ changes' = Append(changes, <<m, content>>)
     \/ stale' = stale \cup {m} /\ UNCHANGED changes
  /\ lost' = IF m \in stale THEN lost \cup {m} ELSE lost

\* mutateNodeMessage: deleted messages are refused, and an edit to the present
\* text does nothing.  It may fail after the change.
NativeMutate ==
  LET m == MessageOf[callOf]
  IN /\ backend # "down" /\ call = "requested" /\ native[m] # "deleted"
     /\ IF Holds(callOf) THEN UNCHANGED <<native, stale, lost, changes, carried>>
        ELSE /\ Becomes(m, IF callOf \in Deletes THEN "deleted" ELSE TextOf[callOf])
             /\ carried' = [carried EXCEPT ![callOf] = @ + 1]
     /\ call' \in {"done", "failed"}
     /\ UNCHANGED <<roomVars, rowVars, workVars, backend, callOf, moves, touched, showVars>>

\* The time limit, the recipient's version or a deletion forbids it; or the call
\* fails before it did anything.
CallErrs ==
  /\ backend # "down" /\ call = "requested" /\ call' \in {"rejected", "failed"}
  /\ UNCHANGED <<roomVars, rowVars, workVars, backend, callOf, phoneVars, changes, showVars>>

BackendDies ==
  /\ backend = "up" /\ backend' = "dying"
  /\ UNCHANGED <<roomVars, rowVars, workVars, call, callOf, phoneVars, changes, showVars>>

BackendTerminated ==
  /\ backend = "dying" /\ backend' = "down" /\ call' = "idle" /\ callOf' = None
  /\ UNCHANGED <<roomVars, rowVars, workVars, phoneVars, changes, showVars>>

\* The owner edits or deletes the message on the phone.
PhoneMove(m, content) ==
  /\ moves < MaxMoves /\ moves' = moves + 1
  /\ native[m] \notin {content, "deleted"} /\ Becomes(m, content)
  /\ touched' = touched \cup {m}
  /\ UNCHANGED <<roomVars, rowVars, workVars, threadVars, carried, showVars>>

Scan(m) ==
  /\ backend = "up" /\ m \in stale /\ stale' = stale \ {m}
  /\ changes' = Append(changes, <<m, native[m]>>)
  /\ UNCHANGED <<roomVars, rowVars, workVars, threadVars, native, moves, carried, touched,
                 lost, showVars>>

-----------------------------------------------------------------------------
(* Delivery to Matrix.                                                     *)

Here == Head(changes)[1]
Content == Head(changes)[2]

\* matchesEditEcho: the last edit that was tried, and not refused, asked for it.
Echoes(m, text) ==
  \E i \in 1..Len(queue) :
    LET o == queue[i]
    IN /\ MessageOf[o] = m /\ state[o] \in Tried
       /\ \A j \in (i + 1)..Len(queue) :
            MessageOf[queue[j]] = m => state[queue[j]] \notin Tried
       /\ o \in Edits /\ TextOf[o] = text

\* projectOwnerText.
Projects(m, text) ==
  \/ text # Original[m] /\ ~Echoes(m, text)
  \/ latest[m] \notin {None, "root"}

\* The change leaves the journal.  A plan it made and did not finish stays.
Delivered ==
  /\ changes' = Tail(changes) /\ dpc' = "idle"
  /\ plan' = [plan EXCEPT ![Here] = IF @ = "current" THEN "earlier" ELSE @]

\* bindOwnerEcho: the owner's event is the root of the message.
Bound ==
  IF latest[Here] = None
    THEN /\ latest' = [latest EXCEPT ![Here] = "root"]
         /\ versions' = [versions EXCEPT ![Here] = 1]
    ELSE UNCHANGED <<latest, versions>>

\* A message that is deleted for good, or the echo of what Matrix shows.
Skip ==
  /\ dpc = "idle" /\ changes # <<>> /\ backend = "up"
  /\ \/ deletion[Here] = "done" /\ UNCHANGED <<latest, versions>>
     \/ /\ deletion[Here] # "done" /\ Content # "deleted" /\ ~Projects(Here, Content)
        /\ Bound
  /\ Delivered
  /\ UNCHANGED <<roomVars, rowVars, workVars, threadVars, phoneVars, accepted, deletion>>

BeginDelivery ==
  /\ dpc = "idle" /\ changes # <<>> /\ backend = "up" /\ deletion[Here] # "done"
  /\ Content # "deleted" /\ Projects(Here, Content)
  /\ Bound /\ dpc' = "deliver"
  /\ UNCHANGED <<roomVars, rowVars, workVars, threadVars, phoneVars, changes, plan,
                 accepted, deletion>>

\* After the awaits for room, members and permission: the plan is stored, or the
\* room shows this text already.
PreparePlan ==
  /\ dpc = "deliver" /\ plan[Here] # "earlier" /\ deletion[Here] = "no"
  /\ IF plan[Here] = "none" /\ latest[Here] = Content
       THEN Delivered
       ELSE plan' = [plan EXCEPT ![Here] = "current"] /\ dpc' = "send" /\ UNCHANGED changes
  /\ UNCHANGED <<roomVars, rowVars, workVars, threadVars, phoneVars, latest, accepted,
                 versions, deletion>>

\* The homeserver takes an event once, however often it is sent.
Accept ==
  /\ dpc = "send" /\ dpc' = "sent"
  /\ accepted' = accepted \cup {Here}
  /\ shown' = IF Here \in accepted \/ shown[Here] = "gone" THEN shown
              ELSE [shown EXCEPT ![Here] = Content]
  /\ UNCHANGED <<posted, rowVars, workVars, threadVars, phoneVars, changes, latest, plan,
                 versions, deletion>>

\* finishProjection, and the acknowledgement of the change.
Finish ==
  /\ dpc = "sent"
  /\ latest' = [latest EXCEPT ![Here] = Content]
  /\ versions' = [versions EXCEPT ![Here] = @ + 1]
  /\ plan' = [plan EXCEPT ![Here] = "none"] /\ accepted' = accepted \ {Here}
  /\ changes' = Tail(changes) /\ dpc' = "idle"
  /\ UNCHANGED <<roomVars, rowVars, workVars, threadVars, phoneVars, deletion>>

\* beginDeletion does not pass an unfinished projection.
MayBegin(m) == plan[m] = "none"
BeginDeletion ==
  /\ dpc = "idle" /\ changes # <<>> /\ backend = "up" /\ deletion[Here] # "done"
  /\ Content = "deleted" /\ MayBegin(Here)
  /\ Bound /\ deletion' = [deletion EXCEPT ![Here] = "begun"] /\ dpc' = "redact"
  /\ UNCHANGED <<roomVars, rowVars, workVars, threadVars, phoneVars, changes, plan, accepted>>

\* The recorded events are redacted one after the other.
RedactVersion ==
  /\ dpc = "redact" /\ versions[Here] > 0
  /\ versions' = [versions EXCEPT ![Here] = @ - 1]
  /\ shown' = IF versions[Here] = 1 THEN [shown EXCEPT ![Here] = "gone"] ELSE shown
  /\ UNCHANGED <<posted, rowVars, workVars, threadVars, phoneVars, changes, dpc, latest,
                 plan, accepted, deletion>>

FinishDeletion ==
  /\ dpc = "redact" /\ versions[Here] = 0
  /\ deletion' = [deletion EXCEPT ![Here] = "done"] /\ Delivered
  /\ UNCHANGED <<roomVars, rowVars, workVars, threadVars, phoneVars, latest, accepted,
                 versions>>

\* Permission, homeserver or answer fails: the change is tried again.
DeliveryFails ==
  /\ dpc # "idle" /\ dpc' = "idle"
  /\ UNCHANGED <<roomVars, rowVars, workVars, threadVars, phoneVars, changes, latest, plan,
                 accepted, versions, deletion>>

-----------------------------------------------------------------------------

DispatchStep == \/ AskDeleted \/ CheckFails \/ Claim \/ AlreadyDeleted \/ SendMutation
                \/ MutateReturns \/ MutateRejected \/ MutateFails \/ MutateAborted
DrainStep == \/ EndPhase \/ DispatchStep
             \/ \E o \in Ops : Prepare(o) \/ Refuse(o) \/ RecoverOp(o) \/ Pick(o) \/ Notice(o)
ThreadStep == NativeMutate \/ CallErrs
DeliveryProgress == \/ Skip \/ BeginDelivery \/ PreparePlan \/ Accept \/ Finish
                    \/ BeginDeletion \/ RedactVersion \/ FinishDeletion
PhoneStep == \E m \in Messages : Scan(m) \/ \E c \in Texts \cup {"deleted"} : PhoneMove(m, c)
Next == \/ Start \/ Crash \/ DrainStep \/ ThreadStep \/ DeliveryProgress \/ DeliveryFails
        \/ BackendDies \/ BackendTerminated \/ PhoneStep
        \/ \E o \in Ops : Post(o)

Spec == Init /\ [][Next]_vars

-----------------------------------------------------------------------------
(* Safety.                                                                 *)

Concerns(m) == {o \in Ops : MessageOf[o] = m}

\* An operation is carried out at most once, and never one that still waits, or
\* of which the room is told that Threema refused it.  (With the types of the module.)
CarriedOnce ==
  /\ MutationTypeOK
  /\ \A o \in Ops :
       /\ carried[o] <= 1
       /\ state[o] \in {"absent", "refused", "PREPARED", "REJECTED"} => carried[o] = 0

\* Where the phone did not interfere, the message is what the last of the owner's
\* changes that were applied made of it, in the order of the room.
LastApplied(m) ==
  {i \in 1..Len(posted) :
     /\ MessageOf[posted[i]] = m /\ state[posted[i]] = "APPLIED"
     /\ \A j \in (i + 1)..Len(posted) :
          MessageOf[posted[j]] = m => state[posted[j]] # "APPLIED"}
AsApplied(m) ==
  IF LastApplied(m) = {} THEN native[m] = Original[m]
                         ELSE \A i \in LastApplied(m) : Holds(posted[i])
OwnersLastWord ==
  \A m \in Messages \ touched :
    (\A o \in Concerns(m) : state[o] \notin {"DISPATCHING", "OUTCOME_UNKNOWN"}) => AsApplied(m)

\* Once everything about a message is applied and delivered, the room shows what
\* Threema has, however edits of both sides crossed.  The journal must have seen
\* every content, and no plan may be left behind (PlanReplayed); and an edit of
\* the phone back to the first text is mistaken for the echo of the message
\* (MatchesShown).
Quiet(m) ==
  /\ m \notin stale /\ plan[m] = "none"
  /\ \A i \in 1..Len(changes) : changes[i][1] # m
  /\ \A i \in 1..Len(posted) : MessageOf[posted[i]] = m => state[posted[i]] = "APPLIED"
Agrees(m) == shown[m] = IF native[m] = "deleted" THEN "gone" ELSE native[m]
Mistaken(m) == m \in touched /\ native[m] = Original[m] /\ latest[m] = "root"
QuietAgrees == \A m \in Messages \ lost : Quiet(m) /\ ~Mistaken(m) => Agrees(m)

\* docs/MATRIX-PORTALS.md:80: a change of content, also one back to earlier text,
\* is sent to the room.
MatchesShown == \A m \in Messages \ lost : Quiet(m) => Agrees(m)

\* A message that is deleted for good has left nothing visible of it: no event
\* was accepted that the list of its versions misses.
NothingLeft ==
  \A m \in Messages :
    deletion[m] = "done" => m \notin accepted /\ versions[m] = 0 /\ shown[m] = "gone"

\* docs/MATRIX-PORTALS.md:86: a plan that was not finished is replayed: it belongs
\* to the change that is being delivered.
PlanReplayed == \A m \in Messages : plan[m] # "earlier"

-----------------------------------------------------------------------------
(* Liveness.                                                               *)

\* The loops go on; what a step needs may fail (Failure).
MutationFairness ==
  /\ WF_vars(DrainStep) /\ WF_vars(ThreadStep) /\ WF_vars(DeliveryProgress)
  /\ \A m \in Messages : WF_vars(Scan(m))

FairSpec == Spec /\ MutationFairness

\* A check, a request or an answer is lost, or a phase is cut short.
HasWork ==
  \/ pc = "ingress" /\ \E o \in Ops : Classifiable(o)
  \/ pc = "recover" /\ \E o \in Ops : Uncertain(o) /\ Holds(o)
  \/ pc = "dispatch" /\ \E o \in Ops : NextOp(o)
Failure == CheckFails \/ DeliveryFails \/ (EndPhase /\ HasWork)

\* In the end a process stays up and nothing fails, after any number of crashes
\* and failures before.
Steady == <>[](pc # "stopped" /\ backend = "up") /\ <>[][~Failure]_vars

\* What the owner changes is applied or refused in the end, unless an operation of
\* unknown outcome, which Threema does not bear out, holds its chat back.
Held(o) ==
  \E p \in Ops : /\ ChatOf[MessageOf[p]] = ChatOf[MessageOf[o]]
                 /\ Uncertain(p) /\ ~Holds(p)
ChangesSettle ==
  Steady => \A o \in Ops :
    Contains(posted, o) ~> state[o] \in {"APPLIED", "REJECTED", "refused"} \/ Held(o)
=============================================================================
