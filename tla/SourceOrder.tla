----------------------------- MODULE SourceOrder -----------------------------
(***************************************************************************)
(* The order of one owner's outbound work, across the inbox and the        *)
(* journals: an event is classified (queued or refused) only behind        *)
(* classified elders of its room, and sent only behind settled ones        *)
(* (source-order.ts, transaction-inbox.ts, the ingress and runtime         *)
(* modules of texts and reactions, unsupported-notices.ts).  The inside of *)
(* the text journal is the subject of TextOutbox; a chat is its room here. *)
(***************************************************************************)
EXTENDS TransactionInbox

CONSTANTS RoomOf,     \* the room of an event, readable in its envelope
          KindOf,     \* what the event asks for once it is decrypted
          TargetOf    \* the event a text replies to, or a reaction is for

Kinds == {"text", "reaction"}
ASSUME SourceAssumption ==
  /\ DOMAIN RoomOf = Events
  /\ KindOf \in [Events -> Kinds \cup {"oversized", "unsupported", "other"}]
  /\ TargetOf \in [Events -> Events \cup {None}]
  /\ \A e \in Events : TargetOf[e] # None => KindOf[TargetOf[e]] \in {"text", "oversized"}
  /\ None \notin Events

VARIABLES
  op,        \* what the journals say of an event
  candidate  \* per dispatcher: the event it is checking or sending

orderVars == <<op, candidate>>
vars == <<inboxVars, orderVars>>

\* "rejected": a row of rejections.  "failed": a reaction Threema refused.
OpStates == {"none", "queued", "dispatching", "sent", "acked", "unknown", "failed", "rejected"}
Classified == OpStates \ {"none"}
Confirmed == {"sent", "acked"}
Settled == Confirmed \cup {"failed", "rejected"}
Attempted == {"dispatching", "unknown"} \cup Confirmed

OrderTypeOK ==
  /\ InboxTypeOK
  /\ op \in [Events -> OpStates]
  /\ candidate \in [Kinds -> Events \cup {None}]

Init ==
  /\ InboxInit
  /\ op = [e \in Events |-> "none"]
  /\ candidate = [k \in Kinds |-> None]

-----------------------------------------------------------------------------
(* Plausible bugs, each in place of the definition its comment names.      *)

FutureTarget(e) == TargetOf[e] \in Stored /\ op[TargetOf[e]] = "none"  \* Awaited
DropUnwanted(e) == /\ e \in Stored \ delivered                         \* Ingest
                   /\ delivered' = delivered \cup {e}
                   /\ UNCHANGED <<txVars, done, eventVars, workerVars, orderVars>>
OwnKindOnly(e) == e \in Stored /\ \A p \in Stored :                  \* MayDispatch
  RoomOf[p] = RoomOf[e] /\ KindOf[p] = KindOf[e] /\ arrival[origin[p]] < arrival[origin[e]]
    => op[p] \in Settled
-----------------------------------------------------------------------------
(* The source order.                                                       *)

\* eventPrecedes: arrival of the transaction, then order inside of it.
Before(e, f) ==
  /\ e \in Stored /\ f \in Stored
  /\ \/ arrival[origin[e]] < arrival[origin[f]]
     \/ arrival[origin[e]] = arrival[origin[f]] /\ place[e] < place[f]

Sequenced == {e \in Events : KindOf[e] # "other"}
Elders(f) == {e \in Sequenced : RoomOf[e] = RoomOf[f] /\ Before(e, f)}

\* Undecoded transactions that arrived before e and have events of its room.
BarredBy(e) == {t \in Pending : /\ arrival[t] < arrival[origin[e]]
                                /\ \E x \in InTx(t) : RoomOf[x] = RoomOf[e]}

\* sourceOrderPermits, through predecessorsPermit.
Permits(e, states) ==
  /\ e \in Stored
  /\ BarredBy(e) = {}
  /\ \A p \in Elders(e) : op[p] \in states
MayEnter(e) == Permits(e, Classified)
MayDispatch(e) == Permits(e, Settled)

-----------------------------------------------------------------------------
(* Ingress: texts, reactions, refusals.                                    *)

\* resolveReactionTarget, resolveReplyTarget: wait for an unconfirmed send.
\* A reaction waits for a text that is still to be queued only if it is older.
Awaited(e) == Before(TargetOf[e], e) /\ op[TargetOf[e]] = "none"
Unconfirmed(e) == op[TargetOf[e]] \in Classified \ Settled
Waits(e) ==
  /\ TargetOf[e] # None
  /\ \/ KindOf[e] = "reaction" /\ (Unconfirmed(e) \/ Awaited(e))
     \/ KindOf[e] = "text" /\ Unconfirmed(e) /\ Before(TargetOf[e], e)
Untargeted(e) == /\ KindOf[e] = "reaction" /\ TargetOf[e] # None
                 /\ op[TargetOf[e]] \in {"none", "rejected"}

\* Classify, then acknowledge: a crash between the two repeats the event,
\* whose classification stands.  Only a notice acknowledges a refused one.
Ingest(e) ==
  /\ e \in Stored \ delivered
  /\ KindOf[e] \in Kinds \cup {"oversized"}
  /\ \/ /\ op[e] = "none"
        /\ MayEnter(e) /\ ~Waits(e)
        /\ op' = [op EXCEPT ![e] = IF KindOf[e] = "oversized" \/ Untargeted(e)
                                     THEN "rejected" ELSE "queued"]
     \/ op[e] \in Classified \ {"rejected"} /\ UNCHANGED op
  /\ \/ UNCHANGED delivered
     \/ op'[e] # "rejected" /\ delivered' = delivered \cup {e}
  /\ UNCHANGED <<txVars, done, eventVars, workerVars, candidate>>

\* UnsupportedNoticeWorker: no order check; the refusal is kept before the
\* notice is sent, and the event acknowledged after it.
Refuse(e) ==
  /\ e \in Stored \ delivered
  /\ KindOf[e] = "unsupported" \/ op[e] = "rejected"
  /\ op' = [op EXCEPT ![e] = "rejected"]
  /\ \/ UNCHANGED delivered
     \/ delivered' = delivered \cup {e}
  /\ UNCHANGED <<txVars, done, eventVars, workerVars, candidate>>

-----------------------------------------------------------------------------
(* The two dispatchers.  The journals also keep each chat in the order of  *)
(* its rows, which is the source order (ClassifiedInOrder).                *)

\* The first order check, before the room is looked up.
BeginDispatch(e) ==
  /\ KindOf[e] \in Kinds /\ candidate[KindOf[e]] = None
  /\ op[e] = "queued"
  /\ MayDispatch(e)
  /\ candidate' = [candidate EXCEPT ![KindOf[e]] = e]
  /\ UNCHANGED <<inboxVars, op>>

\* The second one, after it, and the claim.
Claim(e) ==
  /\ KindOf[e] \in Kinds /\ candidate[KindOf[e]] = e
  /\ op[e] = "queued"
  /\ MayDispatch(e)
  /\ op' = [op EXCEPT ![e] = "dispatching"]
  /\ UNCHANGED <<inboxVars, candidate>>

\* The room is not authorised, or the order no longer permits.
AbortDispatch(k) ==
  /\ candidate[k] # None /\ op[candidate[k]] = "queued"
  /\ candidate' = [candidate EXCEPT ![k] = None]
  /\ UNCHANGED <<inboxVars, op>>

\* sent, unknown, or the reaction's reject; an echo may have come before.
Outcomes == [text |-> {"sent", "unknown"}, reaction |-> {"sent", "unknown", "failed"}]
Result(k) ==
  /\ candidate[k] # None /\ op[candidate[k]] # "queued"
  /\ IF op[candidate[k]] = "dispatching"
       THEN \E o \in Outcomes[k] : op' = [op EXCEPT ![candidate[k]] = o]
       ELSE UNCHANGED op
  /\ candidate' = [candidate EXCEPT ![k] = None]
  /\ UNCHANGED inboxVars

\* The text's echo is observed, or the reaction's effect found in Threema.
Resolve(e) ==
  /\ \/ /\ KindOf[e] = "text" /\ op[e] \in Attempted
        /\ op' = [op EXCEPT ![e] = "acked"]
     \/ /\ KindOf[e] = "reaction" /\ op[e] = "unknown"
        /\ op' = [op EXCEPT ![e] = "sent"]
  /\ UNCHANGED <<inboxVars, candidate>>

\* The service starts again: recoverInterrupted of both journals.
Recovered(e) ==
  IF op[e] \in {"dispatching"} \cup (IF KindOf[e] = "text" THEN {"sent"} ELSE {})
    THEN "unknown" ELSE op[e]
RestartService ==
  /\ Restart
  /\ op' = [e \in Events |-> Recovered(e)]
  /\ candidate' = [k \in Kinds |-> None]

InboxStep == (WorkerStep \/ \E t \in Transactions : Put(t)) /\ UNCHANGED orderVars

Next ==
  \/ InboxStep
  \/ \E e \in Events : Ingest(e) \/ Refuse(e) \/ BeginDispatch(e) \/ Claim(e) \/ Resolve(e)
  \/ \E k \in Kinds : AbortDispatch(k) \/ Result(k)
  \/ RestartService

Spec == Init /\ [][Next]_vars

-----------------------------------------------------------------------------
(* Properties.                                                             *)

\* Work enters a journal only when everything older in its room is readable
\* and classified, whatever is decrypted later: this keeps each chat of a
\* journal in source order.
ClassifiedInOrder ==
  \A f \in Events : op[f] \in Classified /\ KindOf[f] \in Kinds
    => BarredBy(f) = {} /\ \A e \in Elders(f) : op[e] \in Classified

\* Nothing older in the room is untried when something has been attempted,
\* although texts and reactions have dispatchers of their own.
AttemptedInOrder ==
  \A f \in Events : op[f] \in Attempted
    => \A e \in Elders(f) : op[e] \in {"unknown"} \cup Settled

\* What makes them inductive: only stored events are classified, and only
\* texts and reactions come into a journal.
ClassifiedStored ==
  \A e \in Events : op[e] # "none" =>
    e \in Stored /\ (op[e] # "rejected" => KindOf[e] \in Kinds)
OrderInv == /\ InboxInv /\ OrderTypeOK /\ ClassifiedStored
            /\ ClassifiedInOrder /\ AttemptedInOrder

\* Permission to enter a journal is not taken back by a later decryption.
PermissionStays ==
  [][\A e \in Events : MayEnter(e) => MayEnter(e)']_vars

\* An event is acknowledged to the inbox only when a journal or a refusal
\* stands for it: no other consumer of the shared inbox drops it.
NoUnclassifiedAck ==
  \A e \in delivered \cap Sequenced : op[e] \in Classified

\* A refusal is final and never falls on what a journal has accepted: the
\* user is told "not sent" only of what will not be sent.
ClassStands ==
  [][\A e \in Events : op[e] # "none" => (op'[e] = "rejected" <=> op[e] = "rejected")]_vars

\* What was attempted is never queued again, by whatever restarts.
NeverRequeued ==
  [][\A e \in Events : op[e] \in Attempted => op'[e] \in Attempted \cup {"failed"}]_vars

\* docs/OUTBOUND-ORDERING.md says that an older undecoded transaction blocks
\* all chats, not only the rooms of its events.
UndecodedBlocksAll ==
  [][\A e \in Events : op[e] = "none" /\ op'[e] = "queued"
       => \A t \in Pending : arrival[t] > arrival[origin[e]]]_vars

\* The same document says that plaintext reactions do not become outbound
\* dependencies.
Plaintext(e) == KindOf[e] = "reaction" /\ e \in Plain
PlaintextIndependent ==
  \A e \in Stored :
    /\ BarredBy(e) = {}
    /\ \A p \in Elders(e) : Plaintext(p) \/ op[p] \in Classified
    => MayEnter(e)

\* The inbox's worker, both ingresses and dispatchers run again and again;
\* rooms are authorised in the end and what is uncertain is found out.
OrderFairness ==
  /\ InboxFairness
  /\ WF_vars(\E e \in Events : Ingest(e)) /\ WF_vars(\E e \in Events : Refuse(e))
  /\ WF_vars(\E e \in Events : BeginDispatch(e)) /\ SF_vars(\E e \in Events : Claim(e))
  /\ WF_vars(\E k \in Kinds : Result(k)) /\ WF_vars(\E e \in Events : Resolve(e))
FairSpec == Spec /\ OrderFairness

\* No mutual waiting: every stored event is settled in the end unless its
\* room has an older transaction whose keys have not come.  Other rooms and
\* uncertain restarts only delay it.
Stranded(e) == \E t \in BarredBy(e) : ~Decodable(t)
EventsSettle ==
  []<>(\A e \in Sequenced \cap Stored : op[e] \in Settled \/ Stranded(e))
=============================================================================
