------------------------------ MODULE Reactions ------------------------------
(***************************************************************************)
(* The owner's reactions in both directions.  ReactionJournal (src/outbox/ *)
(* reaction-journal.ts) keeps the reactions and withdrawals the owner made *)
(* in Matrix, one part for every Threema message the Matrix event stands   *)
(* for; the reaction runtime recovers, dispatches, announces and retires   *)
(* them one after the other.  ReactionDelivery (src/matrix/reaction-       *)
(* delivery.ts) shows in Matrix what the owner's phone did.  They share    *)
(* one fact in Threema: whether the owner's emoji is on the message.       *)
(* Several Matrix events may stand for it, or a projected one, or none.    *)
(*                                                                         *)
(* A spot is a message with an emoji.  Reactions of other people, which    *)
(* have no outgoing side, are left out, and so is the text of a refusal.   *)
(* Answers of the backend arrive in the order of the changes it reports:   *)
(* a state read and the decision taken from it are one step.               *)
(***************************************************************************)
EXTENDS Naturals, Sequences

CONSTANTS Applies,    \* m.reaction events of the owner
          Withdraws,  \* redactions of such events
          TargetOf,   \* the event a withdrawal redacts
          Spots,      \* messages with an emoji
          Rank,       \* order of the messages an event stands for
          Covers,     \* spots of an operation, one part each
          Chats, ChatOf,
          Position,   \* place of an event in the inbox, 0 when it is not known
          MaxMoves,   \* bound: changes made on the phone
          None

Ops == Applies \cup Withdraws

ASSUME ReactionAssumption ==
  /\ Applies \cap Withdraws = {} /\ None \notin Ops /\ None \notin Spots
  /\ TargetOf \in [Withdraws -> Applies]
  /\ Covers \in [Ops -> SUBSET Spots]
  /\ ChatOf \in [Ops -> Chats]
  /\ \A w \in Withdraws :
       Covers[w] = Covers[TargetOf[w]] /\ ChatOf[w] = ChatOf[TargetOf[w]]
  /\ \A o, p \in Ops : Covers[o] \cap Covers[p] # {} => ChatOf[o] = ChatOf[p]
  /\ Rank \in [Spots -> Nat] /\ \A s, t \in Spots : Rank[s] = Rank[t] => s = t
  /\ Position \in [Ops -> Nat]
  /\ \A o, p \in Ops : Position[o] = Position[p] /\ Position[o] # 0 => o = p
  /\ \A w \in Withdraws : Position[w] # 0 => Position[TargetOf[w]] < Position[w]
  /\ MaxMoves \in Nat

VARIABLES
  \* outbox database
  seq,        \* sequence column, 0 before the insert
  lastSeq,    \* AUTOINCREMENT counter
  state,      \* state column of the parts
  retired,    \* reaction_retirements: "no", "planned" or "done"
  noticed,    \* parts whose refusal was announced in the room
  \* reaction runtime, in memory
  pc,         \* where the drain stands
  op, spot,   \* the part, or the operation, it works on
  asked,      \* spots a retirement found absent so far
  excluded,   \* chats the dispatcher leaves alone
  \* backend thread and Threema
  backend,    \* "up", "dying" (requests rejected, thread running), "down"
  call,       \* the reaction in the thread
  callOf,     \* the part it belongs to
  native,     \* spots that bear the owner's emoji
  moves,      \* changes made on the phone
  touched,    \* history: spots the phone has changed
  blind,      \* history: spots where a change went by before the last was recorded
  \* message journal and Matrix delivery
  journaled,  \* the journal's latest snapshot of a spot: "absent", the
              \* "current" reaction or one that was taken "back" since
  changes,    \* recorded snapshots that are not delivered yet
  bound,      \* spots with a projected event in the portal store
  gone,       \* those whose event the homeserver has already redacted
  accepted,   \* has the homeserver the event that the first change adds?
  orphans,    \* spots with an event in the room that no store knows
  dpc         \* what the delivery is asking of the homeserver

rowVars == <<seq, lastSeq, state>>
sideVars == <<retired, noticed>>
workVars == <<pc, op, spot, asked, excluded>>
threadVars == <<backend, call, callOf>>
phoneVars == <<native, moves, touched, blind>>
askVars == <<accepted, orphans>>
showVars == <<journaled, changes, bound, gone, askVars, dpc>>
vars == <<rowVars, sideVars, workVars, threadVars, phoneVars, showVars>>

PartState == {"absent", "PREPARED", "DISPATCHING", "SENT", "OUTCOME_UNKNOWN", "REJECTED"}
Settled == {"absent", "SENT", "REJECTED"}
Phases == <<"ingress", "recover", "dispatch", "notices", "retire">>

ReactionTypeOK ==
  /\ seq \in [Ops -> Nat] /\ lastSeq \in Nat
  /\ state \in [Ops -> [Spots -> PartState]]
  /\ retired \in [Applies -> {"no", "planned", "done"}]
  /\ noticed \in SUBSET (Ops \X Spots)
  /\ pc \in {"stopped", "ingress", "recover", "dispatch", "notices", "retire",
             "check", "claimed", "react", "asking", "redact"}
  /\ op \in Ops \cup {None} /\ spot \in Spots \cup {None}
  /\ asked \in SUBSET Spots /\ excluded \in SUBSET Chats
  /\ backend \in {"up", "dying", "down"}
  /\ call \in {"idle", "requested", "done", "rejected", "failed"}
  /\ callOf \in (Ops \X Spots) \cup {None}
  /\ native \in SUBSET Spots /\ moves \in 0..MaxMoves /\ touched \in SUBSET Spots
  /\ blind \in SUBSET Spots
  /\ journaled \in [Spots -> {"absent", "current", "back"}] /\ changes \in Seq(Spots \X BOOLEAN)
  /\ bound \in SUBSET Spots /\ gone \in SUBSET bound
  /\ accepted \in BOOLEAN /\ orphans \in SUBSET Spots
  /\ dpc \in {"idle", "add", "remove"}

Init ==
  /\ seq = [o \in Ops |-> 0] /\ lastSeq = 0
  /\ state = [o \in Ops |-> [s \in Spots |-> "absent"]]
  /\ retired = [a \in Applies |-> "no"] /\ noticed = {}
  /\ pc = "stopped" /\ op = None /\ spot = None /\ asked = {} /\ excluded = {}
  /\ backend = "down" /\ call = "idle" /\ callOf = None
  /\ native = {} /\ moves = 0 /\ touched = {} /\ blind = {}
  /\ journaled = [s \in Spots |-> "absent"] /\ changes = <<>>
  /\ bound = {} /\ gone = {} /\ accepted = FALSE /\ orphans = {} /\ dpc = "idle"

-----------------------------------------------------------------------------
(* Plausible bugs: each replaces the definition named in its comment, and  *)
(* the runs must notice.                                                   *)

CountsRefused(o, s) == seq[o] # 0 /\ s \in Covers[o]                  \* Counts
RecoverFirst(o, s) ==                                                 \* RecoverPart
  /\ pc = "recover" /\ backend = "up" /\ state[o][s] = "OUTCOME_UNKNOWN"
  /\ \A t \in Covers[o] : Rank[s] <= Rank[t]
  /\ state' = [state EXCEPT ![o][s] = "SENT"]
  /\ UNCHANGED <<seq, lastSeq, sideVars, workVars, threadVars, phoneVars, showVars>>
ResumeNothing(a) == FALSE /\ UNCHANGED vars                           \* ResumeRetire
DeliveredUnasked ==                                                   \* AnswerLost
  /\ dpc # "idle" /\ dpc' = "idle" /\ changes' = Tail(changes) /\ accepted' = FALSE
  /\ UNCHANGED <<rowVars, sideVars, workVars, threadVars, phoneVars, journaled, bound,
                 gone, orphans>>

-----------------------------------------------------------------------------
(* References.                                                             *)

Counts(o, s) == seq[o] # 0 /\ s \in Covers[o] /\ state[o][s] # "REJECTED"

\* requiresRemoteMutation: the reactions to a spot that stand after the
\* operations up to a sequence, replayed in order.
ActiveAt(s, n) ==
  {a \in Applies :
     /\ Counts(a, s) /\ seq[a] <= n /\ retired[a] = "no"
     /\ \A w \in Withdraws :
          TargetOf[w] = a /\ Counts(w, s) => ~(seq[a] < seq[w] /\ seq[w] <= n)}

\* Threema changes only when the first reference appears or the last goes.
NeedsRemote(o, s) == (ActiveAt(s, seq[o] - 1) = {}) # (ActiveAt(s, seq[o]) = {})

\* activeReferences: events of the owner that show the emoji in the room.  A
\* withdrawn one is gone from there whatever became of the withdrawal.
ActiveRefs(s) ==
  {a \in Applies :
     /\ Counts(a, s) /\ retired[a] = "no"
     /\ \A w \in Withdraws : TargetOf[w] = a => ~(seq[a] < seq[w])}

-----------------------------------------------------------------------------
(* Queue order.                                                            *)

Before(p, t, o, s) ==
  /\ ChatOf[p] = ChatOf[o] /\ seq[p] # 0
  /\ seq[p] < seq[o] \/ (p = o /\ Rank[t] < Rank[s])

Candidate(o, s) ==
  /\ state[o][s] = "PREPARED" /\ ChatOf[o] \notin excluded
  /\ \A p \in Ops, t \in Spots : Before(p, t, o, s) => state[p][t] \in Settled

NextPart(o, s) ==
  /\ Candidate(o, s)
  /\ \A p \in Ops, t \in Spots : Candidate(p, t) => seq[o] <= seq[p]

ChatPending(c) == \E p \in Ops, t \in Spots : ChatOf[p] = c /\ state[p][t] \notin Settled

\* reorderPrepared: operations behind the last attempted one of their chat swap
\* places among themselves until they stand in source order, when all of the
\* chat's positions are known.
Attempted(o) == \E s \in Spots : state[o][s] \notin {"absent", "PREPARED"}
Movable(o) ==
  /\ seq[o] # 0
  /\ \A p \in Ops : ChatOf[p] = ChatOf[o] /\ Attempted(p) => seq[p] < seq[o]
Sortable(o) ==
  Movable(o) /\ \A p \in Ops : Movable(p) /\ ChatOf[p] = ChatOf[o] => Position[p] # 0
Reordered(f) ==
  /\ \A o \in Ops : ~Sortable(o) => f[o] = seq[o]
  /\ \A o \in Ops : Sortable(o) =>
       \E p \in Ops : Sortable(p) /\ ChatOf[p] = ChatOf[o] /\ f[o] = seq[p]
  /\ \A o, p \in Ops : Sortable(o) /\ Sortable(p) /\ ChatOf[p] = ChatOf[o] =>
       (Position[o] < Position[p] => f[o] < f[p])

\* retireAbsentReaction and planRetirement: settled, still shown, chat at rest.
Retirable(a) ==
  /\ retired[a] = "no" /\ seq[a] # 0
  /\ \A s \in Covers[a] : state[a][s] = "SENT"
  /\ \E s \in Covers[a] : a \in ActiveRefs(s)
  /\ ~ChatPending(ChatOf[a])

-----------------------------------------------------------------------------
(* Process.                                                                *)

\* A new process: recoverInterrupted, before the first drain.
Start ==
  /\ pc = "stopped"
  /\ state' = [o \in Ops |-> [s \in Spots |->
                 IF state[o][s] = "DISPATCHING" THEN "OUTCOME_UNKNOWN" ELSE state[o][s]]]
  /\ pc' = "ingress" /\ backend' = "up"
  /\ UNCHANGED <<seq, lastSeq, sideVars, op, spot, asked, excluded, call, callOf,
                 phoneVars, showVars>>

\* The process dies or is stopped: memory and thread are gone.
Crash ==
  /\ pc # "stopped"
  /\ pc' = "stopped" /\ op' = None /\ spot' = None /\ asked' = {} /\ excluded' = {}
  /\ backend' = "down" /\ call' = "idle" /\ callOf' = None /\ dpc' = "idle"
  /\ UNCHANGED <<rowVars, sideVars, phoneVars, journaled, changes, bound, gone, askVars>>

\* drain(): the parts of the runtime follow each other, again and again.  Any of
\* them may be over early: a batch, a failure, ready() turned false.
EndPhase ==
  /\ \E i \in 2..5 : pc = Phases[i] /\ pc' = Phases[(i % 5) + 1]
  /\ excluded' = {}
  /\ UNCHANGED <<rowVars, sideVars, op, spot, asked, threadVars, phoneVars, showVars>>

-----------------------------------------------------------------------------
(* Ingress.                                                                *)

\* A withdrawal is resolved from the row of its reaction, whatever the order the
\* two will have, and waits for it.
Resolved(o) == o \in Withdraws => seq[TargetOf[o]] # 0

\* prepare(): the operation and a part for each message.
Prepare(o) ==
  /\ pc = "ingress" /\ seq[o] = 0 /\ Resolved(o)
  /\ lastSeq' = lastSeq + 1 /\ seq' = [seq EXCEPT ![o] = lastSeq + 1]
  /\ state' = [state EXCEPT ![o] =
                 [s \in Spots |-> IF s \in Covers[o] THEN "PREPARED" ELSE "absent"]]
  /\ UNCHANGED <<sideVars, workVars, threadVars, phoneVars, showVars>>

\* The drain of the ingress ends with reorderPrepared.
EndIngress ==
  /\ pc = "ingress" /\ pc' = "recover"
  /\ seq' \in [Ops -> 0..lastSeq] /\ Reordered(seq')
  /\ UNCHANGED <<lastSeq, state, sideVars, op, spot, asked, excluded, threadVars,
                 phoneVars, showVars>>

-----------------------------------------------------------------------------
(* Recovery, dispatch, notices.                                            *)

\* observeDesiredState: the desired state of the emoji holds, so nothing is left
\* to do, whoever brought it about.
Wanted(o, s) == o \in Applies <=> s \in native
Unknown(o, s) == state[o][s] = "OUTCOME_UNKNOWN"
RecoverPart(o, s) ==
  /\ pc = "recover" /\ backend = "up" /\ Unknown(o, s) /\ Wanted(o, s)
  /\ state' = [state EXCEPT ![o][s] = "SENT"]
  /\ UNCHANGED <<seq, lastSeq, sideVars, workVars, threadVars, phoneVars, showVars>>

\* The attempt is over.
Onward == pc' = "dispatch" /\ op' = None /\ spot' = None

Pick(o, s) ==
  /\ pc = "dispatch" /\ NextPart(o, s)
  /\ op' = o /\ spot' = s /\ pc' = "check"
  /\ UNCHANGED <<rowVars, sideVars, asked, excluded, threadVars, phoneVars, showVars>>

\* The room or the source order does not permit it (yet).
CheckFails ==
  /\ pc = "check"
  /\ excluded' = excluded \cup {ChatOf[op]} /\ Onward
  /\ UNCHANGED <<rowVars, sideVars, asked, threadVars, phoneVars, showVars>>

Claim ==
  /\ pc = "check" /\ NextPart(op, spot)
  /\ state' = [state EXCEPT ![op][spot] = "DISPATCHING"] /\ pc' = "claimed"
  /\ UNCHANGED <<seq, lastSeq, sideVars, op, spot, asked, excluded, threadVars,
                 phoneVars, showVars>>

\* Another event stands for the emoji before and after, or none does.
NothingToSend ==
  /\ pc = "claimed" /\ ~NeedsRemote(op, spot)
  /\ state' = [state EXCEPT ![op][spot] = "SENT"] /\ Onward
  /\ UNCHANGED <<seq, lastSeq, sideVars, asked, excluded, threadVars, phoneVars,
                 showVars>>

\* reactMessage; a dead backend rejects it without posting.
SendReaction ==
  /\ pc = "claimed" /\ NeedsRemote(op, spot)
  /\ pc' = "react"
  /\ IF backend = "up" THEN call' = "requested" /\ callOf' = <<op, spot>>
                       ELSE UNCHANGED <<call, callOf>>
  /\ UNCHANGED <<rowVars, sideVars, op, spot, asked, excluded, backend, phoneVars,
                 showVars>>

\* The dispatcher takes the outcome of its call.
Outcome(result, to) ==
  /\ pc = "react" /\ backend = "up" /\ call = result
  /\ state' = [state EXCEPT ![op][spot] = to]
  /\ call' = "idle" /\ callOf' = None /\ Onward
  /\ UNCHANGED <<seq, lastSeq, sideVars, asked, backend, phoneVars, showVars>>
ReactReturns == Outcome("done", "SENT") /\ UNCHANGED excluded
ReactRejected == Outcome("rejected", "REJECTED") /\ UNCHANGED excluded
ReactFails ==
  \/ Outcome("failed", "OUTCOME_UNKNOWN") /\ excluded' = excluded \cup {ChatOf[op]}
  \/ /\ pc = "react" /\ backend # "up"
     /\ state' = [state EXCEPT ![op][spot] = "OUTCOME_UNKNOWN"]
     /\ excluded' = excluded \cup {ChatOf[op]} /\ Onward
     /\ UNCHANGED <<seq, lastSeq, sideVars, asked, threadVars, phoneVars, showVars>>

PendingFailure(o, s) == state[o][s] = "REJECTED" /\ <<o, s>> \notin noticed
Notice(o, s) ==
  /\ pc = "notices" /\ PendingFailure(o, s)
  /\ noticed' = noticed \cup {<<o, s>>}
  /\ UNCHANGED <<rowVars, retired, workVars, threadVars, phoneVars, showVars>>

-----------------------------------------------------------------------------
(* Retirement of references whose emoji is gone from Threema.              *)

BeginRetire(a) ==
  /\ pc = "retire" /\ Retirable(a)
  /\ op' = a /\ asked' = {} /\ pc' = "asking"
  /\ UNCHANGED <<rowVars, sideVars, spot, excluded, threadVars, phoneVars, showVars>>

ResumeRetire(a) ==
  /\ pc = "retire" /\ retired[a] = "planned"
  /\ op' = a /\ pc' = "redact"
  /\ UNCHANGED <<rowVars, sideVars, spot, asked, excluded, threadVars, phoneVars, showVars>>

\* The messages are asked one after the other.
Asking(s) ==
  /\ pc = "asking" /\ s \in Covers[op] \ asked
  /\ \A t \in Covers[op] \ asked : Rank[s] <= Rank[t]

AskAbsent(s) ==
  /\ Asking(s) /\ backend = "up" /\ s \notin native
  /\ asked' = asked \cup {s}
  /\ IF Covers[op] \subseteq asked \cup {s} /\ Retirable(op)
       THEN retired' = [retired EXCEPT ![op] = "planned"] /\ pc' = "redact"
       ELSE UNCHANGED <<retired, pc>>
  /\ UNCHANGED <<rowVars, noticed, op, spot, excluded, threadVars, phoneVars, showVars>>

\* Still there on one of them, or the question fails.
AskEnds ==
  /\ pc = "asking"
  /\ backend # "up" \/ \E s \in Spots : Asking(s) /\ s \in native
  /\ pc' = "retire" /\ op' = None /\ asked' = {}
  /\ UNCHANGED <<rowVars, sideVars, spot, excluded, threadVars, phoneVars, showVars>>

\* finishRetirement.
Finished(a) == [retired EXCEPT ![a] = "done"]
Redacted ==
  /\ pc = "redact"
  /\ retired' = Finished(op)
  /\ pc' = "retire" /\ op' = None /\ asked' = {}
  /\ UNCHANGED <<rowVars, noticed, spot, excluded, threadVars, phoneVars, showVars>>

RedactFails ==
  /\ pc = "redact"
  /\ pc' = "retire" /\ op' = None /\ asked' = {}
  /\ UNCHANGED <<rowVars, sideVars, spot, excluded, threadVars, phoneVars, showVars>>

-----------------------------------------------------------------------------
(* Threema.                                                                *)

\* The snapshot of a spot.  A reaction carries the time it was made: one made
\* again is another one.
Snapshot(s) == IF s \in native THEN "current" ELSE "absent"

\* The emoji is put or taken away.  The watch of the chat reports the change to
\* the journal, which drops a snapshot it already has (upsert); or the watch is
\* being replaced and the next scan has to find it.
Put(s, present) ==
  LET changed == (s \in native) # present
      old == IF ~present /\ journaled[s] = "current" THEN "back" ELSE journaled[s]
      new == IF present THEN "current" ELSE "absent"
  IN /\ native' = IF present THEN native \cup {s} ELSE native \ {s}
     /\ blind' = IF changed /\ journaled[s] # Snapshot(s) THEN blind \cup {s} ELSE blind
     /\ \/ journaled' = [journaled EXCEPT ![s] = IF changed THEN old ELSE @]
           /\ UNCHANGED changes
        \/ /\ changed /\ old # new
           /\ journaled' = [journaled EXCEPT ![s] = new]
           /\ changes' = Append(changes, <<s, present>>)

\* The thread carries a reaction out, even while its request is already
\* rejected, and may fail after that.
NativeReact ==
  /\ backend # "down" /\ call = "requested"
  /\ Put(callOf[2], callOf[1] \in Applies)
  /\ call' \in {"done", "failed"}
  /\ UNCHANGED <<rowVars, sideVars, workVars, backend, callOf, moves, touched, bound,
                 gone, askVars, dpc>>

\* It refuses, or fails before it did anything.
CallErrs ==
  /\ backend # "down" /\ call = "requested"
  /\ call' \in {"rejected", "failed"}
  /\ UNCHANGED <<rowVars, sideVars, workVars, backend, callOf, phoneVars, showVars>>

BackendDies ==
  /\ backend = "up" /\ backend' = "dying"
  /\ UNCHANGED <<rowVars, sideVars, workVars, call, callOf, phoneVars, showVars>>

BackendTerminated ==
  /\ backend = "dying" /\ backend' = "down" /\ call' = "idle" /\ callOf' = None
  /\ UNCHANGED <<rowVars, sideVars, workVars, phoneVars, showVars>>

\* The owner reacts, or takes a reaction back, on the phone.
PhoneMove(s) ==
  /\ moves < MaxMoves /\ moves' = moves + 1
  /\ Put(s, s \notin native)
  /\ touched' = touched \cup {s}
  /\ UNCHANGED <<rowVars, sideVars, workVars, threadVars, bound, gone, askVars, dpc>>

-----------------------------------------------------------------------------
(* The projection.                                                         *)

\* The scan of the conversation records what it finds different.
Scan(s) ==
  /\ backend = "up" /\ journaled[s] # Snapshot(s)
  /\ journaled' = [journaled EXCEPT ![s] = Snapshot(s)]
  /\ changes' = Append(changes, <<s, s \in native>>)
  /\ UNCHANGED <<rowVars, sideVars, workVars, threadVars, phoneVars, bound, gone, askVars,
                 dpc>>

Here == Head(changes)[1]

\* The snapshot may be old: what Threema says now decides, about an emoji that
\* is in the snapshot or already projected.
Desired ==
  /\ Here \in native
  /\ Head(changes)[2] \/ Here \in bound
\* The owner's own event shows the emoji, so no projected one may.
Decision ==
  IF Here \in bound /\ (~Desired \/ ActiveRefs(Here) # {}) THEN "remove"
  ELSE IF Here \notin bound /\ Desired /\ ActiveRefs(Here) = {} THEN "add"
  ELSE "nothing"

Delivered == changes' = Tail(changes) /\ dpc' = "idle" /\ accepted' = FALSE

\* A change may be delivered again that has an event in the room: when it adds none
\* now, nobody will ever know of that one.
Reconcile ==
  /\ backend = "up" /\ dpc = "idle" /\ changes # <<>>
  /\ IF Decision = "nothing"
       THEN Delivered /\ orphans' = IF accepted THEN orphans \cup {Here} ELSE orphans
       ELSE dpc' = Decision /\ UNCHANGED <<changes, askVars>>
  /\ UNCHANGED <<rowVars, sideVars, workVars, threadVars, phoneVars, journaled, bound,
                 gone>>

\* The homeserver carries the request out.  Repeated, it is the same one: an event
\* is prepared and sent under the identifier of the change.
Effect ==
  /\ \/ dpc = "add" /\ accepted' = TRUE /\ UNCHANGED gone
     \/ dpc = "remove" /\ gone' = gone \cup {Here} /\ UNCHANGED accepted
  /\ UNCHANGED <<rowVars, sideVars, workVars, threadVars, phoneVars, journaled, changes,
                 bound, orphans, dpc>>

\* bindReaction or removeReaction, when the homeserver has answered.
Project ==
  /\ \/ dpc = "add" /\ accepted /\ bound' = bound \cup {Here} /\ UNCHANGED gone
     \/ dpc = "remove" /\ Here \in gone /\ bound' = bound \ {Here} /\ gone' = gone \ {Here}
  /\ Delivered
  /\ UNCHANGED <<rowVars, sideVars, workVars, threadVars, phoneVars, journaled, orphans>>

\* The request fails, or its answer is lost after the effect: the change is delivered
\* again, with what Threema says then.
AnswerLost ==
  /\ dpc # "idle" /\ dpc' = "idle"
  /\ UNCHANGED <<rowVars, sideVars, workVars, threadVars, phoneVars, journaled, changes,
                 bound, gone, askVars>>

-----------------------------------------------------------------------------

IngressStep == EndIngress \/ \E o \in Ops : Prepare(o)
DispatchStep == \/ CheckFails \/ Claim \/ NothingToSend \/ SendReaction
                \/ ReactReturns \/ ReactRejected \/ ReactFails
RetireStep == \/ AskEnds \/ Redacted \/ RedactFails
              \/ \E a \in Applies : BeginRetire(a) \/ ResumeRetire(a)
              \/ \E s \in Spots : AskAbsent(s)
DrainStep == \/ EndPhase \/ IngressStep \/ DispatchStep \/ RetireStep
             \/ \E o \in Ops, s \in Spots : RecoverPart(o, s) \/ Pick(o, s) \/ Notice(o, s)
ThreadStep == NativeReact \/ CallErrs
DeliveryStep == Reconcile \/ Effect \/ Project \/ AnswerLost
Next == \/ Start \/ Crash \/ DrainStep \/ ThreadStep \/ DeliveryStep
        \/ BackendDies \/ BackendTerminated
        \/ \E s \in Spots : PhoneMove(s) \/ Scan(s)

Spec == Init /\ [][Next]_vars

-----------------------------------------------------------------------------
(* Safety.                                                                 *)

\* Where the phone did not interfere, the emoji is on the message exactly when a
\* Matrix event that was sent, and neither withdrawn nor retired, stands for it:
\* no crash, refusal, uncertain outcome or second event makes them disagree.
\* (With the types of the module.)
InFlight(s) == \E o \in Ops : state[o][s] \in {"DISPATCHING", "OUTCOME_UNKNOWN"}
Standing(s) ==
  {a \in Applies :
     /\ state[a][s] = "SENT" /\ retired[a] = "no"
     /\ \A w \in Withdraws : TargetOf[w] = a => state[w][s] # "SENT"}
ReferencesDecide ==
  /\ ReactionTypeOK
  /\ \A s \in Spots \ touched : ~InFlight(s) => (s \in native <=> Standing(s) # {})

\* When everything about a spot is delivered and settled, and nothing of it was
\* refused, an emoji in Threema has a source in the room: a projected
\* event or one of the owner; and a projected event that is bound has an emoji in
\* Threema.  An event whose binding was never made is not spoken of: accepted while
\* the answer was lost, it stays in the room when the emoji is gone before the change
\* is delivered again (orphans).  A retirement says nothing of the messages it asked
\* before its last one.
Quiet(s) ==
  /\ journaled[s] = Snapshot(s)
  /\ \A i \in 1..Len(changes) : changes[i][1] # s
  /\ \A o \in Ops : state[o][s] \in {"absent", "SENT"}
  /\ \A a \in Applies :
       s \in Covers[a] /\ retired[a] # "no" => \A t \in Covers[a] : Rank[t] <= Rank[s]
Agrees(s) ==
  /\ s \in native => s \in bound \/ ActiveRefs(s) # {}
  /\ s \in bound => s \in native
QuietAgrees == \A s \in Spots \ blind : Quiet(s) => Agrees(s)

\* docs/MATRIX-PORTALS.md:147: retries of a projection converge, and a reaction
\* made again gets a fresh event: one that everything has settled about is shown.
QuietShown ==
  \A s \in Spots \ blind :
    Quiet(s) /\ s \in native => s \in bound \ gone \/ ActiveRefs(s) # {}

\* The other half of what the same lines say: what the room shows of a spot that has
\* settled is in Threema, an event included whose answer was lost.
NothingStrays ==
  \A s \in Spots \ blind : Quiet(s) /\ s \in orphans => s \in native

-----------------------------------------------------------------------------
(* Liveness.                                                               *)

\* Room checks, questions and redactions fail again and again, but not for ever.
ReactionFairness ==
  /\ WF_vars(DrainStep) /\ WF_vars(ThreadStep)
  /\ \A o \in Ops : SF_vars(\E s \in Spots : RecoverPart(o, s))
  /\ \A a \in Applies :
       SF_vars(BeginRetire(a) \/ ResumeRetire(a)) /\ SF_vars(Redacted /\ op = a)

FairSpec == Spec /\ ReactionFairness

\* In the end a process stays up, after any number of crashes before it.
Steady == <>[](pc # "stopped" /\ backend = "up")

\* A reaction whose outcome is unknown does not hold its chat back once Threema
\* is as it asked for, whoever brought that about.
Uncertain(o, s) == Unknown(o, s) /\ Wanted(o, s)
UncertainSettles ==
  Steady => \A o \in Ops, s \in Spots : Uncertain(o, s) ~> ~Uncertain(o, s)

\* A reaction of the owner that was taken back on the phone disappears from the
\* room, also when the first attempt to redact it is interrupted.
Absent(a) == Retirable(a) /\ Covers[a] \cap native = {}
AbsentRetires ==
  Steady => \A a \in Applies :
    Absent(a) ~> retired[a] = "done" \/ (retired[a] = "no" /\ ~Absent(a))
=============================================================================
