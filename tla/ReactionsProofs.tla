--------------------------- MODULE ReactionsProofs ---------------------------
(***************************************************************************)
(* Proofs about Reactions, for any number of reactions, withdrawals,       *)
(* messages, chats and changes on the phone.                               *)
(*                                                                         *)
(* ReferencesDecide rests on the order of the outbox: within a chat, what  *)
(* stands before a part that was attempted is settled, so that one part    *)
(* is under way at most and the replay that decides whether Threema must   *)
(* change (NeedsRemote) finds there what really happened, Standing.        *)
(* QuietAgrees rests on what the last undelivered change of a spot tells:  *)
(* from its delivery on the room shows the emoji, or an event of the owner *)
(* does which no carried out withdrawal has taken back.                    *)
(***************************************************************************)
EXTENDS Reactions, SequenceTheorems, TLAPS

Under == {"DISPATCHING", "OUTCOME_UNKNOWN"}

RowTypes ==
  /\ seq \in [Ops -> Nat] /\ lastSeq \in Nat
  /\ state \in [Ops -> [Spots -> PartState]]
  /\ retired \in [Applies -> {"no", "planned", "done"}]
  /\ noticed \in SUBSET (Ops \X Spots)

WorkTypes ==
  /\ pc \in {"stopped", "ingress", "recover", "dispatch", "notices", "retire",
             "check", "claimed", "react", "asking", "redact"}
  /\ op \in Ops \cup {None} /\ spot \in Spots \cup {None}
  /\ asked \in SUBSET Spots /\ excluded \in SUBSET Chats
  /\ backend \in {"up", "dying", "down"}
  /\ call \in {"idle", "requested", "done", "rejected", "failed"}
  /\ callOf \in (Ops \X Spots) \cup {None}

ThreemaTypes ==
  /\ native \in SUBSET Spots /\ moves \in 0..MaxMoves /\ touched \in SUBSET Spots
  /\ blind \in SUBSET Spots
  /\ journaled \in [Spots -> {"absent", "current", "back"}]

ShowTypes ==
  /\ changes \in Seq(Spots \X BOOLEAN)
  /\ bound \in SUBSET Spots /\ gone \in SUBSET bound
  /\ accepted \in BOOLEAN /\ orphans \in SUBSET Spots
  /\ dpc \in {"idle", "add", "remove"}

(* The sequence numbers, and the order of attempts. *)
Numbered ==
  /\ \A o \in Ops : seq[o] <= lastSeq
  /\ \A o, p \in Ops : seq[o] = seq[p] /\ seq[o] # 0 => o = p
  /\ \A w \in Withdraws : seq[w] # 0 => seq[TargetOf[w]] # 0 /\ seq[TargetOf[w]] < seq[w]
  /\ \A o \in Ops, s \in Spots : state[o][s] # "absent" <=> seq[o] # 0 /\ s \in Covers[o]
Ordered ==
  \A o, p \in Ops, s, t \in Spots :
    Before(p, t, o, s) /\ state[o][s] \notin {"absent", "PREPARED"} => state[p][t] \in Settled

(* Where the runtime and the thread can be with a part. *)
WorkerInv ==
  /\ pc \in {"check", "claimed", "react"} => op \in Ops /\ spot \in Spots
  /\ pc \in {"claimed", "react"} => state[op][spot] = "DISPATCHING"
  /\ \A o \in Ops, s \in Spots :
       state[o][s] = "DISPATCHING" =>
         pc = "stopped" \/ (pc \in {"claimed", "react"} /\ op = o /\ spot = s)
  /\ pc = "stopped" => backend = "down"
  /\ backend = "down" => call = "idle"
  /\ call # "idle" => /\ callOf \in Ops \X Spots
                      /\ \/ state[callOf[1]][callOf[2]] = "OUTCOME_UNKNOWN"
                         \/ pc = "react" /\ callOf = <<op, spot>>
  /\ call # "idle" /\ backend = "up" => pc = "react" /\ callOf = <<op, spot>>
  /\ pc = "react" /\ backend = "up" => call # "idle"

(* A retired reaction was sent, to every message it covers. *)
RetiredSent ==
  \A a \in Applies : retired[a] # "no" => \A s \in Covers[a] : state[a][s] = "SENT"

(* What a retirement has found: the spots it asked come before the others. *)
RetireInv ==
  /\ pc \in {"asking", "redact"} => op \in Applies
  /\ pc = "asking" => /\ Retirable(op) /\ asked \subseteq Covers[op]
                      /\ \A t \in asked, u \in Covers[op] \ asked : Rank[t] <= Rank[u]
  /\ pc = "redact" => retired[op] # "no"

(* A delivery under way has its change. *)
DeliveryInv ==
  /\ dpc # "idle" => changes # <<>>
  /\ dpc = "remove" => Here \in bound

Types == RowTypes /\ WorkTypes /\ ThreemaTypes /\ ShowTypes
Base ==
  /\ Types /\ Numbered /\ Ordered
  /\ WorkerInv /\ RetireInv /\ RetiredSent /\ DeliveryInv

LEMMA TypesAreTypeOK == Types <=> ReactionTypeOK
BY DEF Types, RowTypes, WorkTypes, ThreemaTypes, ShowTypes, ReactionTypeOK

-----------------------------------------------------------------------------
(* The order of the outbox.                                                *)

(* What reorderPrepared keeps: who has a number, that no two have the same, *)
(* and the place of everything attempted.                                   *)
LEMMA ReorderKeeps ==
  ASSUME RowTypes, Numbered, Ordered, NEW f \in [Ops -> 0..lastSeq], Reordered(f)
  PROVE  /\ \A o \in Ops : f[o] = 0 <=> seq[o] = 0
         /\ \A o, p \in Ops : f[o] = f[p] /\ f[o] # 0 => o = p
         /\ \A w \in Withdraws : seq[w] # 0 => f[TargetOf[w]] < f[w]
         /\ \A o, p \in Ops : Attempted(o) /\ ChatOf[p] = ChatOf[o] /\ f[p] # 0 /\ f[p] < f[o] =>
              f[o] = seq[o] /\ f[p] = seq[p]
<1>1. \A o \in Ops : f[o] \in Nat /\ seq[o] \in Nat /\ (Sortable(o) => seq[o] # 0)
  BY DEF RowTypes, Sortable, Movable
<1>2. \A o \in Ops : ~Sortable(o) => f[o] = seq[o]
  BY DEF Reordered
<1>3. \A o \in Ops : Sortable(o) =>
        \E p \in Ops : Sortable(p) /\ ChatOf[p] = ChatOf[o] /\ f[o] = seq[p]
  BY DEF Reordered
<1>4. \A o, p \in Ops : Sortable(o) /\ Sortable(p) /\ ChatOf[p] = ChatOf[o] =>
        (Position[o] < Position[p] => f[o] < f[p])
  BY DEF Reordered
<1>5. \A o, p \in Ops : Sortable(o) /\ Movable(p) /\ ChatOf[p] = ChatOf[o] =>
        Position[p] # 0 /\ Sortable(p)
  BY DEF Sortable
<1>6. \A o \in Ops : Position[o] \in Nat
  BY ReactionAssumption
<1>7. \A o, p \in Ops : Position[o] = Position[p] /\ Position[o] # 0 => o = p
  BY ReactionAssumption
<1>8. \A o, p \in Ops : seq[o] = seq[p] /\ seq[o] # 0 => o = p
  BY DEF Numbered
<1>9. \A w \in Withdraws : Position[w] # 0 => Position[TargetOf[w]] < Position[w]
  BY ReactionAssumption
<1>a. \A o \in Ops : Sortable(o) => Movable(o)
  BY DEF Sortable
<1>b. \A o \in Ops : f[o] = 0 <=> seq[o] = 0
  BY <1>1, <1>2, <1>3
<1>c. ASSUME NEW o \in Ops, NEW p \in Ops, f[o] = f[p], f[o] # 0 PROVE o = p
  <2>1. CASE Sortable(o) /\ Sortable(p)
    <3>1. PICK x \in Ops : Sortable(x) /\ ChatOf[x] = ChatOf[o] /\ f[o] = seq[x]
      BY <1>3, <2>1
    <3>2. PICK y \in Ops : Sortable(y) /\ ChatOf[y] = ChatOf[p] /\ f[p] = seq[y]
      BY <1>3, <2>1
    <3>3. x = y
      BY <1>8, <1>c, <3>1, <3>2
    <3>4. ChatOf[o] = ChatOf[p]
      BY <3>1, <3>2, <3>3
    <3>5. Position[o] # 0 /\ Position[p] # 0
      BY <1>5, <1>a, <2>1, <3>4
    <3>6. ~(Position[o] < Position[p]) /\ ~(Position[p] < Position[o])
      BY <1>1, <1>4, <1>c, <2>1, <3>4
    <3>7. Position[o] = Position[p]
      BY <1>6, <3>6
    <3>q. QED BY <1>7, <3>5, <3>7
  <2>2. CASE ~Sortable(o) /\ ~Sortable(p)
    BY <1>2, <1>8, <1>c, <2>2
  <2>3. CASE Sortable(o) /\ ~Sortable(p)
    BY <1>2, <1>3, <1>8, <1>c, <2>3
  <2>4. CASE ~Sortable(o) /\ Sortable(p)
    BY <1>2, <1>3, <1>8, <1>c, <2>4
  <2>q. QED BY <2>1, <2>2, <2>3, <2>4
<1>d. \A o, p \in Ops : Movable(p) /\ ChatOf[o] = ChatOf[p] /\ Attempted(o) => seq[o] < seq[p]
  BY DEF Movable
<1>e. ASSUME NEW o \in Ops, NEW p \in Ops, Attempted(o), ChatOf[p] = ChatOf[o], seq[p] # 0
      PROVE  /\ Sortable(p) => seq[o] < f[p] /\ seq[o] < seq[p]
             /\ ~Sortable(o)
  <2>1. ASSUME Sortable(p) PROVE seq[o] < f[p] /\ seq[o] < seq[p]
    <3>1. PICK x \in Ops : Sortable(x) /\ ChatOf[x] = ChatOf[p] /\ f[p] = seq[x]
      BY <1>3, <2>1
    <3>q. QED BY <1>a, <1>d, <1>e, <2>1, <3>1
  <2>2. ~Sortable(o)
    BY <1>1, <1>a, <1>d, <1>e
  <2>q. QED BY <2>1, <2>2
<1>f. ASSUME NEW o \in Ops, NEW p \in Ops, Attempted(o), ChatOf[p] = ChatOf[o], f[p] # 0, f[p] < f[o]
      PROVE  f[o] = seq[o] /\ f[p] = seq[p]
  <2>1. f[o] = seq[o]
    BY <1>b, <1>2, <1>e, <1>f
  <2>q. QED BY <1>1, <1>b, <1>2, <1>e, <1>f, <2>1
<1>g. ASSUME NEW w \in Withdraws, seq[w] # 0 PROVE f[TargetOf[w]] < f[w]
  <2> DEFINE a == TargetOf[w]
  <2>1. w \in Ops /\ a \in Ops /\ ChatOf[w] = ChatOf[a]
    BY ReactionAssumption DEF Ops
  <2>2. seq[a] # 0 /\ seq[a] < seq[w]
    BY <1>g DEF Numbered
  <2> HIDE DEF a
  <2>3. CASE Sortable(w) /\ Sortable(a)
    <3>1. Position[w] # 0
      BY <1>5, <1>a, <2>1, <2>3
    <3>2. Position[a] < Position[w]
      BY <1>9, <3>1 DEF a
    <3>q. QED BY <1>4, <2>1, <2>3, <3>2 DEF a
  <2>4. CASE Sortable(w) /\ ~Sortable(a)
    <3>1. ~Movable(a)
      BY <1>5, <2>1, <2>4
    <3>2. PICK p \in Ops : ChatOf[p] = ChatOf[a] /\ Attempted(p) /\ ~(seq[p] < seq[a])
      BY <2>2, <3>1 DEF Movable
    <3>3. seq[p] < f[w]
      BY <1>e, <1>g, <2>1, <2>4, <3>2
    <3>q. QED BY <1>1, <1>2, <2>1, <2>4, <3>2, <3>3 DEF a
  <2>5. CASE ~Sortable(w) /\ Sortable(a)
    <3>1. \A p \in Ops : ChatOf[p] = ChatOf[w] /\ Attempted(p) => seq[p] < seq[w]
      BY <1>1, <1>a, <1>d, <2>1, <2>2, <2>5
    <3>2. Movable(w)
      BY <1>g, <3>1 DEF Movable
    <3>q. QED BY <1>5, <2>1, <2>5, <3>2
  <2>6. CASE ~Sortable(w) /\ ~Sortable(a)
    BY <1>2, <2>1, <2>2, <2>6 DEF a
  <2>q. QED BY <2>3, <2>4, <2>5, <2>6
<1>q. QED BY <1>b, <1>c, <1>f, <1>g

-----------------------------------------------------------------------------
(* Types.                                                                  *)

(* What a change of the emoji does to the journal. *)
LEMMA PutTypes ==
  ASSUME Types, NEW s \in Spots, NEW present \in BOOLEAN, Put(s, present)
  PROVE  /\ native' \in SUBSET Spots /\ blind' \in SUBSET Spots
         /\ journaled' \in [Spots -> {"absent", "current", "back"}]
         /\ changes' \in Seq(Spots \X BOOLEAN)
         /\ changes' = changes \/ changes' = Append(changes, <<s, present>>)
<1>1. native' \in SUBSET Spots /\ blind' \in SUBSET Spots
  BY DEF Put, Types, ThreemaTypes
<1>2. journaled' \in [Spots -> {"absent", "current", "back"}]
  BY DEF Put, Types, ThreemaTypes
<1>3. changes' = changes \/ changes' = Append(changes, <<s, present>>)
  BY DEF Put
<1>4. Append(changes, <<s, present>>) \in Seq(Spots \X BOOLEAN)
  BY AppendProperties DEF Types, ShowTypes
<1>q. QED BY <1>1, <1>2, <1>3, <1>4 DEF Types, ShowTypes

(* The change that is being delivered is about a spot. *)
LEMMA HereIsSpot ==
  ASSUME Types, changes # <<>>
  PROVE  /\ Here \in Spots /\ Head(changes) \in Spots \X BOOLEAN
         /\ Tail(changes) \in Seq(Spots \X BOOLEAN)
BY HeadTailProperties DEF Types, ShowTypes, Here

LEMMA CallTypes ==
  ASSUME Types, WorkerInv, call # "idle"
  PROVE  callOf[1] \in Ops /\ callOf[2] \in Spots /\ callOf = <<callOf[1], callOf[2]>>
<1>1. callOf \in Ops \X Spots
  BY DEF WorkerInv
<1>q. QED BY <1>1

LEMMA PartTypes ==
  ASSUME RowTypes, NEW o \in Ops, NEW s \in Spots, NEW x \in PartState,
         state' = [state EXCEPT ![o][s] = x], UNCHANGED <<seq, lastSeq, sideVars>>
  PROVE  RowTypes'
BY DEF RowTypes, sideVars

(* The types of the rows, of the runtime with the thread, and of Threema and *)
(* the room, by the actions that change them.                                *)
LEMMA RowTypesKept == Types /\ WorkerInv /\ RetireInv /\ [Next]_vars => RowTypes'
<1> SUFFICES ASSUME Types, WorkerInv, RetireInv, [Next]_vars PROVE RowTypes'
  OBVIOUS
<1> USE DEF Types
<1>1. CASE UNCHANGED <<rowVars, sideVars>>
  BY <1>1 DEF RowTypes, rowVars, sideVars
<1>2. CASE Start
  BY <1>2 DEF Start, RowTypes, PartState, sideVars
<1>3. ASSUME NEW o \in Ops, Prepare(o) PROVE RowTypes'
  BY <1>3 DEF Prepare, RowTypes, PartState, sideVars
<1>4. CASE EndIngress
  BY <1>4 DEF EndIngress, RowTypes, sideVars
<1>5. ASSUME NEW o \in Ops, NEW s \in Spots, RecoverPart(o, s) PROVE RowTypes'
  BY <1>5, PartTypes DEF RecoverPart, PartState
<1>6. CASE Claim
  BY <1>6, PartTypes DEF Claim, PartState, WorkerInv
<1>7. CASE NothingToSend
  BY <1>7, PartTypes DEF NothingToSend, PartState, WorkerInv
<1>8. CASE ReactReturns \/ ReactRejected \/ ReactFails
  <2>1. op \in Ops /\ spot \in Spots /\ UNCHANGED <<seq, lastSeq, sideVars>>
    BY <1>8 DEF ReactReturns, ReactRejected, ReactFails, Outcome, WorkerInv
  <2>2. PICK x \in {"SENT", "REJECTED", "OUTCOME_UNKNOWN"} :
          state' = [state EXCEPT ![op][spot] = x]
    BY <1>8 DEF ReactReturns, ReactRejected, ReactFails, Outcome
  <2>3. x \in PartState
    BY DEF PartState
  <2>q. QED BY <2>1, <2>2, <2>3, PartTypes
<1>9. ASSUME NEW o \in Ops, NEW s \in Spots, Notice(o, s) PROVE RowTypes'
  BY <1>9 DEF Notice, RowTypes, rowVars
<1>10. ASSUME NEW s \in Spots, AskAbsent(s) PROVE RowTypes'
  BY <1>10 DEF AskAbsent, RowTypes, rowVars, RetireInv, Asking
<1>11. CASE Redacted
  BY <1>11 DEF Redacted, Finished, RowTypes, rowVars, RetireInv
<1>12. CASE Crash \/ EndPhase \/ CheckFails \/ SendReaction
  BY <1>1, <1>12 DEF Crash, EndPhase, CheckFails, SendReaction
<1>13. CASE AskEnds \/ RedactFails \/ ThreadStep \/ DeliveryStep
  BY <1>1, <1>13 DEF AskEnds, RedactFails, ThreadStep, NativeReact, CallErrs, DeliveryStep,
     Reconcile, Effect, Project, AnswerLost
<1>14. ASSUME NEW a \in Applies, BeginRetire(a) \/ ResumeRetire(a) PROVE RowTypes'
  BY <1>1, <1>14 DEF BeginRetire, ResumeRetire
<1>15. ASSUME NEW o \in Ops, NEW s \in Spots, Pick(o, s) PROVE RowTypes'
  BY <1>1, <1>15 DEF Pick
<1>16. ASSUME NEW s \in Spots, PhoneMove(s) \/ Scan(s) PROVE RowTypes'
  BY <1>1, <1>16 DEF PhoneMove, Scan
<1>17. CASE BackendDies \/ BackendTerminated \/ UNCHANGED vars
  BY <1>1, <1>17 DEF BackendDies, BackendTerminated, vars
<1>q. QED
  BY <1>2, <1>3, <1>4, <1>5, <1>6, <1>7, <1>8, <1>9, <1>10, <1>11, <1>12, <1>13, <1>14,
     <1>15, <1>16, <1>17
  DEF Next, DrainStep, IngressStep, DispatchStep, RetireStep

LEMMA WorkTypesKept == Types /\ WorkerInv /\ RetireInv /\ [Next]_vars => WorkTypes'
<1> SUFFICES ASSUME Types, WorkerInv, RetireInv, [Next]_vars PROVE WorkTypes'
  OBVIOUS
<1> USE DEF Types, WorkTypes
<1>1. CASE UNCHANGED <<workVars, threadVars>>
  BY <1>1 DEF workVars, threadVars
<1>2. CASE Start
  BY <1>2 DEF Start
<1>3. CASE Crash
  BY <1>3 DEF Crash
<1>4. CASE EndPhase
  BY <1>4 DEF EndPhase, Phases, threadVars
<1>5. ASSUME NEW o \in Ops, Prepare(o) PROVE WorkTypes'
  BY <1>1, <1>5 DEF Prepare
<1>6. CASE EndIngress
  BY <1>6 DEF EndIngress, threadVars
<1>7. ASSUME NEW o \in Ops, NEW s \in Spots, RecoverPart(o, s) \/ Notice(o, s) PROVE WorkTypes'
  BY <1>1, <1>7 DEF RecoverPart, Notice
<1>8. ASSUME NEW o \in Ops, NEW s \in Spots, Pick(o, s) PROVE WorkTypes'
  BY <1>8 DEF Pick, threadVars
<1>c. op \in Ops => ChatOf[op] \in Chats
  BY ReactionAssumption
<1>9. CASE CheckFails
  BY <1>9, <1>c DEF CheckFails, Onward, threadVars, WorkerInv
<1>10. CASE Claim
  BY <1>10 DEF Claim, threadVars
<1>11. CASE NothingToSend
  BY <1>11 DEF NothingToSend, Onward, threadVars
<1>12. CASE SendReaction
  BY <1>12 DEF SendReaction, WorkerInv
<1>13. CASE ReactReturns \/ ReactRejected
  BY <1>13 DEF ReactReturns, ReactRejected, Outcome, Onward
<1>14. CASE ReactFails
  BY <1>14, <1>c DEF ReactFails, Outcome, Onward, threadVars, WorkerInv
<1>15. ASSUME NEW a \in Applies, BeginRetire(a) \/ ResumeRetire(a) PROVE WorkTypes'
  BY <1>15 DEF BeginRetire, ResumeRetire, threadVars, Ops
<1>16. ASSUME NEW s \in Spots, AskAbsent(s) PROVE WorkTypes'
  BY <1>16 DEF AskAbsent, threadVars
<1>17. CASE AskEnds \/ Redacted \/ RedactFails
  BY <1>17 DEF AskEnds, Redacted, RedactFails, threadVars
<1>18. CASE NativeReact
  BY <1>18 DEF NativeReact, workVars
<1>19. CASE CallErrs
  BY <1>19 DEF CallErrs, workVars
<1>20. CASE DeliveryStep
  BY <1>1, <1>20 DEF DeliveryStep, Reconcile, Effect, Project, AnswerLost
<1>21. CASE BackendDies \/ BackendTerminated
  BY <1>21 DEF BackendDies, BackendTerminated, workVars
<1>22. ASSUME NEW s \in Spots, PhoneMove(s) \/ Scan(s) PROVE WorkTypes'
  BY <1>1, <1>22 DEF PhoneMove, Scan
<1>23. CASE UNCHANGED vars
  BY <1>1, <1>23 DEF vars
<1>q. QED
  BY <1>2, <1>3, <1>4, <1>5, <1>6, <1>7, <1>8, <1>9, <1>10, <1>11, <1>12, <1>13, <1>14,
     <1>15, <1>16, <1>17, <1>18, <1>19, <1>20, <1>21, <1>22, <1>23
  DEF Next, DrainStep, IngressStep, DispatchStep, RetireStep, ThreadStep

LEMMA QuietSteps ==
  ASSUME Next,
         ~NativeReact, ~Crash, ~DeliveryStep, \A s \in Spots : ~PhoneMove(s) /\ ~Scan(s)
  PROVE  UNCHANGED <<phoneVars, showVars>>
<1>1. CASE Start \/ EndPhase \/ EndIngress \/ CheckFails \/ Claim \/ NothingToSend \/ SendReaction
  BY <1>1 DEF Start, EndPhase, EndIngress, CheckFails, Claim, NothingToSend, SendReaction
<1>2. CASE ReactReturns \/ ReactRejected \/ ReactFails
  BY <1>2 DEF ReactReturns, ReactRejected, ReactFails, Outcome
<1>3. ASSUME NEW o \in Ops, Prepare(o) PROVE UNCHANGED <<phoneVars, showVars>>
  BY <1>3 DEF Prepare
<1>4. ASSUME NEW o \in Ops, NEW s \in Spots, RecoverPart(o, s) \/ Pick(o, s) \/ Notice(o, s)
      PROVE  UNCHANGED <<phoneVars, showVars>>
  BY <1>4 DEF RecoverPart, Pick, Notice
<1>5. CASE AskEnds \/ Redacted \/ RedactFails \/ CallErrs \/ BackendDies \/ BackendTerminated
  BY <1>5 DEF AskEnds, Redacted, RedactFails, CallErrs, BackendDies, BackendTerminated
<1>6. ASSUME NEW a \in Applies, BeginRetire(a) \/ ResumeRetire(a)
      PROVE  UNCHANGED <<phoneVars, showVars>>
  BY <1>6 DEF BeginRetire, ResumeRetire
<1>7. ASSUME NEW s \in Spots, AskAbsent(s) PROVE UNCHANGED <<phoneVars, showVars>>
  BY <1>7 DEF AskAbsent
<1>q. QED
  BY <1>1, <1>2, <1>3, <1>4, <1>5, <1>6, <1>7
  DEF Next, DrainStep, IngressStep, DispatchStep, RetireStep, ThreadStep

LEMMA ShowTypesKept ==
  Types /\ WorkerInv /\ DeliveryInv /\ [Next]_vars => ThreemaTypes' /\ ShowTypes'
<1> SUFFICES ASSUME Types, WorkerInv, DeliveryInv, [Next]_vars PROVE ThreemaTypes' /\ ShowTypes'
  OBVIOUS
<1>1. CASE UNCHANGED <<phoneVars, showVars>>
  BY <1>1 DEF Types, ThreemaTypes, ShowTypes, phoneVars, showVars, askVars
<1>2. CASE NativeReact
  <2>1. callOf[2] \in Spots
    BY <1>2, CallTypes DEF NativeReact
  <2>2. /\ native' \in SUBSET Spots /\ blind' \in SUBSET Spots
        /\ journaled' \in [Spots -> {"absent", "current", "back"}]
        /\ changes' \in Seq(Spots \X BOOLEAN)
    <3>1. Put(callOf[2], callOf[1] \in Applies) /\ (callOf[1] \in Applies) \in BOOLEAN
      BY <1>2 DEF NativeReact
    <3>q. QED BY <2>1, <3>1, PutTypes
  <2>q. QED BY <1>2, <2>2 DEF NativeReact, Types, ThreemaTypes, ShowTypes, askVars
<1>3. ASSUME NEW s \in Spots, PhoneMove(s) PROVE ThreemaTypes' /\ ShowTypes'
  <2>2. /\ native' \in SUBSET Spots /\ blind' \in SUBSET Spots
        /\ journaled' \in [Spots -> {"absent", "current", "back"}]
        /\ changes' \in Seq(Spots \X BOOLEAN)
    BY <1>3, PutTypes DEF PhoneMove
  <2>3. moves' \in 0..MaxMoves
    BY <1>3, ReactionAssumption DEF PhoneMove, Types, ThreemaTypes
  <2>q. QED BY <1>3, <2>2, <2>3 DEF PhoneMove, Types, ThreemaTypes, ShowTypes, askVars
<1>4. ASSUME NEW s \in Spots, Scan(s) PROVE ThreemaTypes' /\ ShowTypes'
  <2>1. changes' \in Seq(Spots \X BOOLEAN)
    <3>1. \A present \in BOOLEAN : <<s, present>> \in Spots \X BOOLEAN
      OBVIOUS
    <3>2. (s \in native) \in BOOLEAN
      OBVIOUS
    <3>3. changes' = Append(changes, <<s, s \in native>>)
      BY <1>4 DEF Scan
    <3> DEFINE e == <<s, s \in native>>
    <3> HIDE DEF e
    <3>4. e \in Spots \X BOOLEAN
      BY <3>1, <3>2, Zenon DEF e
    <3>q. QED BY <3>3, <3>4, AppendProperties DEF e, Types, ShowTypes
  <2>2. journaled' \in [Spots -> {"absent", "current", "back"}]
    BY <1>4 DEF Scan, Snapshot, Types, ThreemaTypes
  <2>q. QED BY <1>4, <2>1, <2>2 DEF Scan, Types, ThreemaTypes, ShowTypes, phoneVars, askVars
<1>5. CASE Crash
  BY <1>5 DEF Crash, Types, ThreemaTypes, ShowTypes, phoneVars, askVars
<1>6. CASE DeliveryStep
  <2>1. changes # <<>>
    BY <1>6 DEF DeliveryStep, Reconcile, Effect, Project, AnswerLost, DeliveryInv
  <2>2. Here \in Spots /\ Tail(changes) \in Seq(Spots \X BOOLEAN)
    BY <2>1, HereIsSpot
  <2>3. CASE Reconcile
    BY <2>2, <2>3 DEF Reconcile, Decision, Delivered, Types, ThreemaTypes, ShowTypes, phoneVars,
       askVars
  <2>6. CASE Effect
    BY <2>2, <2>6 DEF Effect, DeliveryInv, Types, ThreemaTypes, ShowTypes, phoneVars
  <2>4. CASE Project
    BY <2>2, <2>4 DEF Project, Delivered, Types, ThreemaTypes, ShowTypes, phoneVars
  <2>5. CASE AnswerLost
    BY <2>2, <2>5 DEF AnswerLost, DeliveryInv, Types, ThreemaTypes, ShowTypes, phoneVars, askVars
  <2>q. QED BY <1>6, <2>3, <2>4, <2>5, <2>6 DEF DeliveryStep
<1>7. CASE UNCHANGED vars
  BY <1>1, <1>7 DEF vars
<1>q. QED BY <1>1, <1>2, <1>3, <1>4, <1>5, <1>6, <1>7, QuietSteps

-----------------------------------------------------------------------------
(* The rows.                                                               *)

LEMMA RowsRest ==
  ASSUME Numbered, Ordered, UNCHANGED rowVars
  PROVE  Numbered' /\ Ordered'
BY DEF Numbered, Ordered, Before, rowVars

(* A part that is next, or under way, takes a step: whatever stands before *)
(* an attempted part stays settled.                                        *)
LEMMA PartStep ==
  ASSUME Types, Numbered, Ordered, NEW o \in Ops, NEW s \in Spots,
         NEW x \in PartState \ {"absent", "PREPARED"},
         state[o][s] \in Under \/ Candidate(o, s),
         state' = [state EXCEPT ![o][s] = x], UNCHANGED <<seq, lastSeq>>
  PROVE  Numbered' /\ Ordered'
<1>1. \A p \in Ops, t \in Spots :
        state'[p][t] = IF p = o /\ t = s THEN x ELSE state[p][t]
  BY DEF Types, RowTypes
<1>2. state[o][s] \notin Settled
  BY DEF Under, Settled, Candidate
<1>3. Numbered'
  BY <1>1, <1>2 DEF Numbered, Settled
<1>4. ASSUME NEW p \in Ops, NEW q \in Ops, NEW t \in Spots, NEW u \in Spots,
             Before(q, u, p, t), state'[p][t] \notin {"absent", "PREPARED"}
      PROVE  state'[q][u] \in Settled
  <2>1. CASE p = o /\ t = s
    <3>1. state[q][u] \in Settled
      BY <1>4, <2>1 DEF Ordered, Candidate, Under
    <3>q. QED BY <1>1, <1>2, <3>1
  <2>2. CASE ~(p = o /\ t = s)
    <3>1. state[q][u] \in Settled
      BY <1>1, <1>4, <2>2 DEF Ordered
    <3>q. QED BY <1>1, <1>2, <3>1
  <2>q. QED BY <2>1, <2>2
<1>q. QED BY <1>3, <1>4 DEF Ordered, Before

LEMMA StartRows ==
  ASSUME Types, Numbered, Ordered, Start
  PROVE  Numbered' /\ Ordered'
<1>1. \A p \in Ops, t \in Spots :
        /\ state'[p][t] = "absent" <=> state[p][t] = "absent"
        /\ state'[p][t] = "PREPARED" <=> state[p][t] = "PREPARED"
        /\ state'[p][t] \in Settled <=> state[p][t] \in Settled
  BY DEF Start, Settled, Types, RowTypes
<1>q. QED BY <1>1 DEF Start, Numbered, Ordered, Before

LEMMA PrepareRows ==
  ASSUME Types, Numbered, Ordered, NEW o \in Ops, Prepare(o)
  PROVE  Numbered' /\ Ordered'
<1>1. \A p \in Ops : seq'[p] = (IF p = o THEN lastSeq + 1 ELSE seq[p]) /\ seq[p] \in Nat
  BY DEF Prepare, Types, RowTypes
<1>2. \A p \in Ops, t \in Spots :
        state'[p][t] = IF p = o THEN (IF t \in Covers[o] THEN "PREPARED" ELSE "absent")
                                ELSE state[p][t]
  BY DEF Prepare, Types, RowTypes
<1>3. lastSeq \in Nat /\ lastSeq' = lastSeq + 1 /\ seq[o] = 0
  BY DEF Prepare, Types, RowTypes
<1>4. \A p \in Ops : seq[p] <= lastSeq
  BY DEF Numbered
<1>5. Numbered'
  <2>1. \A p \in Ops : seq'[p] <= lastSeq'
    BY <1>1, <1>3, <1>4
  <2>2. \A p, q \in Ops : seq'[p] = seq'[q] /\ seq'[p] # 0 => p = q
    <3>1. \A p, q \in Ops : seq[p] = seq[q] /\ seq[p] # 0 => p = q
      BY DEF Numbered
    <3>q. QED BY <1>1, <1>3, <1>4, <3>1
  <2>3. ASSUME NEW w \in Withdraws, seq'[w] # 0
        PROVE  seq'[TargetOf[w]] # 0 /\ seq'[TargetOf[w]] < seq'[w]
    <3>1. w \in Ops /\ TargetOf[w] \in Ops /\ TargetOf[w] # w
      BY ReactionAssumption DEF Ops
    <3>2. CASE w = o
      BY <1>1, <1>3, <1>4, <3>1, <3>2 DEF Prepare, Resolved
    <3>3. CASE w # o
      <4>1. seq[w] # 0
        BY <1>1, <2>3, <3>1, <3>3
      <4>2. seq[TargetOf[w]] # 0 /\ seq[TargetOf[w]] < seq[w]
        BY <4>1 DEF Numbered
      <4>q. QED BY <1>1, <1>3, <3>1, <3>3, <4>2
    <3>q. QED BY <3>2, <3>3
  <2>4. \A p \in Ops, t \in Spots : state'[p][t] # "absent" <=> seq'[p] # 0 /\ t \in Covers[p]
    <3>1. \A p \in Ops, t \in Spots : state[p][t] # "absent" <=> seq[p] # 0 /\ t \in Covers[p]
      BY DEF Numbered
    <3>q. QED BY <1>1, <1>2, <1>3, <3>1
  <2>q. QED BY <2>1, <2>2, <2>3, <2>4 DEF Numbered
<1>6. ASSUME NEW p \in Ops, NEW q \in Ops, NEW t \in Spots, NEW u \in Spots,
             Before(q, u, p, t)', state'[p][t] \notin {"absent", "PREPARED"}
      PROVE  state'[q][u] \in Settled
  <2>1. p # o /\ state[p][t] \notin {"absent", "PREPARED"}
    BY <1>2, <1>6
  <2>2. q # o
    BY <1>1, <1>3, <1>4, <1>6, <2>1 DEF Before
  <2>3. Before(q, u, p, t)
    BY <1>1, <1>6, <2>1, <2>2 DEF Before
  <2>q. QED BY <1>2, <2>1, <2>2, <2>3 DEF Ordered
<1>q. QED BY <1>5, <1>6 DEF Ordered

LEMMA EndIngressRows ==
  ASSUME Types, Numbered, Ordered, EndIngress
  PROVE  Numbered' /\ Ordered'
<1>1. seq' \in [Ops -> 0..lastSeq] /\ Reordered(seq') /\ state' = state /\ lastSeq' = lastSeq
  BY DEF EndIngress
<1>2. /\ \A o \in Ops : seq'[o] = 0 <=> seq[o] = 0
      /\ \A o, p \in Ops : seq'[o] = seq'[p] /\ seq'[o] # 0 => o = p
      /\ \A w \in Withdraws : seq[w] # 0 => seq'[TargetOf[w]] < seq'[w]
      /\ \A o, p \in Ops :
           Attempted(o) /\ ChatOf[p] = ChatOf[o] /\ seq'[p] # 0 /\ seq'[p] < seq'[o] =>
             seq'[o] = seq[o] /\ seq'[p] = seq[p]
  <2> DEFINE f == seq'
  <2>1. f \in [Ops -> 0..lastSeq] /\ Reordered(f)
    BY <1>1
  <2> HIDE DEF f
  <2>2. /\ \A o \in Ops : f[o] = 0 <=> seq[o] = 0
        /\ \A o, p \in Ops : f[o] = f[p] /\ f[o] # 0 => o = p
        /\ \A w \in Withdraws : seq[w] # 0 => f[TargetOf[w]] < f[w]
        /\ \A o, p \in Ops : Attempted(o) /\ ChatOf[p] = ChatOf[o] /\ f[p] # 0 /\ f[p] < f[o] =>
             f[o] = seq[o] /\ f[p] = seq[p]
    BY <2>1, ReorderKeeps DEF Types
  <2>q. QED BY <2>2 DEF f
<1>3. \A o \in Ops : seq'[o] <= lastSeq' /\ seq'[o] \in Nat
  BY <1>1 DEF Types, RowTypes
<1>4. Numbered'
  <2>1. \A w \in Withdraws : w \in Ops /\ TargetOf[w] \in Ops
    BY ReactionAssumption DEF Ops
  <2>2. \A w \in Withdraws : seq'[w] # 0 => seq'[TargetOf[w]] # 0 /\ seq'[TargetOf[w]] < seq'[w]
    BY <1>2, <2>1 DEF Numbered
  <2>q. QED BY <1>1, <1>2, <1>3, <2>2 DEF Numbered
<1>5. ASSUME NEW p \in Ops, NEW q \in Ops, NEW t \in Spots, NEW u \in Spots,
             Before(q, u, p, t)', state'[p][t] \notin {"absent", "PREPARED"}
      PROVE  state'[q][u] \in Settled
  <2>1. Attempted(p) /\ state[p][t] \notin {"absent", "PREPARED"}
    BY <1>1, <1>5 DEF Attempted
  <2>2. Before(q, u, p, t)
    BY <1>2, <1>5, <2>1 DEF Before
  <2>q. QED BY <1>1, <2>1, <2>2 DEF Ordered
<1>q. QED BY <1>4, <1>5 DEF Ordered

LEMMA RowsKept ==
  Types /\ Numbered /\ Ordered /\ WorkerInv /\ [Next]_vars => Numbered' /\ Ordered'
<1> SUFFICES ASSUME Types, Numbered, Ordered, WorkerInv, [Next]_vars PROVE Numbered' /\ Ordered'
  OBVIOUS
<1>1. CASE UNCHANGED rowVars
  BY <1>1, RowsRest
<1>2. CASE Start
  BY <1>2, StartRows
<1>3. ASSUME NEW o \in Ops, Prepare(o) PROVE Numbered' /\ Ordered'
  BY <1>3, PrepareRows
<1>4. CASE EndIngress
  BY <1>4, EndIngressRows
<1>5. ASSUME NEW o \in Ops, NEW s \in Spots, RecoverPart(o, s) PROVE Numbered' /\ Ordered'
  BY <1>5, PartStep DEF RecoverPart, Unknown, Under, PartState
<1>6. CASE Claim
  BY <1>6, PartStep DEF Claim, NextPart, WorkerInv, PartState
<1>7. CASE NothingToSend
  BY <1>7, PartStep DEF NothingToSend, WorkerInv, PartState, Under
<1>8. CASE ReactReturns \/ ReactRejected \/ ReactFails
  <2>1. op \in Ops /\ spot \in Spots /\ state[op][spot] \in Under /\ UNCHANGED <<seq, lastSeq>>
    BY <1>8 DEF ReactReturns, ReactRejected, ReactFails, Outcome, WorkerInv, Under
  <2>2. PICK x \in {"SENT", "REJECTED", "OUTCOME_UNKNOWN"} :
          state' = [state EXCEPT ![op][spot] = x]
    BY <1>8 DEF ReactReturns, ReactRejected, ReactFails, Outcome
  <2>3. x \in PartState \ {"absent", "PREPARED"}
    BY DEF PartState
  <2>q. QED BY <2>1, <2>2, <2>3, PartStep
<1>9. ASSUME NEW o \in Ops, NEW s \in Spots, Notice(o, s) \/ Pick(o, s) PROVE Numbered' /\ Ordered'
  BY <1>1, <1>9 DEF Notice, Pick
<1>10. ASSUME NEW s \in Spots, AskAbsent(s) \/ PhoneMove(s) \/ Scan(s) PROVE Numbered' /\ Ordered'
  BY <1>1, <1>10 DEF AskAbsent, PhoneMove, Scan
<1>11. CASE Crash \/ EndPhase \/ CheckFails \/ SendReaction \/ AskEnds \/ Redacted \/ RedactFails
  BY <1>1, <1>11 DEF Crash, EndPhase, CheckFails, SendReaction, AskEnds, Redacted, RedactFails
<1>12. CASE ThreadStep \/ DeliveryStep \/ BackendDies \/ BackendTerminated \/ UNCHANGED vars
  BY <1>1, <1>12 DEF ThreadStep, NativeReact, CallErrs, DeliveryStep, Reconcile, Effect, Project,
     AnswerLost, BackendDies, BackendTerminated, vars
<1>13. ASSUME NEW a \in Applies, BeginRetire(a) \/ ResumeRetire(a) PROVE Numbered' /\ Ordered'
  BY <1>1, <1>13 DEF BeginRetire, ResumeRetire
<1>q. QED
  BY <1>2, <1>3, <1>4, <1>5, <1>6, <1>7, <1>8, <1>9, <1>10, <1>11, <1>12, <1>13
  DEF Next, DrainStep, IngressStep, DispatchStep, RetireStep

-----------------------------------------------------------------------------
(* The runtime, the thread, the retirement and the delivery.               *)

LEMMA WorkerRests ==
  ASSUME WorkerInv, UNCHANGED <<state, pc, op, spot, threadVars>>
  PROVE  WorkerInv'
BY DEF WorkerInv, threadVars

LEMMA DispatchWorker ==
  ASSUME Types, WorkerInv, DispatchStep \/ \E o \in Ops, s \in Spots : Pick(o, s)
  PROVE  WorkerInv'
<1>0. state \in [Ops -> [Spots -> PartState]] /\ None \notin Ops /\ None \notin Spots
  BY ReactionAssumption DEF Types, RowTypes
<1>1. ASSUME NEW o \in Ops, NEW s \in Spots, Pick(o, s) PROVE WorkerInv'
  BY <1>0, <1>1 DEF Pick, WorkerInv, rowVars, threadVars
<1>2. CASE CheckFails
  BY <1>0, <1>2 DEF CheckFails, Onward, WorkerInv, rowVars, threadVars
<1>3. CASE Claim
  <2>1. op \in Ops /\ spot \in Spots /\ state' = [state EXCEPT ![op][spot] = "DISPATCHING"]
    BY <1>3 DEF Claim, WorkerInv
  <2>2. \A p \in Ops, t \in Spots :
          state'[p][t] = IF p = op /\ t = spot THEN "DISPATCHING" ELSE state[p][t]
    BY <1>0, <2>1
  <2>3. pc = "check" /\ pc' = "claimed" /\ UNCHANGED <<op, spot, threadVars>>
    BY <1>3 DEF Claim
  <2>4. ASSUME call # "idle" PROVE state'[callOf[1]][callOf[2]] = "OUTCOME_UNKNOWN"
    <3>1. state[callOf[1]][callOf[2]] = "OUTCOME_UNKNOWN"
      BY <2>3, <2>4 DEF WorkerInv
    <3>2. callOf[1] \in Ops /\ callOf[2] \in Spots
      BY <2>4, CallTypes
    <3>3. state[op][spot] # "OUTCOME_UNKNOWN"
      BY <1>3 DEF Claim, NextPart, Candidate
    <3>q. QED BY <2>2, <3>1, <3>2, <3>3
  <2>q. QED BY <2>1, <2>2, <2>3, <2>4 DEF WorkerInv, threadVars
<1>4. ASSUME NothingToSend \/ ReactReturns \/ ReactRejected \/ ReactFails PROVE WorkerInv'
  <2>1. op \in Ops /\ spot \in Spots /\ pc' = "dispatch" /\ backend' = backend
        /\ pc \in {"claimed", "react"}
    BY <1>4 DEF NothingToSend, ReactReturns, ReactRejected, ReactFails, Outcome, Onward,
       WorkerInv, threadVars
  <2>2. PICK x \in {"SENT", "REJECTED", "OUTCOME_UNKNOWN"} :
          /\ state' = [state EXCEPT ![op][spot] = x]
          /\ call' # "idle" => /\ call' = call /\ callOf' = callOf
                               /\ x = "OUTCOME_UNKNOWN" \/ pc = "claimed"
    BY <1>4 DEF NothingToSend, ReactReturns, ReactRejected, ReactFails, Outcome, threadVars
  <2>3. \A p \in Ops, t \in Spots :
          state'[p][t] = IF p = op /\ t = spot THEN x ELSE state[p][t]
    BY <1>0, <2>1, <2>2
  <2>4. backend = "up" => call' = "idle"
    BY <1>4 DEF NothingToSend, ReactReturns, ReactRejected, ReactFails, Outcome, WorkerInv,
       threadVars
  <2>q. QED BY <2>1, <2>2, <2>3, <2>4 DEF WorkerInv, Under
<1>5. CASE SendReaction
  BY <1>0, <1>5 DEF SendReaction, WorkerInv, rowVars, Under
<1>q. QED BY <1>1, <1>2, <1>3, <1>4, <1>5 DEF DispatchStep

LEMMA WorkerKept ==
  Types /\ Numbered /\ WorkerInv /\ [Next]_vars => WorkerInv'
<1> SUFFICES ASSUME Types, Numbered, WorkerInv, [Next]_vars PROVE WorkerInv'
  OBVIOUS
<1>0. state \in [Ops -> [Spots -> PartState]] /\ None \notin Ops /\ None \notin Spots
  BY ReactionAssumption DEF Types, RowTypes
<1>1. CASE Start
  <2>1. \A p \in Ops, t \in Spots :
          state'[p][t] = IF state[p][t] = "DISPATCHING" THEN "OUTCOME_UNKNOWN" ELSE state[p][t]
    BY <1>1 DEF Start
  <2>q. QED BY <1>1, <2>1 DEF Start, WorkerInv, Under
<1>2. CASE Crash
  BY <1>2 DEF Crash, WorkerInv, rowVars
<1>3. CASE EndPhase
  <2>1. pc \in {"recover", "dispatch", "notices", "retire"}
        /\ pc' \in {"ingress", "recover", "dispatch", "notices", "retire"}
    BY <1>3 DEF EndPhase, Phases
  <2>q. QED BY <1>3, <2>1 DEF EndPhase, WorkerInv, rowVars, threadVars
<1>4. ASSUME NEW o \in Ops, Prepare(o) PROVE WorkerInv'
  <2>1. \A p \in Ops, t \in Spots :
          state'[p][t] = IF p = o THEN (IF t \in Covers[o] THEN "PREPARED" ELSE "absent")
                                  ELSE state[p][t]
    BY <1>0, <1>4 DEF Prepare
  <2>2. \A t \in Spots : state[o][t] # "DISPATCHING"
    BY <1>4 DEF Prepare, WorkerInv
  <2>3. UNCHANGED <<workVars, threadVars>> /\ pc = "ingress"
    BY <1>4 DEF Prepare
  <2>4. call # "idle" => callOf[1] # o
    BY <1>4 DEF Prepare, Numbered, WorkerInv, Under
  <2>q. QED BY <2>1, <2>2, <2>3, <2>4 DEF WorkerInv, Under, workVars, threadVars
<1>5. CASE EndIngress
  BY <1>5 DEF EndIngress, WorkerInv, threadVars
<1>6. ASSUME NEW o \in Ops, NEW s \in Spots, RecoverPart(o, s) PROVE WorkerInv'
  <2>1. \A p \in Ops, t \in Spots :
          state'[p][t] = IF p = o /\ t = s THEN "SENT" ELSE state[p][t]
    BY <1>0, <1>6 DEF RecoverPart
  <2>2. pc = "recover" /\ backend = "up" /\ UNCHANGED <<workVars, threadVars>>
    BY <1>6 DEF RecoverPart
  <2>q. QED BY <2>1, <2>2 DEF WorkerInv, workVars, threadVars
<1>7. CASE \E o \in Ops, s \in Spots : Pick(o, s)
  BY <1>7, DispatchWorker
<1>8. CASE DispatchStep
  BY <1>8, DispatchWorker
<1>9. ASSUME NEW o \in Ops, NEW s \in Spots, Notice(o, s) PROVE WorkerInv'
  BY <1>9, WorkerRests DEF Notice, rowVars, workVars
<1>10. CASE AskEnds \/ Redacted \/ RedactFails
  BY <1>10 DEF AskEnds, Redacted, RedactFails, WorkerInv, rowVars, threadVars
<1>11. ASSUME NEW a \in Applies, BeginRetire(a) \/ ResumeRetire(a) PROVE WorkerInv'
  BY <1>11 DEF BeginRetire, ResumeRetire, WorkerInv, rowVars, threadVars
<1>12. ASSUME NEW s \in Spots, AskAbsent(s) PROVE WorkerInv'
  BY <1>12 DEF AskAbsent, Asking, WorkerInv, rowVars, threadVars
<1>13. CASE ThreadStep
  BY <1>13 DEF ThreadStep, NativeReact, CallErrs, WorkerInv, rowVars, workVars
<1>14. CASE DeliveryStep \/ UNCHANGED vars
  BY <1>14, WorkerRests DEF DeliveryStep, Reconcile, Effect, Project, AnswerLost, rowVars, workVars, vars
<1>15. CASE BackendDies \/ BackendTerminated
  BY <1>15 DEF BackendDies, BackendTerminated, WorkerInv, rowVars, workVars
<1>16. ASSUME NEW s \in Spots, PhoneMove(s) \/ Scan(s) PROVE WorkerInv'
  BY <1>16, WorkerRests DEF PhoneMove, Scan, rowVars, workVars
<1>q. QED
  BY <1>1, <1>2, <1>3, <1>4, <1>5, <1>6, <1>7, <1>8, <1>9, <1>10, <1>11, <1>12, <1>13, <1>14,
     <1>15, <1>16
  DEF Next, DrainStep, IngressStep, RetireStep

(* What Retirable reads. *)
LEMMA RetirableStays ==
  ASSUME UNCHANGED <<rowVars, retired, op>>
  PROVE  Retirable(op)' <=> Retirable(op)
BY DEF Retirable, ActiveRefs, Counts, ChatPending, rowVars

LEMMA RetireRests ==
  ASSUME RetireInv, UNCHANGED <<rowVars, retired, pc, op, asked>>
  PROVE  RetireInv'
<1>1. Retirable(op)' <=> Retirable(op)
  BY RetirableStays
<1>q. QED BY <1>1 DEF RetireInv

LEMMA RetireKept ==
  Types /\ RetireInv /\ [Next]_vars => RetireInv'
<1> SUFFICES ASSUME Types, RetireInv, [Next]_vars PROVE RetireInv'
  OBVIOUS
<1>1. CASE pc' \notin {"asking", "redact"}
  BY <1>1 DEF RetireInv
<1>2. CASE Start \/ Crash \/ EndIngress \/ CheckFails \/ Claim \/ NothingToSend \/ SendReaction
  BY <1>1, <1>2 DEF Start, Crash, EndIngress, CheckFails, Claim, NothingToSend, SendReaction, Onward
<1>3. CASE ReactReturns \/ ReactRejected \/ ReactFails
  BY <1>1, <1>3 DEF ReactReturns, ReactRejected, ReactFails, Outcome, Onward
<1>4. CASE EndPhase
  BY <1>1, <1>4 DEF EndPhase, Phases
<1>5. ASSUME NEW o \in Ops, Prepare(o) PROVE RetireInv'
  BY <1>1, <1>5 DEF Prepare, workVars
<1>6. ASSUME NEW o \in Ops, NEW s \in Spots, RecoverPart(o, s) \/ Pick(o, s) \/ Notice(o, s)
      PROVE  RetireInv'
  BY <1>1, <1>6 DEF RecoverPart, Pick, Notice, workVars
<1>7. CASE AskEnds \/ Redacted \/ RedactFails
  BY <1>1, <1>7 DEF AskEnds, Redacted, RedactFails
<1>8. ASSUME NEW a \in Applies, BeginRetire(a) PROVE RetireInv'
  <2>1. op' = a /\ UNCHANGED <<rowVars, retired>> /\ pc' = "asking" /\ asked' = {} /\ Retirable(a)
    BY <1>8 DEF BeginRetire, sideVars
  <2>2. Retirable(op)'
    BY <2>1 DEF Retirable, ActiveRefs, Counts, ChatPending, rowVars
  <2>q. QED BY <2>1, <2>2 DEF RetireInv
<1>9. ASSUME NEW a \in Applies, ResumeRetire(a) PROVE RetireInv'
  BY <1>9 DEF ResumeRetire, RetireInv, sideVars
<1>10. ASSUME NEW s \in Spots, AskAbsent(s) PROVE RetireInv'
  <2>1. op \in Applies /\ op' = op /\ asked' = asked \cup {s} /\ UNCHANGED rowVars
        /\ s \in Covers[op] /\ Retirable(op) /\ asked \subseteq Covers[op]
    BY <1>10 DEF AskAbsent, Asking, RetireInv
  <2>2. CASE pc' = "redact"
    BY <1>10, <2>1, <2>2 DEF AskAbsent, Asking, RetireInv, Types, RowTypes
  <2>3. CASE pc' = "asking"
    <3>1. UNCHANGED retired
      BY <1>10, <2>3 DEF AskAbsent
    <3>2. Retirable(op)'
      BY <2>1, <3>1, RetirableStays
    <3>3. \A t \in asked \cup {s}, u \in Covers[op] \ (asked \cup {s}) : Rank[t] <= Rank[u]
      BY <1>10 DEF AskAbsent, Asking, RetireInv
    <3>q. QED BY <2>1, <2>3, <3>2, <3>3 DEF RetireInv
  <2>q. QED BY <1>10, <2>2, <2>3 DEF AskAbsent, Asking
<1>11. CASE ThreadStep \/ DeliveryStep \/ BackendDies \/ BackendTerminated \/ UNCHANGED vars
  BY <1>11, RetireRests DEF ThreadStep, NativeReact, CallErrs, DeliveryStep, Reconcile, Effect, Project,
     AnswerLost, BackendDies, BackendTerminated, vars, sideVars, workVars
<1>12. ASSUME NEW s \in Spots, PhoneMove(s) \/ Scan(s) PROVE RetireInv'
  BY <1>12, RetireRests DEF PhoneMove, Scan, sideVars, workVars
<1>q. QED
  BY <1>2, <1>3, <1>4, <1>5, <1>6, <1>7, <1>8, <1>9, <1>10, <1>11, <1>12
  DEF Next, DrainStep, IngressStep, DispatchStep, RetireStep

(* A change recorded behind others does not touch the one being delivered. *)
LEMMA AppendKeepsHere ==
  ASSUME Types, changes # <<>>, NEW e \in Spots \X BOOLEAN, changes' = Append(changes, e)
  PROVE  changes' # <<>> /\ Here' = Here /\ Head(changes') = Head(changes)
<1>1. changes \in Seq(Spots \X BOOLEAN)
  BY DEF Types, ShowTypes
<1>2. Len(changes) # 0 /\ Len(changes) \in Nat
  BY <1>1, EmptySeq, LenProperties
<1>3. /\ Len(changes') = Len(changes) + 1 /\ changes'[1] = changes[1]
      /\ changes' \in Seq(Spots \X BOOLEAN)
  BY <1>1, <1>2, AppendProperties
<1>4. changes' # <<>>
  BY <1>2, <1>3, EmptySeq
<1>5. Head(changes') = changes'[1] /\ Head(changes) = changes[1]
  BY <1>1, <1>3, <1>4, HeadTailProperties
<1>q. QED BY <1>3, <1>4, <1>5 DEF Here

LEMMA PutDelivery ==
  ASSUME Types, DeliveryInv, NEW s \in Spots, NEW present \in BOOLEAN, Put(s, present),
         UNCHANGED <<bound, dpc>>
  PROVE  DeliveryInv'
<1>1. CASE changes' = changes
  BY <1>1 DEF DeliveryInv, Here
<1>2. CASE changes' = Append(changes, <<s, present>>)
  BY <1>2, AppendKeepsHere DEF DeliveryInv
<1>q. QED BY <1>1, <1>2, PutTypes

LEMMA DeliveryKept ==
  Types /\ WorkerInv /\ DeliveryInv /\ [Next]_vars => DeliveryInv'
<1> SUFFICES ASSUME Types, WorkerInv, DeliveryInv, [Next]_vars PROVE DeliveryInv'
  OBVIOUS
<1>1. CASE UNCHANGED showVars
  BY <1>1 DEF DeliveryInv, Here, showVars
<1>2. CASE NativeReact
  <2>1. callOf[2] \in Spots
    BY <1>2, CallTypes DEF NativeReact
  <2>2. Put(callOf[2], callOf[1] \in Applies) /\ (callOf[1] \in Applies) \in BOOLEAN
        /\ UNCHANGED <<bound, dpc>>
    BY <1>2 DEF NativeReact
  <2>q. QED BY <2>1, <2>2, PutDelivery
<1>3. ASSUME NEW s \in Spots, PhoneMove(s) PROVE DeliveryInv'
  <2>1. Put(s, s \notin native) /\ (s \notin native) \in BOOLEAN /\ UNCHANGED <<bound, dpc>>
    BY <1>3 DEF PhoneMove
  <2>q. QED BY <2>1, PutDelivery
<1>4. ASSUME NEW s \in Spots, Scan(s) PROVE DeliveryInv'
  <2> DEFINE e == <<s, s \in native>>
  <2>1. \A present \in BOOLEAN : <<s, present>> \in Spots \X BOOLEAN
    OBVIOUS
  <2>2. (s \in native) \in BOOLEAN
    OBVIOUS
  <2>3. changes' = Append(changes, e) /\ UNCHANGED <<bound, dpc>>
    BY <1>4 DEF Scan
  <2> HIDE DEF e
  <2>4. e \in Spots \X BOOLEAN
    BY <2>1, <2>2, Zenon DEF e
  <2>q. QED BY <2>3, <2>4, AppendKeepsHere DEF DeliveryInv
<1>5. CASE Crash
  BY <1>5 DEF Crash, DeliveryInv
<1>6. CASE DeliveryStep
  BY <1>6 DEF DeliveryStep, Reconcile, Effect, Project, AnswerLost, Delivered, Decision, DeliveryInv, Here
<1>7. CASE UNCHANGED vars
  BY <1>1, <1>7 DEF vars
<1>q. QED BY <1>1, <1>2, <1>3, <1>4, <1>5, <1>6, <1>7, QuietSteps

-----------------------------------------------------------------------------
(* Parts that are settled.                                                 *)

Final == {"SENT", "REJECTED"}

LEMMA PartKeepsFinal ==
  ASSUME Types, NEW o \in Ops, NEW s \in Spots, NEW x, state[o][s] \notin Final,
         state' = [state EXCEPT ![o][s] = x],
         NEW p \in Ops, NEW t \in Spots, state[p][t] \in Final
  PROVE  state'[p][t] = state[p][t]
BY DEF Types, RowTypes, Final

LEMMA FinalStep ==
  ASSUME Types, Numbered, WorkerInv, [Next]_vars,
         NEW p \in Ops, NEW t \in Spots, state[p][t] \in Final
  PROVE  state'[p][t] = state[p][t]
<1>1. CASE UNCHANGED state
  BY <1>1
<1>2. CASE Start
  BY <1>2 DEF Start, Final
<1>3. ASSUME NEW o \in Ops, Prepare(o) PROVE state'[p][t] = state[p][t]
  <2>1. p # o
    BY <1>3 DEF Prepare, Numbered, Final
  <2>q. QED BY <1>3, <2>1 DEF Prepare, Types, RowTypes
<1>4. ASSUME NEW o \in Ops, NEW s \in Spots, RecoverPart(o, s) PROVE state'[p][t] = state[p][t]
  BY <1>4, PartKeepsFinal DEF RecoverPart, Unknown, Final
<1>5. CASE Claim
  BY <1>5, PartKeepsFinal DEF Claim, NextPart, Candidate, WorkerInv, Final
<1>6. ASSUME NothingToSend \/ ReactReturns \/ ReactRejected \/ ReactFails
      PROVE  state'[p][t] = state[p][t]
  <2>1. op \in Ops /\ spot \in Spots /\ state[op][spot] \notin Final
    BY <1>6 DEF NothingToSend, ReactReturns, ReactRejected, ReactFails, Outcome, WorkerInv, Final
  <2>2. PICK x : state' = [state EXCEPT ![op][spot] = x]
    BY <1>6 DEF NothingToSend, ReactReturns, ReactRejected, ReactFails, Outcome
  <2>q. QED BY <2>1, <2>2, PartKeepsFinal
<1>7. ASSUME NEW o \in Ops, NEW s \in Spots, Notice(o, s) \/ Pick(o, s)
      PROVE  state'[p][t] = state[p][t]
  BY <1>7 DEF Notice, Pick, rowVars
<1>8. ASSUME NEW s \in Spots, AskAbsent(s) \/ PhoneMove(s) \/ Scan(s)
      PROVE  state'[p][t] = state[p][t]
  BY <1>8 DEF AskAbsent, PhoneMove, Scan, rowVars
<1>9. CASE Crash \/ EndPhase \/ EndIngress \/ CheckFails \/ SendReaction
  BY <1>9 DEF Crash, EndPhase, EndIngress, CheckFails, SendReaction, rowVars
<1>10. CASE AskEnds \/ Redacted \/ RedactFails
  BY <1>10 DEF AskEnds, Redacted, RedactFails, rowVars
<1>11. ASSUME NEW a \in Applies, BeginRetire(a) \/ ResumeRetire(a) PROVE state'[p][t] = state[p][t]
  BY <1>11 DEF BeginRetire, ResumeRetire, rowVars
<1>12. CASE ThreadStep \/ DeliveryStep \/ BackendDies \/ BackendTerminated \/ UNCHANGED vars
  BY <1>12 DEF ThreadStep, NativeReact, CallErrs, DeliveryStep, Reconcile, Effect, Project, AnswerLost,
     BackendDies, BackendTerminated, rowVars, vars
<1>q. QED
  BY <1>2, <1>3, <1>4, <1>5, <1>6, <1>7, <1>8, <1>9, <1>10, <1>11, <1>12
  DEF Next, DrainStep, IngressStep, DispatchStep, RetireStep

(* The journal of the retirements changes in two steps only. *)
LEMMA RetiredStep ==
  ASSUME [Next]_vars, retired' # retired
  PROVE  Redacted \/ \E s \in Spots : AskAbsent(s)
<1>1. SUFFICES ASSUME ~Redacted, \A s \in Spots : ~AskAbsent(s) PROVE retired' = retired
  BY Zenon
<1>2. CASE Start \/ Crash \/ EndPhase \/ EndIngress \/ CheckFails \/ Claim \/ NothingToSend
  BY <1>2 DEF Start, Crash, EndPhase, EndIngress, CheckFails, Claim, NothingToSend, sideVars
<1>3. CASE SendReaction \/ ReactReturns \/ ReactRejected \/ ReactFails \/ AskEnds \/ RedactFails
  BY <1>3 DEF SendReaction, ReactReturns, ReactRejected, ReactFails, Outcome, AskEnds,
     RedactFails, sideVars
<1>4. ASSUME NEW o \in Ops, Prepare(o) PROVE retired' = retired
  BY <1>4 DEF Prepare, sideVars
<1>5. ASSUME NEW o \in Ops, NEW s \in Spots, RecoverPart(o, s) \/ Pick(o, s) \/ Notice(o, s)
      PROVE  retired' = retired
  BY <1>5 DEF RecoverPart, Pick, Notice, sideVars
<1>6. ASSUME NEW a \in Applies, BeginRetire(a) \/ ResumeRetire(a) PROVE retired' = retired
  BY <1>6 DEF BeginRetire, ResumeRetire, sideVars
<1>7. CASE ThreadStep \/ DeliveryStep \/ BackendDies \/ BackendTerminated \/ UNCHANGED vars
  BY <1>7 DEF ThreadStep, NativeReact, CallErrs, DeliveryStep, Reconcile, Effect, Project, AnswerLost,
     BackendDies, BackendTerminated, vars, sideVars
<1>8. ASSUME NEW s \in Spots, PhoneMove(s) \/ Scan(s) PROVE retired' = retired
  BY <1>8 DEF PhoneMove, Scan, sideVars
<1>q. QED
  BY <1>1, <1>2, <1>3, <1>4, <1>5, <1>6, <1>7, <1>8
  DEF Next, DrainStep, IngressStep, DispatchStep, RetireStep

LEMMA RetiredSentKept ==
  Base /\ [Next]_vars => RetiredSent'
<1> SUFFICES ASSUME Base, [Next]_vars,
                    NEW a \in Applies, retired'[a] # "no", NEW s \in Covers[a]
             PROVE  state'[a][s] = "SENT"
  BY DEF RetiredSent
<1>1. a \in Ops /\ s \in Spots
  BY ReactionAssumption DEF Ops
<1>2. state[a][s] = "SENT"
  <2>1. CASE retired[a] # "no"
    BY <2>1 DEF Base, RetiredSent
  <2>2. CASE Redacted
    BY <2>2 DEF Redacted, Finished, Base, RetireInv, RetiredSent, Types, RowTypes
  <2>3. ASSUME NEW t \in Spots, AskAbsent(t), retired[a] = "no" PROVE state[a][s] = "SENT"
    <3>1. retired' = [retired EXCEPT ![op] = "planned"] /\ a = op /\ Retirable(op)
      BY <2>3 DEF AskAbsent, Base, Types, RowTypes
    <3>q. QED BY <3>1 DEF Retirable
  <2>q. QED BY <2>1, <2>2, <2>3, RetiredStep
<1>q. QED BY <1>1, <1>2, FinalStep DEF Base, Final

-----------------------------------------------------------------------------

LEMMA BaseInit == Init => Base
<1> SUFFICES ASSUME Init PROVE Base
  OBVIOUS
<1>1. Types
  <2>1. changes \in Seq(Spots \X BOOLEAN)
    BY DEF Init
  <2>2. RowTypes /\ WorkTypes
    BY ReactionAssumption DEF Init, RowTypes, WorkTypes, PartState
  <2>3. ThreemaTypes
    BY ReactionAssumption DEF Init, ThreemaTypes
  <2>4. ShowTypes
    BY <2>1 DEF Init, ShowTypes
  <2>q. QED BY <2>2, <2>3, <2>4 DEF Types
<1>2. Numbered /\ Ordered
  BY ReactionAssumption DEF Init, Numbered, Ordered, Ops, Before
<1>3. WorkerInv /\ RetireInv /\ RetiredSent /\ DeliveryInv
  BY DEF Init, WorkerInv, RetireInv, RetiredSent, DeliveryInv
<1>q. QED BY <1>1, <1>2, <1>3 DEF Base

LEMMA BaseNext == Base /\ [Next]_vars => Base'
<1> SUFFICES ASSUME Base, [Next]_vars PROVE Base'
  OBVIOUS
<1>1. Types'
  BY RowTypesKept, WorkTypesKept, ShowTypesKept DEF Base, Types
<1>2. Numbered' /\ Ordered'
  BY RowsKept DEF Base
<1>3. WorkerInv' /\ RetireInv' /\ DeliveryInv'
  BY WorkerKept, RetireKept, DeliveryKept DEF Base
<1>4. RetiredSent'
  BY RetiredSentKept
<1>q. QED BY <1>1, <1>2, <1>3, <1>4 DEF Base

(* The types, the numbering of the rows and the order of their attempts. *)
THEOREM BaseInvariant == Spec => []Base
BY BaseInit, BaseNext, PTL DEF Spec

(* Every variable keeps the type its table or field has.                    *)
THEOREM TypesAlways == Spec => []ReactionTypeOK
<1>1. Base => ReactionTypeOK
  BY TypesAreTypeOK DEF Base
<1>q. QED BY <1>1, BaseInvariant, PTL

-----------------------------------------------------------------------------
(* What stands for an emoji, and what Threema bears.                       *)

(* The reactions that stand change with a part that was sent. *)
Alters(o, s) == IF o \in Applies THEN Standing(s) = {} ELSE Standing(s) = {TargetOf[o]}
Plain(s) == s \in native <=> Standing(s) # {}
Effected(o, s) == Alters(o, s) /\ (s \in native <=> o \in Applies)

RefAt(s) ==
  /\ \A a \in Applies : s \in Covers[a] => retired[a] = "no"
  /\ pc = "asking" => s \notin asked
  /\ Plain(s) \/ \E o \in Ops : state[o][s] \in Under /\ Effected(o, s)
  /\ pc = "claimed" /\ spot = s => Plain(s)
  /\ call # "idle" /\ callOf[2] = s => Alters(callOf[1], s)
  /\ call \in {"requested", "rejected"} /\ callOf[2] = s => Plain(s)
  /\ call = "done" /\ callOf[2] = s => Effected(callOf[1], s)
RefInv == \A s \in Spots \ touched : RefAt(s)

(* Two parts of a chat are never under way at once, nor is one behind a    *)
(* part that is next.                                                      *)
LEMMA OneUnder ==
  ASSUME Base, NEW o \in Ops, NEW p \in Ops, NEW s \in Spots, NEW t \in Spots,
         state[o][s] \in Under, ChatOf[p] = ChatOf[o],
         state[p][t] \in Under \/ Candidate(p, t)
  PROVE  p = o /\ t = s
<1>1. state[o][s] \notin Settled /\ state[p][t] \notin Settled
  BY DEF Under, Settled, Candidate
<1>2. seq[o] # 0 /\ seq[p] # 0 /\ s \in Covers[o] /\ t \in Covers[p] /\ seq[o] \in Nat /\ seq[p] \in Nat
  BY DEF Base, Numbered, Under, Types, RowTypes, Candidate
<1>3. ~Before(p, t, o, s)
  BY <1>1 DEF Base, Ordered, Under
<1>4. ~Before(o, s, p, t)
  BY <1>1 DEF Base, Ordered, Under, Candidate
<1>5. seq[o] = seq[p]
  BY <1>2, <1>3, <1>4 DEF Before
<1>6. o = p
  BY <1>2, <1>5 DEF Base, Numbered
<1>7. Rank[s] = Rank[t]
  <2>1. Rank[s] \in Nat /\ Rank[t] \in Nat
    BY ReactionAssumption
  <2>q. QED BY <1>2, <1>3, <1>4, <1>6, <2>1 DEF Before
<1>q. QED BY <1>6, <1>7, ReactionAssumption

(* The parts of one spot belong to one chat. *)
LEMMA SpotChat ==
  ASSUME Base, NEW o \in Ops, NEW p \in Ops, NEW s \in Spots,
         state[o][s] # "absent", s \in Covers[p] \/ state[p][s] # "absent"
  PROVE  s \in Covers[o] /\ ChatOf[p] = ChatOf[o]
<1>1. s \in Covers[o] /\ s \in Covers[p]
  BY DEF Base, Numbered
<1>q. QED BY <1>1, ReactionAssumption

LEMMA StandingSame ==
  ASSUME retired' = retired, NEW s \in Spots,
         \A o \in Ops : state'[o][s] = "SENT" <=> state[o][s] = "SENT"
  PROVE  Standing(s)' = Standing(s)
BY DEF Standing, Ops

(* A withdrawal is behind its reaction, which is never under way then. *)
LEMMA WithdrawnLater ==
  ASSUME Base, NEW w \in Withdraws, NEW s \in Spots, state[w][s] \notin {"absent", "PREPARED"}
  PROVE  state[TargetOf[w]][s] \in Final
<1>1. w \in Ops /\ TargetOf[w] \in Ops /\ ChatOf[w] = ChatOf[TargetOf[w]]
      /\ Covers[w] = Covers[TargetOf[w]]
  BY ReactionAssumption DEF Ops
<1>2. seq[w] # 0 /\ s \in Covers[w]
  BY <1>1 DEF Base, Numbered
<1>3. seq[TargetOf[w]] # 0 /\ seq[TargetOf[w]] < seq[w]
  BY <1>2 DEF Base, Numbered
<1>4. Before(TargetOf[w], s, w, s)
  BY <1>1, <1>3 DEF Before
<1>5. state[TargetOf[w]][s] \in Settled
  BY <1>1, <1>4 DEF Base, Ordered
<1>6. state[TargetOf[w]][s] # "absent"
  BY <1>1, <1>2, <1>3 DEF Base, Numbered
<1>q. QED BY <1>5, <1>6 DEF Settled, Final

LEMMA StandingSent ==
  ASSUME Base, NEW o \in Ops, NEW s \in Spots, state[o][s] \in Under,
         state' = [state EXCEPT ![o][s] = "SENT"], retired' = retired
  PROVE  /\ \A t \in Spots \ {s} : Standing(t)' = Standing(t)
         /\ o \in Applies => Standing(s)' = Standing(s) \cup {o}
         /\ o \in Withdraws => Standing(s)' = Standing(s) \ {TargetOf[o]}
<1>1. \A p \in Ops, t \in Spots :
        state'[p][t] = IF p = o /\ t = s THEN "SENT" ELSE state[p][t]
  BY DEF Base, Types, RowTypes
<1>2. ASSUME NEW t \in Spots \ {s} PROVE Standing(t)' = Standing(t)
  BY <1>1, StandingSame
<1>3. CASE o \in Applies
  <2>1. o \notin Withdraws
    BY <1>3, ReactionAssumption
  <2>2. retired[o] = "no"
    <3>1. s \in Covers[o]
      BY DEF Base, Numbered, Under
    <3>q. QED BY <1>3, <3>1 DEF Base, RetiredSent, Under
  <2>3. \A w \in Withdraws : TargetOf[w] = o => state[w][s] # "SENT"
    BY WithdrawnLater DEF Final, Under
  <2>4. \A w \in Withdraws : state'[w][s] = state[w][s]
    BY <1>1, <2>1 DEF Ops
  <2>5. \A a \in Applies : a # o => state'[a][s] = state[a][s]
    BY <1>1 DEF Ops
  <2>6. state'[o][s] = "SENT"
    BY <1>1
  <2>q. QED BY <1>2, <1>3, <2>1, <2>2, <2>3, <2>4, <2>5, <2>6 DEF Standing
<1>4. CASE o \in Withdraws
  <2>1. o \notin Applies
    BY <1>4, ReactionAssumption
  <2>2. \A a \in Applies : state'[a][s] = state[a][s]
    BY <1>1, <2>1 DEF Ops
  <2>3. \A w \in Withdraws : w # o => state'[w][s] = state[w][s]
    BY <1>1 DEF Ops
  <2>4. state'[o][s] = "SENT" /\ state[o][s] # "SENT"
    BY <1>1 DEF Under
  <2>q. QED BY <1>2, <1>4, <2>1, <2>2, <2>3, <2>4 DEF Standing
<1>q. QED BY <1>2, <1>3, <1>4 DEF Ops

(* The replay of the outbox up to the part that is under way finds what    *)
(* stands.                                                                 *)
LEMMA ReplayFinds ==
  ASSUME Base, NEW o \in Ops, NEW s \in Spots, state[o][s] \in Under
  PROVE  /\ ActiveAt(s, seq[o] - 1) = Standing(s)
         /\ o \in Applies => ActiveAt(s, seq[o]) = Standing(s) \cup {o}
         /\ o \in Withdraws => ActiveAt(s, seq[o]) = Standing(s) \ {TargetOf[o]}
<1>0. seq[o] # 0 /\ s \in Covers[o] /\ \A p \in Ops : seq[p] \in Nat
  BY DEF Base, Numbered, Types, RowTypes, Under
<1>1. ASSUME NEW p \in Ops, p # o
      PROVE  /\ Counts(p, s) /\ seq[p] <= seq[o] - 1 <=> state[p][s] = "SENT"
             /\ Counts(p, s) /\ seq[p] <= seq[o] <=> state[p][s] = "SENT"
  <2>1. seq[p] # seq[o]
    BY <1>0, <1>1 DEF Base, Numbered
  <2>2. CASE state[p][s] = "absent"
    BY <2>2 DEF Base, Numbered, Counts
  <2>3. CASE state[p][s] # "absent"
    <3>1. s \in Covers[p] /\ ChatOf[p] = ChatOf[o] /\ seq[p] # 0
      BY <1>0, <2>3, SpotChat DEF Base, Numbered
    <3>2. CASE seq[p] < seq[o]
      <4>1. state[p][s] \in Settled
        BY <3>1, <3>2 DEF Base, Ordered, Before, Under
      <4>q. QED BY <1>0, <2>3, <3>1, <3>2, <4>1 DEF Counts, Settled
    <3>3. CASE seq[o] < seq[p]
      <4>1. state[p][s] # "SENT"
        BY <1>0, <3>1, <3>3 DEF Base, Ordered, Before, Under, Settled
      <4>q. QED BY <1>0, <3>3, <4>1
    <3>q. QED BY <1>0, <2>1, <3>2, <3>3
  <2>q. QED BY <2>2, <2>3
<1>2. state[o][s] # "SENT" /\ Counts(o, s) /\ ~(seq[o] <= seq[o] - 1) /\ seq[o] <= seq[o]
  BY <1>0 DEF Counts, Under
<1>3. ASSUME NEW w \in Withdraws, state[w][s] = "SENT" PROVE seq[TargetOf[w]] < seq[w]
  <2>1. w \in Ops /\ TargetOf[w] \in Ops
    BY ReactionAssumption DEF Ops
  <2>2. seq[w] # 0
    BY <1>3, <2>1 DEF Base, Numbered
  <2>q. QED BY <2>2 DEF Base, Numbered
<1>4. Applies \subseteq Ops /\ Withdraws \subseteq Ops /\ Applies \cap Withdraws = {}
  BY ReactionAssumption DEF Ops
<1>5. ActiveAt(s, seq[o] - 1) = Standing(s)
  <2>1. \A p \in Ops : Counts(p, s) /\ seq[p] <= seq[o] - 1 <=> state[p][s] = "SENT"
    BY <1>1, <1>2
  <2>q. QED BY <1>3, <1>4, <2>1 DEF ActiveAt, Standing
<1>6. ASSUME o \in Applies PROVE ActiveAt(s, seq[o]) = Standing(s) \cup {o}
  <2>1. \A p \in Ops : p # o => (Counts(p, s) /\ seq[p] <= seq[o] <=> state[p][s] = "SENT")
    BY <1>1
  <2>2. o \notin Withdraws /\ retired[o] = "no"
    BY <1>0, <1>4, <1>6 DEF Base, RetiredSent, Under
  <2>3. \A w \in Withdraws : TargetOf[w] = o => ~(seq[o] < seq[w] /\ seq[w] <= seq[o])
    BY <1>0, <1>4
  <2>4. \A w \in Withdraws : TargetOf[w] = o => state[w][s] # "SENT"
    BY WithdrawnLater DEF Final, Under
  <2>q. QED BY <1>2, <1>3, <1>4, <1>6, <2>1, <2>2, <2>3, <2>4 DEF ActiveAt, Standing
<1>7. ASSUME o \in Withdraws PROVE ActiveAt(s, seq[o]) = Standing(s) \ {TargetOf[o]}
  <2>1. \A p \in Ops : p # o => (Counts(p, s) /\ seq[p] <= seq[o] <=> state[p][s] = "SENT")
    BY <1>1
  <2>2. o \notin Applies /\ seq[TargetOf[o]] < seq[o]
    BY <1>0, <1>4, <1>7 DEF Base, Numbered
  <2>q. QED BY <1>2, <1>3, <1>4, <1>7, <2>1, <2>2 DEF ActiveAt, Standing
<1>q. QED BY <1>5, <1>6, <1>7

(* So Threema is asked exactly when what stands begins or ends with it. *)
LEMMA RemoteAlters ==
  ASSUME Base, NEW o \in Ops, NEW s \in Spots, state[o][s] \in Under
  PROVE  NeedsRemote(o, s) <=> Alters(o, s)
<1>1. o \in Applies \/ (o \in Withdraws /\ o \notin Applies)
  BY DEF Ops
<1>2. CASE o \in Applies
  BY <1>2, ReplayFinds DEF NeedsRemote, Alters
<1>3. CASE o \in Withdraws /\ o \notin Applies
  BY <1>3, ReplayFinds DEF NeedsRemote, Alters
<1>q. QED BY <1>1, <1>2, <1>3

LEMMA RefRest ==
  ASSUME NEW s \in Spots, RefAt(s), retired' = retired, Standing(s)' = Standing(s),
         \A o \in Ops : state[o][s] \in Under => state'[o][s] \in Under,
         s \in native' <=> s \in native,
         pc' = "asking" => asked' = {} \/ (pc = "asking" /\ asked' = asked),
         pc' = "claimed" /\ spot' = s => pc = "claimed" /\ spot = s,
         call' # "idle" => call' = call /\ callOf' = callOf
  PROVE  RefAt(s)'
<1>1. Plain(s)' <=> Plain(s)
  BY DEF Plain
<1>2. \A o \in Ops : Alters(o, s)' <=> Alters(o, s)
  BY DEF Alters
<1>3. \A o \in Ops : Effected(o, s)' <=> Effected(o, s)
  BY <1>2 DEF Effected
<1>4. call' # "idle" /\ callOf'[2] = s => Alters(callOf[1], s)'
  BY DEF RefAt, Alters
<1>5. call' = "done" /\ callOf'[2] = s => Effected(callOf[1], s)'
  BY <1>4 DEF RefAt, Effected
<1>q. QED BY <1>1, <1>3, <1>4, <1>5 DEF RefAt

LEMMA RefRestRows ==
  ASSUME NEW s \in Spots, RefAt(s), UNCHANGED <<state, retired>>,
         s \in native' <=> s \in native,
         pc' = "asking" => asked' = {} \/ (pc = "asking" /\ asked' = asked),
         pc' = "claimed" /\ spot' = s => pc = "claimed" /\ spot = s,
         call' # "idle" => call' = call /\ callOf' = callOf
  PROVE  RefAt(s)'
<1>1. Standing(s)' = Standing(s)
  BY DEF Standing
<1>q. QED BY <1>1, RefRest

(* Steps that leave what stands, what Threema bears and the call alone. *)
LEMMA RefQuietSteps ==
  ASSUME Base, [Next]_vars, NEW s \in Spots, RefAt(s), s \notin touched',
         ~Claim, ~NothingToSend, ~SendReaction, ~ReactReturns, ~ReactRejected,
         \A o \in Ops, t \in Spots : ~RecoverPart(o, t),
         \A t \in Spots : ~AskAbsent(t), ~Redacted, ~ThreadStep
  PROVE  RefAt(s)'
<1>0. state \in [Ops -> [Spots -> PartState]]
  BY DEF Base, Types, RowTypes
<1>1. CASE Start
  <2>1. call' = "idle" /\ pc' = "ingress" /\ UNCHANGED <<retired, native>>
    BY <1>1 DEF Start, Base, WorkerInv, sideVars, phoneVars
  <2>2. \A o \in Ops :
          state'[o][s] = IF state[o][s] = "DISPATCHING" THEN "OUTCOME_UNKNOWN" ELSE state[o][s]
    BY <1>1 DEF Start
  <2>3. Standing(s)' = Standing(s)
    BY <2>1, <2>2, StandingSame
  <2>q. QED BY <2>1, <2>2, <2>3, RefRest DEF Under
<1>2. CASE Crash
  BY <1>2, RefRestRows DEF Crash, rowVars, sideVars, phoneVars
<1>3. CASE EndPhase
  <2>1. pc' \in {"ingress", "recover", "dispatch", "notices", "retire"}
    BY <1>3 DEF EndPhase, Phases
  <2>q. QED BY <1>3, <2>1, RefRestRows DEF EndPhase, rowVars, sideVars, threadVars, phoneVars
<1>4. ASSUME NEW o \in Ops, Prepare(o) PROVE RefAt(s)'
  <2>1. UNCHANGED <<retired, pc, spot, asked, call, callOf, native>> /\ seq[o] = 0
    BY <1>4 DEF Prepare, sideVars, workVars, threadVars, phoneVars
  <2>2. \A p \in Ops : p # o => state'[p][s] = state[p][s]
    BY <1>0, <1>4 DEF Prepare
  <2>3. state[o][s] = "absent" /\ state'[o][s] \in {"absent", "PREPARED"}
    BY <1>0, <1>4 DEF Prepare, Base, Numbered
  <2>4. Standing(s)' = Standing(s)
    BY <2>1, <2>2, <2>3, StandingSame
  <2>q. QED BY <2>1, <2>2, <2>3, <2>4, RefRest DEF Under
<1>5. CASE EndIngress
  BY <1>5, RefRestRows DEF EndIngress, sideVars, threadVars, phoneVars
<1>6. ASSUME NEW o \in Ops, NEW t \in Spots, Pick(o, t) \/ Notice(o, t) PROVE RefAt(s)'
  BY <1>6, RefRestRows DEF Pick, Notice, rowVars, sideVars, workVars, threadVars, phoneVars
<1>7. CASE CheckFails \/ AskEnds \/ RedactFails
  BY <1>7, RefRestRows DEF CheckFails, AskEnds, RedactFails, Onward, rowVars, sideVars,
     threadVars, phoneVars
<1>8. CASE ReactFails
  <2>1. /\ op \in Ops /\ spot \in Spots /\ state' = [state EXCEPT ![op][spot] = "OUTCOME_UNKNOWN"]
        /\ state[op][spot] = "DISPATCHING"
        /\ UNCHANGED <<retired, native>> /\ pc' = "dispatch"
        /\ call' # "idle" => call' = call /\ callOf' = callOf
    BY <1>8 DEF ReactFails, Outcome, Onward, Base, WorkerInv, sideVars, threadVars, phoneVars
  <2>2. \A o \in Ops : state'[o][s] = IF o = op /\ s = spot THEN "OUTCOME_UNKNOWN" ELSE state[o][s]
    BY <1>0, <2>1
  <2>3. Standing(s)' = Standing(s)
    BY <2>1, <2>2, StandingSame
  <2>q. QED BY <2>1, <2>2, <2>3, RefRest DEF Under
<1>9. ASSUME NEW a \in Applies, BeginRetire(a) \/ ResumeRetire(a) PROVE RefAt(s)'
  BY <1>9, RefRestRows DEF BeginRetire, ResumeRetire, rowVars, sideVars, threadVars, phoneVars
<1>10. CASE DeliveryStep \/ UNCHANGED vars
  BY <1>10, RefRestRows DEF DeliveryStep, Reconcile, Effect, Project, AnswerLost, vars, rowVars, sideVars,
     workVars, threadVars, phoneVars
<1>11. CASE BackendDies \/ BackendTerminated
  BY <1>11, RefRestRows DEF BackendDies, BackendTerminated, rowVars, sideVars, workVars, phoneVars
<1>12. ASSUME NEW t \in Spots, Scan(t) PROVE RefAt(s)'
  BY <1>12, RefRestRows DEF Scan, rowVars, sideVars, workVars, threadVars, phoneVars
<1>13. ASSUME NEW t \in Spots, PhoneMove(t) PROVE RefAt(s)'
  <2>1. t # s
    BY <1>13 DEF PhoneMove
  <2>2. s \in native' <=> s \in native
    BY <1>13, <2>1 DEF PhoneMove, Put
  <2>q. QED BY <1>13, <2>2, RefRestRows DEF PhoneMove, rowVars, sideVars, workVars, threadVars
<1>q. QED
  BY <1>1, <1>2, <1>3, <1>4, <1>5, <1>6, <1>7, <1>8, <1>9, <1>10, <1>11, <1>12, <1>13
  DEF Next, DrainStep, IngressStep, DispatchStep, RetireStep

(* Nothing is under way at a spot whose next part is chosen. *)
LEMMA RefClaim ==
  ASSUME Base, NEW s \in Spots, RefAt(s), Claim
  PROVE  RefAt(s)'
<1>1. /\ op \in Ops /\ spot \in Spots /\ state' = [state EXCEPT ![op][spot] = "DISPATCHING"]
      /\ Candidate(op, spot) /\ pc = "check" /\ pc' = "claimed"
      /\ UNCHANGED <<spot, retired, native, call, callOf>>
  BY DEF Claim, NextPart, Base, WorkerInv, sideVars, threadVars, phoneVars
<1>2. \A o \in Ops : state'[o][s] = IF o = op /\ s = spot THEN "DISPATCHING" ELSE state[o][s]
  BY <1>1 DEF Base, Types, RowTypes
<1>3. state[op][spot] = "PREPARED"
  BY <1>1 DEF Candidate
<1>4. Standing(s)' = Standing(s)
  BY <1>1, <1>2, <1>3, StandingSame
<1>5. CASE spot # s
  BY <1>1, <1>2, <1>4, <1>5, RefRest DEF Under
<1>6. CASE spot = s
  <2>1. ASSUME NEW o \in Ops, state[o][s] \in Under PROVE FALSE
    <3>1. ChatOf[op] = ChatOf[o]
      BY <1>1, <1>3, <1>6, <2>1, SpotChat DEF Under
    <3>2. op = o
      BY <1>1, <1>6, <2>1, <3>1, OneUnder
    <3>q. QED BY <1>3, <1>6, <2>1, <3>2 DEF Under
  <2>2. Plain(s)
    BY <2>1 DEF RefAt
  <2>3. call # "idle" => callOf[2] # s
    <3>1. call # "idle" => state[callOf[1]][callOf[2]] = "OUTCOME_UNKNOWN" /\ callOf[1] \in Ops
      BY <1>1, CallTypes DEF Base, WorkerInv
    <3>q. QED BY <2>1, <3>1 DEF Under
  <2>4. Plain(s)'
    BY <1>1, <1>4, <2>2 DEF Plain
  <2>q. QED BY <1>1, <2>3, <2>4 DEF RefAt
<1>q. QED BY <1>5, <1>6

(* A part that is sent makes Threema and what stands agree. *)
LEMMA RefSent ==
  ASSUME Base, NEW s \in Spots, RefAt(s), NEW o \in Ops, NEW t \in Spots, state[o][t] \in Under,
         state' = [state EXCEPT ![o][t] = "SENT"], UNCHANGED <<retired, native>>,
         pc' \notin {"asking", "claimed"},
         call' # "idle" => call' = call /\ callOf' = callOf /\ callOf # <<o, t>>,
         t = s => (Plain(s) /\ ~Alters(o, s)) \/ (s \in native <=> o \in Applies)
  PROVE  RefAt(s)'
<1>0. \A p \in Ops : state'[p][s] = IF p = o /\ t = s THEN "SENT" ELSE state[p][s]
  BY DEF Base, Types, RowTypes
<1>1. CASE t # s
  <2>1. Standing(s)' = Standing(s)
    BY <1>1, StandingSent
  <2>q. QED BY <1>0, <1>1, <2>1, RefRest
<1>2. CASE t = s
  <2>1. \A p \in Ops : state[p][s] \in Under => p = o
    BY <1>2, OneUnder, SpotChat DEF Under
  <2>2. call' # "idle" => callOf'[2] # s
    <3>1. call' # "idle" => /\ callOf[1] \in Ops /\ callOf[2] \in Spots
                            /\ callOf = <<callOf[1], callOf[2]>>
                            /\ state[callOf[1]][callOf[2]] \in Under
      BY CallTypes DEF Base, WorkerInv, Under
    <3>q. QED BY <1>2, <2>1, <3>1
  <2>3. Plain(s) \/ Effected(o, s)
    BY <2>1 DEF RefAt
  <2>4. Plain(s)'
    <3>1. CASE o \in Applies
      <4>1. Standing(s)' = Standing(s) \cup {o}
        BY <1>2, <3>1, StandingSent
      <4>q. QED BY <1>2, <2>3, <3>1, <4>1 DEF Plain, Effected, Alters
    <3>2. CASE o \notin Applies
      <4>1. Standing(s)' = Standing(s) \ {TargetOf[o]} /\ o \in Withdraws
        BY <1>2, <3>2, StandingSent DEF Ops
      <4>q. QED BY <1>2, <2>3, <3>2, <4>1 DEF Plain, Effected, Alters
    <3>q. QED BY <3>1, <3>2
  <2>q. QED BY <2>2, <2>4 DEF RefAt
<1>q. QED BY <1>1, <1>2

LEMMA RefSentSteps ==
  ASSUME Base, NEW s \in Spots, RefAt(s),
         \/ NothingToSend \/ ReactReturns
         \/ \E o \in Ops, t \in Spots : RecoverPart(o, t)
  PROVE  RefAt(s)'
<1>1. ASSUME NEW o \in Ops, NEW t \in Spots, RecoverPart(o, t) PROVE RefAt(s)'
  <2>1. /\ state[o][t] \in Under /\ state' = [state EXCEPT ![o][t] = "SENT"]
        /\ UNCHANGED <<retired, native>> /\ pc' = "recover"
        /\ t = s => (s \in native <=> o \in Applies)
        /\ call' = "idle"
    BY <1>1 DEF RecoverPart, Unknown, Wanted, Under, Base, WorkerInv, sideVars, workVars,
       threadVars, phoneVars
  <2>q. QED BY <2>1, RefSent
<1>2. CASE NothingToSend
  <2>1. /\ op \in Ops /\ spot \in Spots /\ state[op][spot] \in Under
        /\ state' = [state EXCEPT ![op][spot] = "SENT"] /\ pc' = "dispatch"
        /\ UNCHANGED <<retired, native, call, callOf>> /\ state[op][spot] = "DISPATCHING"
        /\ pc = "claimed"
    BY <1>2 DEF NothingToSend, Onward, Under, Base, WorkerInv, sideVars, threadVars, phoneVars
  <2>2. call # "idle" => callOf # <<op, spot>>
    BY <2>1 DEF Base, WorkerInv
  <2>3. ~Alters(op, spot)
    BY <1>2, <2>1, RemoteAlters DEF NothingToSend
  <2>4. spot = s => Plain(s) /\ ~Alters(op, s)
    BY <2>1, <2>3 DEF RefAt
  <2>q. QED BY <2>1, <2>2, <2>4, RefSent
<1>3. CASE ReactReturns
  <2>1. /\ op \in Ops /\ spot \in Spots /\ state[op][spot] \in Under
        /\ state' = [state EXCEPT ![op][spot] = "SENT"] /\ pc' = "dispatch"
        /\ UNCHANGED <<retired, native>> /\ call' = "idle"
        /\ call = "done" /\ callOf = <<op, spot>>
    BY <1>3 DEF ReactReturns, Outcome, Onward, Under, Base, WorkerInv, sideVars, phoneVars
  <2>2. spot = s => (s \in native <=> op \in Applies)
    BY <2>1 DEF RefAt, Effected
  <2>q. QED BY <2>1, <2>2, RefSent
<1>q. QED BY <1>1, <1>2, <1>3

LEMMA RefRejected ==
  ASSUME Base, NEW s \in Spots, RefAt(s), ReactRejected
  PROVE  RefAt(s)'
<1>1. /\ op \in Ops /\ spot \in Spots /\ state[op][spot] = "DISPATCHING"
      /\ state' = [state EXCEPT ![op][spot] = "REJECTED"] /\ pc' = "dispatch"
      /\ UNCHANGED <<retired, native>> /\ call' = "idle"
      /\ call = "rejected" /\ callOf = <<op, spot>>
  BY DEF ReactRejected, Outcome, Onward, Base, WorkerInv, sideVars, phoneVars
<1>2. \A p \in Ops : state'[p][s] = IF p = op /\ spot = s THEN "REJECTED" ELSE state[p][s]
  BY <1>1 DEF Base, Types, RowTypes
<1>3. Standing(s)' = Standing(s)
  BY <1>1, <1>2, StandingSame
<1>4. CASE spot # s
  BY <1>1, <1>2, <1>3, <1>4, RefRest
<1>5. CASE spot = s
  <2>1. Plain(s)
    BY <1>1, <1>5 DEF RefAt
  <2>2. Plain(s)'
    BY <1>1, <1>3, <2>1 DEF Plain
  <2>q. QED BY <1>1, <2>2 DEF RefAt
<1>q. QED BY <1>4, <1>5

LEMMA RefSend ==
  ASSUME Base, NEW s \in Spots, RefAt(s), SendReaction
  PROVE  RefAt(s)'
<1>1. CASE backend # "up"
  BY <1>1, RefRestRows DEF SendReaction, rowVars, sideVars, phoneVars
<1>2. CASE backend = "up"
  <2>1. /\ op \in Ops /\ spot \in Spots /\ state[op][spot] \in Under /\ pc = "claimed"
        /\ UNCHANGED <<state, retired, native, op, spot>> /\ pc' = "react"
        /\ call' = "requested" /\ callOf' = <<op, spot>>
    BY <1>2 DEF SendReaction, Under, Base, WorkerInv, rowVars, sideVars, phoneVars
  <2>2. Standing(s)' = Standing(s)
    BY <2>1 DEF Standing
  <2>3. Plain(s)' <=> Plain(s)
    BY <2>1, <2>2 DEF Plain
  <2>4. \A o \in Ops : Effected(o, s)' <=> Effected(o, s)
    BY <2>1, <2>2 DEF Effected, Alters
  <2>5. spot = s => Alters(op, s)' /\ Plain(s)
    BY <2>1, <2>2, RemoteAlters DEF SendReaction, Alters, RefAt
  <2>6. callOf'[1] = op /\ callOf'[2] = spot
    BY <2>1
  <2>7. callOf'[2] = s => Alters(callOf[1], s)'
    BY <2>1, <2>5, <2>6 DEF Alters
  <2>q. QED BY <2>1, <2>3, <2>4, <2>5, <2>6, <2>7 DEF RefAt
<1>q. QED BY <1>1, <1>2

LEMMA RefThread ==
  ASSUME Base, NEW s \in Spots, RefAt(s), ThreadStep
  PROVE  RefAt(s)'
<1>1. /\ callOf[1] \in Ops /\ callOf[2] \in Spots /\ state[callOf[1]][callOf[2]] \in Under
      /\ callOf = <<callOf[1], callOf[2]>> /\ call = "requested" /\ call' # "idle"
      /\ UNCHANGED <<state, retired, pc, spot, asked, callOf>>
  BY CallTypes DEF ThreadStep, NativeReact, CallErrs, Base, WorkerInv, Under, rowVars, sideVars,
     workVars
<1>2. Standing(s)' = Standing(s)
  BY <1>1 DEF Standing
<1>3. CASE callOf[2] # s
  <2>1. s \in native' <=> s \in native
    BY <1>3 DEF ThreadStep, NativeReact, Put, CallErrs, phoneVars
  <2>2. Plain(s)' <=> Plain(s)
    BY <1>2, <2>1 DEF Plain
  <2>3. \A o \in Ops : Effected(o, s)' <=> Effected(o, s)
    BY <1>2, <2>1 DEF Effected, Alters
  <2>q. QED BY <1>1, <1>3, <2>2, <2>3 DEF RefAt
<1>4. ASSUME callOf[2] = s, NativeReact PROVE RefAt(s)'
  <2>1. (s \in native' <=> callOf[1] \in Applies) /\ call' \in {"done", "failed"}
    BY <1>1, <1>4 DEF NativeReact, Put
  <2>2. Alters(callOf[1], s)
    BY <1>1, <1>4 DEF RefAt
  <2>3. Alters(callOf[1], s)' /\ Effected(callOf[1], s)'
    BY <1>1, <1>2, <2>1, <2>2 DEF Alters, Effected
  <2>4. \E o \in Ops : state'[o][s] \in Under /\ Effected(o, s)'
    <3> DEFINE o == callOf[1]
    <3>1. o \in Ops /\ state'[o][s] \in Under /\ callOf' = callOf
      BY <1>1, <1>4
    <3>2. Effected(o, s)'
      BY <2>3
    <3>3. /\ s \in native' <=> o \in Applies
          /\ IF o \in Applies THEN Standing(s)' = {} ELSE Standing(s)' = {TargetOf[o]}
      BY <1>1, <2>1, <2>2, <1>2 DEF Alters
    <3> HIDE DEF o
    <3>q. QED BY <3>1, <3>3 DEF Effected, Alters
  <2>5. ~(pc' = "claimed" /\ spot' = s)
    <3>1. SUFFICES ASSUME pc = "claimed", spot = s PROVE FALSE
      BY <1>1
    <3>2. op \in Ops /\ spot \in Spots /\ state[op][spot] = "DISPATCHING"
          /\ state[callOf[1]][s] = "OUTCOME_UNKNOWN"
      BY <1>1, <1>4, <3>1 DEF Base, WorkerInv
    <3>3. callOf[1] = op
      BY <1>1, <1>4, <3>1, <3>2, OneUnder, SpotChat DEF Under
    <3>q. QED BY <3>1, <3>2, <3>3
  <2>q. QED BY <1>1, <1>4, <2>1, <2>3, <2>4, <2>5 DEF RefAt
<1>5. ASSUME callOf[2] = s, CallErrs PROVE RefAt(s)'
  <2>1. native' = native /\ call' \in {"rejected", "failed"}
    BY <1>5 DEF CallErrs, phoneVars
  <2>2. Plain(s)' <=> Plain(s)
    BY <1>2, <2>1 DEF Plain
  <2>3. \A o \in Ops : Effected(o, s)' <=> Effected(o, s)
    BY <1>2, <2>1 DEF Effected, Alters
  <2>4. Alters(callOf[1], s)'
    BY <1>1, <1>2, <1>5 DEF RefAt, Alters
  <2>q. QED BY <1>1, <1>5, <2>1, <2>2, <2>3, <2>4 DEF RefAt
<1>q. QED BY <1>3, <1>4, <1>5 DEF ThreadStep

(* A retirement does not find an emoji absent that only Matrix has touched. *)
LEMMA AskedIsTouched ==
  ASSUME Base, NEW s \in Spots, RefAt(s)
  PROVE  ~AskAbsent(s)
<1>1. SUFFICES ASSUME AskAbsent(s) PROVE FALSE
  OBVIOUS
<1>2. op \in Applies /\ Retirable(op) /\ s \in Covers[op] /\ s \notin native /\ op \in Ops
  BY <1>1 DEF AskAbsent, Asking, Base, RetireInv, Ops
<1>3. state[op][s] = "SENT" /\ retired[op] = "no"
  BY <1>2 DEF Retirable
<1>4. ASSUME NEW w \in Withdraws, TargetOf[w] = op, state[w][s] = "SENT" PROVE FALSE
  <2>1. ~(seq[op] < seq[w])
    BY <1>2, <1>4 DEF Retirable, ActiveRefs
  <2>2. w \in Ops
    BY DEF Ops
  <2>3. seq[w] # 0
    BY <1>4, <2>2 DEF Base, Numbered
  <2>q. QED BY <1>4, <2>1, <2>3 DEF Base, Numbered
<1>5. op \in Standing(s)
  BY <1>2, <1>3, <1>4 DEF Standing
<1>6. ASSUME NEW o \in Ops, state[o][s] \in Under PROVE FALSE
  <2>1. ChatOf[op] = ChatOf[o]
    BY <1>2, <1>3, <1>6, SpotChat DEF Under
  <2>2. ChatPending(ChatOf[op])
    BY <1>6, <2>1 DEF ChatPending, Under, Settled
  <2>q. QED BY <1>2, <2>2 DEF Retirable
<1>7. Plain(s)
  BY <1>6 DEF RefAt
<1>q. QED BY <1>2, <1>5, <1>7 DEF Plain

LEMMA RefAsk ==
  ASSUME Base, RefInv, NEW t \in Spots, AskAbsent(t), NEW s \in Spots \ touched
  PROVE  RefAt(s)'
<1>1. t # s /\ RefAt(s)
  BY AskedIsTouched DEF RefInv
<1>2. /\ op \in Applies /\ asked' = asked \cup {t} /\ pc = "asking"
      /\ UNCHANGED <<state, native, call, callOf>> /\ pc' \in {"asking", "redact"}
  BY DEF AskAbsent, Asking, Base, RetireInv, rowVars, threadVars, phoneVars
<1>3. s \notin asked'
  BY <1>1, <1>2 DEF RefAt
<1>4. retired' = retired \/ (retired' = [retired EXCEPT ![op] = "planned"] /\ s \notin Covers[op])
  BY <1>1, <1>2 DEF AskAbsent, RefAt
<1>5. \A a \in Applies : s \in Covers[a] => retired'[a] = "no"
  BY <1>1, <1>2, <1>4 DEF RefAt, Base, Types, RowTypes
<1>6. Standing(s)' = Standing(s)
  <2>1. \A a \in Applies : state[a][s] = "SENT" => s \in Covers[a]
    BY DEF Base, Numbered, Ops
  <2>2. \A a \in Applies : state[a][s] = "SENT" => retired'[a] = "no" /\ retired[a] = "no"
    BY <1>1, <1>5, <2>1 DEF RefAt
  <2>q. QED BY <1>2, <2>2 DEF Standing
<1>7. Plain(s)' <=> Plain(s)
  BY <1>2, <1>6 DEF Plain
<1>8. \A o \in Ops : Effected(o, s)' <=> Effected(o, s)
  BY <1>2, <1>6 DEF Effected, Alters
<1>9. call' # "idle" /\ callOf'[2] = s => Alters(callOf[1], s)'
  BY <1>1, <1>2, <1>6 DEF RefAt, Alters
<1>10. call' = "done" /\ callOf'[2] = s => Effected(callOf[1], s)'
  BY <1>1, <1>2, <1>9 DEF RefAt, Effected
<1>q. QED BY <1>1, <1>2, <1>3, <1>5, <1>7, <1>8, <1>9, <1>10 DEF RefAt

LEMMA RefRedacted ==
  ASSUME Base, NEW s \in Spots, RefAt(s), Redacted
  PROVE  RefAt(s)'
<1>1. /\ op \in Applies /\ retired[op] # "no" /\ retired' = [retired EXCEPT ![op] = "done"]
      /\ UNCHANGED <<state, native, call, callOf>> /\ pc' = "retire"
  BY DEF Redacted, Finished, Base, RetireInv, rowVars, threadVars, phoneVars
<1>2. \A a \in Applies : retired'[a] = "no" <=> retired[a] = "no"
  BY <1>1 DEF Base, Types, RowTypes
<1>3. Standing(s)' = Standing(s)
  BY <1>1, <1>2 DEF Standing
<1>4. Plain(s)' <=> Plain(s)
  BY <1>1, <1>3 DEF Plain
<1>5. \A o \in Ops : Effected(o, s)' <=> Effected(o, s)
  BY <1>1, <1>3 DEF Effected, Alters
<1>6. call' # "idle" /\ callOf'[2] = s => Alters(callOf[1], s)'
  BY <1>1, <1>3 DEF RefAt, Alters
<1>7. call' = "done" /\ callOf'[2] = s => Effected(callOf[1], s)'
  BY <1>1, <1>6 DEF RefAt, Effected
<1>q. QED BY <1>1, <1>2, <1>4, <1>5, <1>6, <1>7 DEF RefAt

LEMMA RefInit == Init => RefInv
<1> SUFFICES ASSUME Init, NEW s \in Spots PROVE RefAt(s)
  BY DEF RefInv
<1>1. Standing(s) = {}
  BY DEF Init, Standing, Ops
<1>q. QED BY <1>1 DEF Init, RefAt, Plain

LEMMA RefNext == Base /\ RefInv /\ [Next]_vars => RefInv'
<1> SUFFICES ASSUME Base, RefInv, [Next]_vars, NEW s \in Spots, s \notin touched' PROVE RefAt(s)'
  BY DEF RefInv
<1>1. touched \subseteq touched'
  <2>1. CASE UNCHANGED <<phoneVars, showVars>>
    BY <2>1 DEF phoneVars
  <2>2. CASE NativeReact \/ Crash \/ DeliveryStep \/ UNCHANGED vars
    BY <2>2 DEF NativeReact, Crash, DeliveryStep, Reconcile, Effect, Project, AnswerLost, vars, phoneVars
  <2>3. ASSUME NEW t \in Spots, PhoneMove(t) \/ Scan(t) PROVE touched \subseteq touched'
    BY <2>3 DEF PhoneMove, Scan, phoneVars
  <2>q. QED BY <2>1, <2>2, <2>3, QuietSteps
<1>2. RefAt(s) /\ s \in Spots \ touched
  BY <1>1 DEF RefInv
<1>3. CASE \E t \in Spots : AskAbsent(t)
  BY <1>2, <1>3, RefAsk
<1>4. CASE Claim
  BY <1>2, <1>4, RefClaim
<1>5. CASE NothingToSend \/ ReactReturns \/ \E o \in Ops, t \in Spots : RecoverPart(o, t)
  BY <1>2, <1>5, RefSentSteps
<1>6. CASE SendReaction
  BY <1>2, <1>6, RefSend
<1>7. CASE ReactRejected
  BY <1>2, <1>7, RefRejected
<1>8. CASE Redacted
  BY <1>2, <1>8, RefRedacted
<1>9. CASE ThreadStep
  BY <1>2, <1>9, RefThread
<1>q. QED BY <1>2, <1>3, <1>4, <1>5, <1>6, <1>7, <1>8, <1>9, RefQuietSteps

(* Where the phone did not interfere, the emoji is on the message exactly  *)
(* when a reaction stands for it that was sent and neither withdrawn nor   *)
(* retired, whatever crashed, was refused or stayed uncertain.             *)
THEOREM ReferencesDecideAlways == Spec => []ReferencesDecide
<1>1. Init => Base /\ RefInv
  BY BaseInit, RefInit
<1>2. Base /\ RefInv /\ [Next]_vars => (Base /\ RefInv)'
  BY BaseNext, RefNext
<1>3. Base /\ RefInv => ReferencesDecide
  <2> SUFFICES ASSUME Base, RefInv, NEW s \in Spots \ touched, ~InFlight(s) PROVE Plain(s)
    BY TypesAreTypeOK DEF Base, ReferencesDecide, Plain
  <2>1. \A o \in Ops : state[o][s] \notin Under
    BY DEF InFlight, Under
  <2>q. QED BY <2>1 DEF RefInv, RefAt
<1>q. QED BY <1>1, <1>2, <1>3, PTL DEF Spec

(* A part that was sent or refused stays so: nothing sends it again, and no *)
(* restart or late answer of the thread reopens it.                        *)
THEOREM FinalStays ==
  Spec => [][\A o \in Ops, s \in Spots : state[o][s] \in Final => state'[o][s] = state[o][s]]_vars
<1>1. Base /\ [Next]_vars =>
        [\A o \in Ops, s \in Spots : state[o][s] \in Final => state'[o][s] = state[o][s]]_vars
  BY FinalStep DEF Base
<1>q. QED BY <1>1, BaseInvariant, PTL DEF Spec

(* At most one part of a chat is under way, also after crashes and while   *)
(* the outcome of one is unknown.                                          *)
THEOREM OneUnderWay ==
  Spec => [](\A o, p \in Ops, s, t \in Spots :
               ChatOf[p] = ChatOf[o] =>
                 (state[o][s] \in Under /\ state[p][t] \in Under => p = o /\ t = s))
<1>1. Base => \A o, p \in Ops, s, t \in Spots :
                ChatOf[p] = ChatOf[o] =>
                  (state[o][s] \in Under /\ state[p][t] \in Under => p = o /\ t = s)
  BY OneUnder
<1>q. QED BY <1>1, BaseInvariant, PTL

-----------------------------------------------------------------------------
(* What changes a part, and the call.                                      *)

LEMMA StateStep ==
  ASSUME [Next]_vars, state' # state
  PROVE  \/ Start \/ Claim \/ NothingToSend \/ ReactReturns \/ ReactRejected \/ ReactFails
         \/ \E o \in Ops : Prepare(o)
         \/ \E o \in Ops, s \in Spots : RecoverPart(o, s)
<1>1. ASSUME NEW o \in Ops, NEW s \in Spots, Notice(o, s) \/ Pick(o, s) PROVE state' = state
  BY <1>1 DEF Notice, Pick, rowVars
<1>2. ASSUME NEW s \in Spots, AskAbsent(s) \/ PhoneMove(s) \/ Scan(s) PROVE state' = state
  BY <1>2 DEF AskAbsent, PhoneMove, Scan, rowVars
<1>3. CASE Crash \/ EndPhase \/ EndIngress \/ CheckFails \/ SendReaction
  BY <1>3 DEF Crash, EndPhase, EndIngress, CheckFails, SendReaction, rowVars
<1>4. CASE AskEnds \/ Redacted \/ RedactFails
  BY <1>4 DEF AskEnds, Redacted, RedactFails, rowVars
<1>5. ASSUME NEW a \in Applies, BeginRetire(a) \/ ResumeRetire(a) PROVE state' = state
  BY <1>5 DEF BeginRetire, ResumeRetire, rowVars
<1>6. CASE ThreadStep \/ DeliveryStep \/ BackendDies \/ BackendTerminated \/ UNCHANGED vars
  BY <1>6 DEF ThreadStep, NativeReact, CallErrs, DeliveryStep, Reconcile, Effect, Project, AnswerLost,
     BackendDies, BackendTerminated, rowVars, vars
<1>q. QED
  BY <1>1, <1>2, <1>3, <1>4, <1>5, <1>6
  DEF Next, DrainStep, IngressStep, DispatchStep, RetireStep

(* A part that exists goes on existing. *)
LEMMA PresentStep ==
  ASSUME Base, [Next]_vars, NEW p \in Ops, NEW t \in Spots, state[p][t] # "absent"
  PROVE  state'[p][t] # "absent" /\ seq'[p] # 0 /\ t \in Covers[p]
<1>1. state'[p][t] # "absent"
  <2>0. state \in [Ops -> [Spots -> PartState]]
    BY DEF Base, Types, RowTypes
  <2>1. CASE state' = state
    BY <2>1
  <2>2. CASE Start
    BY <2>2 DEF Start
  <2>3. ASSUME NEW o \in Ops, Prepare(o) PROVE state'[p][t] # "absent"
    <3>1. p # o
      BY <2>3 DEF Prepare, Base, Numbered
    <3>q. QED BY <2>0, <2>3, <3>1 DEF Prepare
  <2>4. ASSUME NEW o \in Ops, NEW s \in Spots, RecoverPart(o, s) PROVE state'[p][t] # "absent"
    BY <2>0, <2>4 DEF RecoverPart
  <2>5. CASE Claim \/ NothingToSend \/ ReactReturns \/ ReactRejected \/ ReactFails
    <3>1. op \in Ops /\ spot \in Spots
      BY <2>5 DEF Claim, NothingToSend, ReactReturns, ReactRejected, ReactFails, Outcome, Base,
         WorkerInv
    <3>2. PICK x \in PartState \ {"absent"} : state' = [state EXCEPT ![op][spot] = x]
      BY <2>5 DEF Claim, NothingToSend, ReactReturns, ReactRejected, ReactFails, Outcome, PartState
    <3>q. QED BY <2>0, <3>1, <3>2
  <2>q. QED BY <2>1, <2>2, <2>3, <2>4, <2>5, StateStep
<1>2. Numbered'
  BY BaseNext DEF Base
<1>q. QED BY <1>1, <1>2 DEF Numbered

LEMMA SentStep ==
  ASSUME Base, [Next]_vars, NEW o \in Ops, NEW s \in Spots,
         state'[o][s] = "SENT", state[o][s] # "SENT"
  PROVE  \/ RecoverPart(o, s)
         \/ (NothingToSend \/ ReactReturns) /\ op = o /\ spot = s
<1>0. state \in [Ops -> [Spots -> PartState]]
  BY DEF Base, Types, RowTypes
<1>1. state' # state
  OBVIOUS
<1>2. ~Start
  BY DEF Start
<1>3. ASSUME NEW p \in Ops PROVE ~Prepare(p)
  BY <1>0 DEF Prepare
<1>4. ASSUME NEW p \in Ops, NEW t \in Spots, RecoverPart(p, t) PROVE RecoverPart(o, s)
  <2>1. p = o /\ t = s
    BY <1>0, <1>4 DEF RecoverPart
  <2>q. QED BY <1>4, <2>1
<1>5. ASSUME Claim \/ NothingToSend \/ ReactReturns \/ ReactRejected \/ ReactFails
      PROVE  (NothingToSend \/ ReactReturns) /\ op = o /\ spot = s
  <2>1. op \in Ops /\ spot \in Spots
    BY <1>5 DEF Claim, NothingToSend, ReactReturns, ReactRejected, ReactFails, Outcome, Base,
       WorkerInv
  <2>2. PICK x : /\ state' = [state EXCEPT ![op][spot] = x]
                 /\ x = "SENT" => NothingToSend \/ ReactReturns
    BY <1>5 DEF Claim, NothingToSend, ReactReturns, ReactRejected, ReactFails, Outcome
  <2>q. QED BY <1>0, <2>1, <2>2
<1>q. QED BY <1>1, <1>2, <1>3, <1>4, <1>5, StateStep

LEMMA DoneStep ==
  ASSUME [Next]_vars, call' = "done", ~NativeReact
  PROVE  call = "done" /\ callOf' = callOf
<1>1. CASE UNCHANGED threadVars
  BY <1>1 DEF threadVars
<1>2. CASE Start \/ Crash \/ EndPhase \/ EndIngress \/ CheckFails \/ Claim \/ NothingToSend
  BY <1>2 DEF Start, Crash, EndPhase, EndIngress, CheckFails, Claim, NothingToSend, threadVars
<1>3. CASE SendReaction \/ ReactReturns \/ ReactRejected \/ ReactFails \/ AskEnds \/ RedactFails
  BY <1>3 DEF SendReaction, ReactReturns, ReactRejected, ReactFails, Outcome, AskEnds,
     RedactFails, threadVars
<1>4. ASSUME NEW o \in Ops, Prepare(o) PROVE UNCHANGED threadVars
  BY <1>4 DEF Prepare
<1>5. ASSUME NEW o \in Ops, NEW s \in Spots, RecoverPart(o, s) \/ Pick(o, s) \/ Notice(o, s)
      PROVE  UNCHANGED threadVars
  BY <1>5 DEF RecoverPart, Pick, Notice
<1>6. ASSUME NEW a \in Applies, BeginRetire(a) \/ ResumeRetire(a) PROVE UNCHANGED threadVars
  BY <1>6 DEF BeginRetire, ResumeRetire
<1>7. CASE Redacted \/ DeliveryStep \/ UNCHANGED vars
  BY <1>1, <1>7 DEF Redacted, DeliveryStep, Reconcile, Effect, Project, AnswerLost, vars
<1>8. ASSUME NEW s \in Spots, AskAbsent(s) \/ PhoneMove(s) \/ Scan(s) PROVE UNCHANGED threadVars
  BY <1>8 DEF AskAbsent, PhoneMove, Scan
<1>9. CASE CallErrs \/ BackendDies \/ BackendTerminated
  BY <1>9 DEF CallErrs, BackendDies, BackendTerminated
<1>q. QED
  BY <1>1, <1>2, <1>3, <1>4, <1>5, <1>6, <1>7, <1>8, <1>9
  DEF Next, DrainStep, IngressStep, DispatchStep, RetireStep, ThreadStep

-----------------------------------------------------------------------------
(* Who holds an emoji in the room.                                         *)

Pending(s) == \E i \in 1..Len(changes) : changes[i][1] = s
Later(s) == \E i \in 2..Len(changes) : changes[i][1] = s

(* What QuietAgrees leaves out: a refused part, and a retirement that asked *)
(* another message after this one.                                         *)
Spoilt(s) ==
  \/ \E o \in Ops : state[o][s] = "REJECTED"
  \/ \E a \in Applies :
       s \in Covers[a] /\ retired[a] # "no" /\ \E t \in Covers[a] : Rank[s] < Rank[t]

(* The reactions of the owner no carried out withdrawal has taken back. *)
TakenBack(w, s) == state[w][s] = "SENT" \/ (call = "done" /\ callOf = <<w, s>>)
Holders(s) ==
  {a \in Applies : /\ Counts(a, s) /\ retired[a] = "no"
                   /\ \A w \in Withdraws : TargetOf[w] = a => ~TakenBack(w, s)}

LEMMA ActiveHolds ==
  ASSUME Base, NEW s \in Spots
  PROVE  ActiveRefs(s) \subseteq Holders(s)
<1>1. SUFFICES ASSUME NEW a \in ActiveRefs(s), NEW w \in Withdraws, TargetOf[w] = a,
                      TakenBack(w, s)
               PROVE  FALSE
  BY DEF Holders, ActiveRefs
<1>2. w \in Ops
  BY DEF Ops
<1>3. state[w][s] # "absent"
  <2>1. CASE state[w][s] = "SENT"
    BY <2>1
  <2>2. CASE call = "done" /\ callOf = <<w, s>>
    BY <2>2 DEF Base, WorkerInv
  <2>q. QED BY <1>1, <2>1, <2>2 DEF TakenBack
<1>4. seq[w] # 0
  BY <1>2, <1>3 DEF Base, Numbered
<1>q. QED BY <1>1, <1>4 DEF Base, Numbered, ActiveRefs

LEMMA SpoiltStays ==
  ASSUME Base, [Next]_vars, NEW s \in Spots, Spoilt(s)
  PROVE  Spoilt(s)'
<1>1. CASE \E o \in Ops : state[o][s] = "REJECTED"
  BY <1>1, FinalStep DEF Spoilt, Base, Final
<1>2. ASSUME NEW a \in Applies, retired[a] # "no" PROVE retired'[a] # "no"
  <2>1. CASE Redacted
    BY <1>2, <2>1 DEF Redacted, Finished, Base, Types, RowTypes
  <2>2. ASSUME NEW t \in Spots, AskAbsent(t) PROVE retired'[a] # "no"
    BY <1>2, <2>2 DEF AskAbsent, Base, Types, RowTypes
  <2>q. QED BY <1>2, <2>1, <2>2, RetiredStep
<1>q. QED BY <1>1, <1>2 DEF Spoilt

(* A withdrawal that needs nothing of Threema leaves another reaction. *)
LEMMA OtherHolder ==
  ASSUME Base, NothingToSend, NEW s \in Spots, spot = s, NEW w \in Withdraws, op = w,
         TargetOf[w] \in Holders(s)
  PROVE  Holders(s)' # {}
<1> DEFINE T == TargetOf[w]
<1>1. /\ w \in Ops /\ state[w][s] = "DISPATCHING" /\ T \in Applies
      /\ state' = [state EXCEPT ![w][s] = "SENT"] /\ pc = "claimed" /\ T \in Ops
      /\ UNCHANGED <<retired, seq, call, callOf>>
  BY ReactionAssumption DEF NothingToSend, Base, WorkerInv, sideVars, threadVars, Ops
<1>2. ~Alters(w, s)
  BY <1>1, RemoteAlters DEF NothingToSend, Under
<1>3. w \notin Applies
  BY ReactionAssumption
<1>4. T \in Standing(s)
  <2>1. state[T][s] \in Final
    BY <1>1, WithdrawnLater
  <2>2. state[T][s] = "SENT" /\ retired[T] = "no"
    BY <2>1 DEF Holders, Counts, Final
  <2>3. \A x \in Withdraws : TargetOf[x] = T => state[x][s] # "SENT"
    BY DEF Holders, TakenBack
  <2>q. QED BY <1>1, <2>2, <2>3 DEF Standing
<1> HIDE DEF T
<1>5. PICK b \in Standing(s) : b # T
  BY <1>2, <1>3, <1>4 DEF Alters, T
<1>6. b \in Applies /\ b \in Ops /\ b # w /\ state[b][s] = "SENT" /\ retired[b] = "no"
  BY <1>3, <1>5 DEF Standing, Ops
<1>7. Counts(b, s)'
  <2>1. seq[b] # 0 /\ s \in Covers[b]
    BY <1>1, <1>6 DEF Base, Numbered
  <2>2. state'[b][s] = "SENT"
    BY <1>1, <1>6 DEF Base, Types, RowTypes
  <2>q. QED BY <1>1, <2>1, <2>2 DEF Counts
<1>8. ASSUME NEW x \in Withdraws, TargetOf[x] = b PROVE ~TakenBack(x, s)'
  <2>1. x # w /\ x \in Ops
    BY <1>5, <1>8 DEF T, Ops
  <2>2. state'[x][s] # "SENT"
    BY <1>1, <1>5, <1>8, <2>1 DEF Base, Types, RowTypes, Standing
  <2>3. ~(call = "done" /\ callOf = <<x, s>>)
    <3>1. SUFFICES ASSUME call = "done", callOf = <<x, s>> PROVE FALSE
      OBVIOUS
    <3>2. state[x][s] \in Under
      BY <1>1, <3>1 DEF Base, WorkerInv, Under
    <3>q. QED BY <1>1, <2>1, <3>2, OneUnder, SpotChat DEF Under
  <2>q. QED BY <1>1, <2>2, <2>3 DEF TakenBack
<1>q. QED BY <1>1, <1>6, <1>7, <1>8 DEF Holders

(* While the emoji stays in Threema and nothing of it is refused, it keeps *)
(* a reaction in the room: who loses it is not the last.                   *)
LEMMA HoldersStay ==
  ASSUME Base, [Next]_vars, NEW s \in Spots, s \in native, s \in native', ~Spoilt(s)',
         Holders(s) # {}
  PROVE  Holders(s)' # {}
<1>1. PICK h \in Applies : h \in Holders(s)
  BY DEF Holders
<1>2. h \in Ops /\ seq[h] # 0 /\ s \in Covers[h] /\ retired[h] = "no" /\ state[h][s] # "absent"
      /\ \A w \in Withdraws : TargetOf[w] = h => ~TakenBack(w, s)
  BY <1>1 DEF Holders, Counts, Base, Numbered, Ops
<1>3. Counts(h, s)'
  <2>1. state'[h][s] # "REJECTED"
    BY <1>2 DEF Spoilt
  <2>q. QED BY <1>2, <2>1, PresentStep DEF Counts
<1>4. retired'[h] = "no"
  <2>1. SUFFICES ASSUME retired'[h] # "no" PROVE FALSE
    OBVIOUS
  <2>2. ~Redacted
    BY <1>2, <2>1 DEF Redacted, Finished, Base, RetireInv, Types, RowTypes
  <2>3. PICK t \in Spots : AskAbsent(t)
    BY <1>2, <2>1, <2>2, RetiredStep
  <2>4. op = h /\ Covers[h] \subseteq asked \cup {t} /\ t \in Covers[h] \ asked /\ t \notin native
        /\ pc = "asking"
    BY <1>2, <2>1, <2>3 DEF AskAbsent, Asking, Base, Types, RowTypes
  <2>5. s \in asked /\ s # t
    BY <1>2, <2>4
  <2>6. Rank[s] <= Rank[t]
    BY <2>4, <2>5 DEF Base, RetireInv
  <2>7. Rank[s] \in Nat /\ Rank[t] \in Nat /\ Rank[s] # Rank[t]
    BY <2>5, ReactionAssumption
  <2>8. Rank[s] < Rank[t]
    BY <2>6, <2>7
  <2>q. QED BY <1>2, <2>1, <2>4, <2>8 DEF Spoilt
<1>5. CASE \A w \in Withdraws : TargetOf[w] = h => ~TakenBack(w, s)'
  BY <1>3, <1>4, <1>5 DEF Holders
<1>6. ASSUME NEW w \in Withdraws, TargetOf[w] = h, TakenBack(w, s)' PROVE Holders(s)' # {}
  <2>1. ~TakenBack(w, s) /\ w \in Ops /\ w \notin Applies
    BY <1>2, <1>6, ReactionAssumption DEF Ops
  <2>2. ~(call' = "done" /\ callOf' = <<w, s>>)
    <3>1. SUFFICES ASSUME call' = "done", callOf' = <<w, s>> PROVE FALSE
      OBVIOUS
    <3>2. NativeReact
      BY <2>1, <3>1, DoneStep DEF TakenBack
    <3>3. callOf[1] = w /\ callOf[2] = s
      BY <3>1, <3>2 DEF NativeReact
    <3>4. s \notin native'
      BY <2>1, <3>2, <3>3 DEF NativeReact, Put
    <3>q. QED BY <3>4
  <2>3. state'[w][s] = "SENT" /\ state[w][s] # "SENT"
    BY <1>6, <2>1, <2>2 DEF TakenBack
  <2>4. CASE RecoverPart(w, s)
    BY <2>1, <2>4 DEF RecoverPart, Wanted
  <2>5. CASE NothingToSend /\ op = w /\ spot = s
    BY <1>1, <1>6, <2>5, OtherHolder
  <2>6. CASE ReactReturns /\ op = w /\ spot = s
    <3>1. call = "done" /\ callOf = <<w, s>>
      BY <2>6 DEF ReactReturns, Outcome, Base, WorkerInv
    <3>q. QED BY <2>1, <3>1 DEF TakenBack
  <2>q. QED BY <2>1, <2>3, <2>4, <2>5, <2>6, SentStep
<1>q. QED BY <1>5, <1>6

-----------------------------------------------------------------------------
(* The changes that are not delivered yet.                                 *)

LEMMA AppendChange ==
  ASSUME Types, NEW e \in Spots \X BOOLEAN, changes' = Append(changes, e)
  PROVE  /\ Len(changes) \in Nat /\ Len(changes') = Len(changes) + 1
         /\ \A i \in 1..Len(changes) : changes'[i] = changes[i]
         /\ changes'[Len(changes) + 1] = e
BY AppendProperties, LenProperties DEF Types, ShowTypes

LEMMA DropChange ==
  ASSUME Types, changes # <<>>, changes' = Tail(changes)
  PROVE  /\ Len(changes) \in Nat \ {0} /\ Len(changes') = Len(changes) - 1
         /\ \A i \in 1..Len(changes') : changes'[i] = changes[i + 1]
<1>1. changes \in Seq(Spots \X BOOLEAN)
  BY DEF Types, ShowTypes
<1>2. Len(changes) \in Nat \ {0}
  BY <1>1, EmptySeq, LenProperties
<1>q. QED BY <1>1, <1>2, HeadTailProperties

LEMMA FirstChange ==
  ASSUME Types, changes # <<>>
  PROVE  Head(changes) = changes[1] /\ Here = changes[1][1] /\ Len(changes) \in Nat \ {0}
<1>1. changes \in Seq(Spots \X BOOLEAN)
  BY DEF Types, ShowTypes
<1>2. Len(changes) \in Nat \ {0}
  BY <1>1, EmptySeq, LenProperties
<1>q. QED BY <1>1, <1>2, HeadTailProperties DEF Here

LEMMA RecordedChange ==
  ASSUME Types, NEW t \in Spots, NEW b \in BOOLEAN, changes' = Append(changes, <<t, b>>)
  PROVE  /\ Pending(t)'
         /\ changes # <<>> => Later(t)'
         /\ \A s \in Spots \ {t} : (Pending(s)' <=> Pending(s)) /\ (Later(s) => Later(s)')
         /\ \A s \in Spots \ {t} : changes # <<>> /\ Later(s)' => Later(s)
<1> DEFINE e == <<t, b>>
<1>1. e \in Spots \X BOOLEAN /\ e[1] = t
  OBVIOUS
<1>2. changes' = Append(changes, e)
  OBVIOUS
<1> HIDE DEF e
<1>3. /\ Len(changes) \in Nat /\ Len(changes') = Len(changes) + 1
      /\ \A i \in 1..Len(changes) : changes'[i] = changes[i]
      /\ changes'[Len(changes) + 1] = e
  BY <1>1, <1>2, AppendChange
<1>4. changes # <<>> => Len(changes) >= 1
  BY <1>3, FirstChange
<1>5. Pending(t)'
  BY <1>1, <1>3 DEF Pending
<1>6. changes # <<>> => Later(t)'
  BY <1>1, <1>3, <1>4 DEF Later
<1>7. ASSUME NEW s \in Spots \ {t} PROVE Pending(s)' <=> Pending(s)
  BY <1>1, <1>3 DEF Pending
<1>8. ASSUME NEW s \in Spots \ {t} PROVE Later(s)' <=> Later(s)
  BY <1>1, <1>3 DEF Later
<1>q. QED BY <1>5, <1>6, <1>7, <1>8

(* Unless another one follows, a change tells what the journal holds. *)
LastTells ==
  \A i \in 1..Len(changes) :
    (\A j \in (i + 1)..Len(changes) : changes[j][1] # changes[i][1]) =>
      (changes[i][2] <=> journaled[changes[i][1]] \in {"current", "back"})

LEMMA ChangeTypes ==
  ASSUME Types, NEW i \in 1..Len(changes)
  PROVE  changes[i][1] \in Spots /\ changes[i][2] \in BOOLEAN
<1>1. changes[i] \in Spots \X BOOLEAN
  BY ElementOfSeq DEF Types, ShowTypes
<1>q. QED BY <1>1

LEMMA TellsRecorded ==
  ASSUME Types, LastTells, NEW t \in Spots, NEW b \in BOOLEAN,
         changes' = Append(changes, <<t, b>>),
         NEW new \in {"current", "absent"}, new = "current" <=> b,
         journaled' = [journaled EXCEPT ![t] = new]
  PROVE  LastTells'
<1> DEFINE e == <<t, b>>
<1>1. e \in Spots \X BOOLEAN /\ e[1] = t /\ e[2] = b
  OBVIOUS
<1>2. changes' = Append(changes, e)
  OBVIOUS
<1> HIDE DEF e
<1>3. /\ Len(changes) \in Nat /\ Len(changes') = Len(changes) + 1
      /\ \A i \in 1..Len(changes) : changes'[i] = changes[i]
      /\ changes'[Len(changes) + 1] = e
  BY <1>1, <1>2, AppendChange
<1>4. \A s \in Spots : journaled'[s] = IF s = t THEN new ELSE journaled[s]
  BY DEF Types, ThreemaTypes
<1>5. SUFFICES ASSUME NEW i \in 1..Len(changes'),
                      \A j \in (i + 1)..Len(changes') : changes'[j][1] # changes'[i][1]
               PROVE  changes'[i][2] <=> journaled'[changes'[i][1]] \in {"current", "back"}
  BY DEF LastTells
<1>6. CASE i = Len(changes) + 1
  BY <1>1, <1>3, <1>4, <1>6
<1>7. CASE i \in 1..Len(changes)
  <2>1. changes[i][1] \in Spots
    BY <1>7, ChangeTypes
  <2>2. changes'[Len(changes) + 1][1] # changes'[i][1]
    BY <1>3, <1>5, <1>7
  <2>3. changes[i][1] # t
    BY <1>1, <1>3, <1>7, <2>2
  <2>4. \A j \in (i + 1)..Len(changes) : changes[j][1] # changes[i][1]
    BY <1>3, <1>5, <1>7
  <2>5. changes[i][2] <=> journaled[changes[i][1]] \in {"current", "back"}
    BY <1>7, <2>4 DEF LastTells
  <2>q. QED BY <1>3, <1>4, <1>7, <2>1, <2>3, <2>5
<1>q. QED BY <1>3, <1>6, <1>7

LEMMA TellsSilent ==
  ASSUME Types, LastTells, NEW t \in Spots, changes' = changes,
         journaled' = journaled \/ /\ journaled[t] = "current"
                                   /\ journaled' = [journaled EXCEPT ![t] = "back"]
  PROVE  LastTells'
<1>1. \A s \in Spots :
        journaled'[s] \in {"current", "back"} <=> journaled[s] \in {"current", "back"}
  BY DEF Types, ThreemaTypes
<1>q. QED BY <1>1, ChangeTypes DEF LastTells

LEMMA TellsDropped ==
  ASSUME Types, LastTells, changes # <<>>, changes' = Tail(changes), journaled' = journaled
  PROVE  LastTells'
<1>1. /\ Len(changes) \in Nat \ {0} /\ Len(changes') = Len(changes) - 1
      /\ \A i \in 1..Len(changes') : changes'[i] = changes[i + 1]
  BY DropChange
<1>2. SUFFICES ASSUME NEW i \in 1..Len(changes'),
                      \A j \in (i + 1)..Len(changes') : changes'[j][1] # changes'[i][1]
               PROVE  changes'[i][2] <=> journaled[changes'[i][1]] \in {"current", "back"}
  BY DEF LastTells
<1>3. i + 1 \in 1..Len(changes) /\ changes'[i] = changes[i + 1]
  BY <1>1
<1>4. ASSUME NEW j \in ((i + 1) + 1)..Len(changes) PROVE changes[j][1] # changes[i + 1][1]
  <2>1. j - 1 \in (i + 1)..Len(changes') /\ (j - 1) + 1 = j
    BY <1>1, <1>4
  <2>2. changes'[j - 1] = changes[j]
    BY <1>1, <2>1
  <2>q. QED BY <1>2, <1>3, <2>1, <2>2
<1>q. QED BY <1>3, <1>4 DEF LastTells

LEMMA DroppedChange ==
  ASSUME Types, changes # <<>>, changes' = Tail(changes), NEW s \in Spots
  PROVE  /\ Pending(s)' <=> Later(s)
         /\ Here # s => (Pending(s) <=> Later(s))
<1>1. /\ Len(changes) \in Nat \ {0} /\ Len(changes') = Len(changes) - 1
      /\ \A i \in 1..Len(changes') : changes'[i] = changes[i + 1]
  BY DropChange
<1>2. ASSUME Pending(s)' PROVE Later(s)
  <2>1. PICK i \in 1..Len(changes') : changes'[i][1] = s
    BY <1>2 DEF Pending
  <2>2. i + 1 \in 2..Len(changes) /\ changes[i + 1][1] = s
    BY <1>1, <2>1
  <2>q. QED BY <2>2 DEF Later
<1>3. ASSUME Later(s) PROVE Pending(s)'
  <2>1. PICK i \in 2..Len(changes) : changes[i][1] = s
    BY <1>3 DEF Later
  <2>2. i - 1 \in 1..Len(changes') /\ (i - 1) + 1 = i
    BY <1>1, <2>1
  <2>3. changes'[i - 1][1] = s
    BY <1>1, <2>1, <2>2
  <2>q. QED BY <2>2, <2>3 DEF Pending
<1>4. ASSUME Here # s PROVE Pending(s) <=> Later(s)
  <2>1. changes[1][1] # s
    BY <1>4, FirstChange
  <2>q. QED BY <1>1, <2>1 DEF Pending, Later
<1>q. QED BY <1>2, <1>3, <1>4

-----------------------------------------------------------------------------
(* The room shows the emoji, once the last change of a spot is delivered.  *)

ShowAt(s) ==
  s \notin blind /\ journaled[s] = Snapshot(s) =>
    /\ ~Pending(s) =>
         /\ s \in bound => s \in native
         /\ s \in native /\ ~Spoilt(s) => s \in bound \/ Holders(s) # {}
    /\ dpc # "idle" /\ Here = s /\ ~Later(s) =>
         /\ dpc = "add" => s \in native
         /\ dpc = "remove" /\ s \in native /\ ~Spoilt(s) => Holders(s) # {}
ShowInv == LastTells /\ \A s \in Spots : ShowAt(s)

(* A step that leaves the emoji, its journal and its projection alone. *)
LEMMA ShowRest ==
  ASSUME Base, [Next]_vars, NEW s \in Spots, ShowAt(s),
         s \in native' <=> s \in native, s \in bound' <=> s \in bound,
         journaled'[s] = journaled[s], s \in blind => s \in blind',
         Pending(s)' <=> Pending(s),
         dpc' # "idle" /\ Here' = s => dpc' = dpc /\ Here = s /\ (Later(s) => Later(s)')
  PROVE  ShowAt(s)'
<1>1. SUFFICES ASSUME s \notin blind', journaled'[s] = Snapshot(s)'
               PROVE  /\ ~Pending(s)' =>
                           /\ s \in bound' => s \in native'
                           /\ s \in native' /\ ~Spoilt(s)' => s \in bound' \/ Holders(s)' # {}
                      /\ dpc' # "idle" /\ Here' = s /\ ~Later(s)' =>
                           /\ dpc' = "add" => s \in native'
                           /\ dpc' = "remove" /\ s \in native' /\ ~Spoilt(s)' => Holders(s)' # {}
  BY DEF ShowAt
<1>2. s \notin blind /\ journaled[s] = Snapshot(s)
  BY <1>1 DEF Snapshot
<1>3. ~Spoilt(s)' => ~Spoilt(s)
  BY SpoiltStays
<1>4. s \in native' /\ ~Spoilt(s)' /\ Holders(s) # {} => Holders(s)' # {}
  BY HoldersStay
<1>q. QED BY <1>2, <1>3, <1>4 DEF ShowAt

LEMMA PutShow ==
  ASSUME Base, LastTells, [Next]_vars, NEW t \in Spots, NEW b \in BOOLEAN, Put(t, b),
         UNCHANGED <<bound, dpc>>
  PROVE  LastTells' /\ \A s \in Spots : ShowAt(s) => ShowAt(s)'
<1> DEFINE changed == (t \in native) # b
           old == IF ~b /\ journaled[t] = "current" THEN "back" ELSE journaled[t]
           new == IF b THEN "current" ELSE "absent"
<1>1. /\ native' = IF b THEN native \cup {t} ELSE native \ {t}
      /\ blind' = IF changed /\ journaled[t] # Snapshot(t) THEN blind \cup {t} ELSE blind
      /\ \/ /\ journaled' = [journaled EXCEPT ![t] = IF changed THEN old ELSE @]
            /\ UNCHANGED changes
         \/ /\ changed /\ journaled' = [journaled EXCEPT ![t] = new]
            /\ changes' = Append(changes, <<t, b>>)
  BY DEF Put
<1>2. journaled \in [Spots -> {"absent", "current", "back"}]
  BY DEF Base, Types, ThreemaTypes
<1>3. CASE UNCHANGED changes
  <2>1. journaled' = [journaled EXCEPT ![t] = IF changed THEN old ELSE @]
    <3>1. changes # Append(changes, <<t, b>>)
      <4> DEFINE e == <<t, b>>
      <4>1. e \in Spots \X BOOLEAN
        OBVIOUS
      <4> HIDE DEF e
      <4>2. changes' = Append(changes, e) => Len(changes') = Len(changes) + 1 /\ Len(changes) \in Nat
        BY <4>1, AppendChange DEF Base
      <4>q. QED BY <1>3, <4>2 DEF e
    <3>q. QED BY <1>1, <1>3, <3>1
  <2>2. LastTells'
    <3>1. journaled' = journaled \/ /\ journaled[t] = "current"
                                    /\ journaled' = [journaled EXCEPT ![t] = "back"]
      BY <1>2, <2>1
    <3>q. QED BY <1>3, <3>1, TellsSilent DEF Base
  <2>3. ASSUME NEW s \in Spots, ShowAt(s) PROVE ShowAt(s)'
    <3>1. Pending(s)' <=> Pending(s)
      BY <1>3 DEF Pending
    <3>2. Here' = Here /\ (Later(s)' <=> Later(s))
      BY <1>3 DEF Here, Later
    <3>3. CASE s # t \/ ~changed
      <4>1. (s \in native' <=> s \in native) /\ journaled'[s] = journaled[s]
            /\ (s \in blind => s \in blind')
        BY <1>1, <1>2, <2>1, <3>3
      <4>q. QED BY <2>3, <3>1, <3>2, <4>1, ShowRest
    <3>4. CASE s = t /\ changed
      <4>1. s \in blind' \/ journaled[s] = Snapshot(s)
        BY <1>1, <3>4
      <4>2. journaled[s] = Snapshot(s) => journaled'[s] # Snapshot(s)'
        BY <1>1, <1>2, <2>1, <3>4 DEF Snapshot
      <4>q. QED BY <4>1, <4>2 DEF ShowAt
    <3>q. QED BY <3>3, <3>4
  <2>q. QED BY <2>2, <2>3
<1>4. CASE /\ journaled' = [journaled EXCEPT ![t] = new]
           /\ changes' = Append(changes, <<t, b>>)
  <2>1. LastTells'
    BY <1>4, TellsRecorded DEF Base
  <2>2. /\ Pending(t)'
        /\ changes # <<>> => Later(t)'
        /\ \A s \in Spots \ {t} : (Pending(s)' <=> Pending(s)) /\ (Later(s) => Later(s)')
    BY <1>4, RecordedChange DEF Base
  <2>3. dpc' # "idle" => dpc' = dpc /\ changes # <<>> /\ Here' = Here
    <3> DEFINE e == <<t, b>>
    <3>1. e \in Spots \X BOOLEAN
      OBVIOUS
    <3>2. changes' = Append(changes, e)
      BY <1>4
    <3> HIDE DEF e
    <3>q. QED BY <3>1, <3>2, AppendKeepsHere DEF Base, DeliveryInv
  <2>4. ASSUME NEW s \in Spots, ShowAt(s) PROVE ShowAt(s)'
    <3>1. CASE s # t
      <4>1. (s \in native' <=> s \in native) /\ journaled'[s] = journaled[s]
            /\ (s \in blind => s \in blind')
        BY <1>1, <1>2, <1>4, <3>1
      <4>q. QED BY <2>2, <2>3, <2>4, <3>1, <4>1, ShowRest
    <3>2. CASE s = t
      BY <2>2, <2>3, <3>2 DEF ShowAt
    <3>q. QED BY <3>1, <3>2
  <2>q. QED BY <2>1, <2>4
<1>q. QED BY <1>1, <1>3, <1>4

LEMMA ScanShow ==
  ASSUME Base, LastTells, [Next]_vars, NEW t \in Spots, Scan(t)
  PROVE  LastTells' /\ \A s \in Spots : ShowAt(s) => ShowAt(s)'
<1>1. PICK b \in BOOLEAN : b <=> t \in native
  <2>1. (t \in native) \in BOOLEAN
    OBVIOUS
  <2>q. QED BY <2>1, Zenon
<1>2. /\ changes' = Append(changes, <<t, b>>) /\ UNCHANGED <<native, blind, bound, dpc>>
      /\ journaled' = [journaled EXCEPT ![t] = Snapshot(t)]
  <2>1. b = (t \in native)
    BY <1>1
  <2>2. changes' = Append(changes, <<t, t \in native>>)
    BY DEF Scan
  <2>3. changes' = Append(changes, <<t, b>>)
    BY <2>1, <2>2, Zenon
  <2>q. QED BY <2>3 DEF Scan, phoneVars
<1>3. LastTells'
  <2>1. Snapshot(t) \in {"current", "absent"} /\ (Snapshot(t) = "current" <=> b)
    BY <1>1 DEF Snapshot
  <2>q. QED BY <1>2, <2>1, TellsRecorded DEF Base
<1>4. /\ Pending(t)'
      /\ changes # <<>> => Later(t)'
      /\ \A s \in Spots \ {t} : (Pending(s)' <=> Pending(s)) /\ (Later(s) => Later(s)')
  BY <1>2, RecordedChange DEF Base
<1>5. dpc' # "idle" => dpc' = dpc /\ changes # <<>> /\ Here' = Here
  <2> DEFINE e == <<t, b>>
  <2>1. e \in Spots \X BOOLEAN
    OBVIOUS
  <2>2. changes' = Append(changes, e)
    BY <1>2
  <2> HIDE DEF e
  <2>q. QED BY <1>2, <2>1, <2>2, AppendKeepsHere DEF Base, DeliveryInv
<1>6. ASSUME NEW s \in Spots, ShowAt(s) PROVE ShowAt(s)'
  <2>1. CASE s # t
    <3>1. journaled'[s] = journaled[s]
      BY <1>2, <2>1 DEF Base, Types, ThreemaTypes
    <3>q. QED BY <1>2, <1>4, <1>5, <1>6, <2>1, <3>1, ShowRest
  <2>2. CASE s = t
    BY <1>4, <1>5, <2>2 DEF ShowAt
  <2>q. QED BY <2>1, <2>2
<1>q. QED BY <1>3, <1>6

(* The last change of a spot asks for what Threema says now. *)
LEMMA LastDesires ==
  ASSUME Types, LastTells, changes # <<>>, ~Later(Here), journaled[Here] = Snapshot(Here)
  PROVE  Desired <=> Here \in native
<1>1. Head(changes) = changes[1] /\ Here = changes[1][1] /\ Len(changes) \in Nat \ {0}
  BY FirstChange
<1>2. \A j \in (1 + 1)..Len(changes) : changes[j][1] # changes[1][1]
  BY <1>1 DEF Later
<1>3. changes[1][2] <=> journaled[Here] \in {"current", "back"}
  BY <1>1, <1>2 DEF LastTells
<1>4. Head(changes)[2] <=> Here \in native
  BY <1>1, <1>3 DEF Snapshot
<1>q. QED BY <1>4 DEF Desired

LEMMA DeliveryShow ==
  ASSUME Base, LastTells, [Next]_vars, DeliveryStep
  PROVE  LastTells' /\ \A s \in Spots : ShowAt(s) => ShowAt(s)'
<1>1. changes # <<>> /\ UNCHANGED <<native, blind, journaled>>
  BY DEF DeliveryStep, Reconcile, Effect, Project, AnswerLost, Base, DeliveryInv, phoneVars
<1>2. changes' = changes \/ (changes' = Tail(changes) /\ dpc' = "idle")
  BY DEF DeliveryStep, Reconcile, Effect, Project, AnswerLost, Delivered
<1>3. LastTells'
  <2>1. CASE changes' = changes
    BY <1>1, <2>1 DEF LastTells
  <2>2. CASE changes' = Tail(changes)
    BY <1>1, <2>2, TellsDropped DEF Base
  <2>q. QED BY <1>2, <2>1, <2>2
<1>4. \A s \in Spots \ {Here} : s \in bound' <=> s \in bound
  BY DEF DeliveryStep, Reconcile, Effect, Project, AnswerLost
<1>5. ASSUME NEW s \in Spots \ {Here}, ShowAt(s) PROVE ShowAt(s)'
  <2>1. CASE changes' = changes
    <3>1. Here' = Here /\ (Pending(s)' <=> Pending(s))
      BY <2>1 DEF Here, Pending
    <3>q. QED BY <1>1, <1>4, <1>5, <3>1, ShowRest
  <2>2. CASE changes' = Tail(changes) /\ dpc' = "idle"
    <3>1. Pending(s)' <=> Pending(s)
      BY <1>1, <1>5, <2>2, DroppedChange DEF Base
    <3>q. QED BY <1>1, <1>4, <1>5, <2>2, <3>1, ShowRest
  <2>q. QED BY <1>2, <2>1, <2>2
<1>6. ASSUME NEW s \in Spots, s = Here, ShowAt(s) PROVE ShowAt(s)'
  <2>1. SUFFICES ASSUME s \notin blind, journaled[s] = Snapshot(s) PROVE ShowAt(s)'
    <3>1. Snapshot(s)' = Snapshot(s) /\ journaled'[s] = journaled[s] /\ blind' = blind
      BY <1>1 DEF Snapshot
    <3>q. QED BY <3>1 DEF ShowAt
  <2>2. ~Spoilt(s)' => ~Spoilt(s)
    BY SpoiltStays
  <2>3. s \in native /\ ~Spoilt(s)' /\ Holders(s) # {} => Holders(s)' # {}
    BY <1>1, HoldersStay
  <2>4. ActiveRefs(s) # {} => Holders(s) # {}
    BY ActiveHolds
  <2>5. ~Later(s) => (Desired <=> s \in native)
    BY <1>1, <1>6, <2>1, LastDesires DEF Base
  <2>6. changes' = Tail(changes) => (Pending(s)' <=> Later(s))
    BY <1>1, DroppedChange DEF Base
  <2>7. changes' = changes => Pending(s)' /\ (Later(s)' <=> Later(s))
    <3>1. Pending(s)
      BY <1>1, <1>6, FirstChange DEF Base, Pending
    <3>q. QED BY <3>1 DEF Pending, Later
  <2>8. ASSUME Reconcile, Decision = "nothing" PROVE ShowAt(s)'
    <3>1. changes' = Tail(changes) /\ dpc' = "idle" /\ bound' = bound
      BY <2>8 DEF Reconcile, Delivered
    <3>2. ~Later(s) => /\ s \in bound => s \in native
                       /\ s \in native => s \in bound \/ ActiveRefs(s) # {}
      BY <1>6, <2>5, <2>8 DEF Decision
    <3>3. s \in native' <=> s \in native
      BY <1>1
    <3>q. QED BY <2>3, <2>4, <2>6, <3>1, <3>2, <3>3 DEF ShowAt
  <2>9. ASSUME Reconcile, Decision # "nothing" PROVE ShowAt(s)'
    <3>1. changes' = changes /\ dpc' = Decision
      BY <2>9 DEF Reconcile
    <3>2. ~Later(s) => /\ Decision = "add" => s \in native
                       /\ Decision = "remove" /\ s \in native => ActiveRefs(s) # {}
      BY <1>6, <2>5 DEF Decision
    <3>3. s \in native' <=> s \in native
      BY <1>1
    <3>q. QED BY <2>3, <2>4, <2>7, <3>1, <3>2, <3>3 DEF ShowAt
  <2>10. CASE Project
    <3>1. changes' = Tail(changes) /\ dpc' = "idle" /\ dpc \in {"add", "remove"}
      BY <2>10 DEF Project, Delivered, Base, Types, ShowTypes
    <3>2. ~Later(s) => /\ dpc = "add" => s \in native
                       /\ dpc = "remove" /\ s \in native /\ ~Spoilt(s) => Holders(s) # {}
      BY <1>6, <2>1, <3>1 DEF ShowAt
    <3>3. (dpc = "add" => s \in bound') /\ (dpc = "remove" => s \notin bound')
      BY <1>6, <2>10 DEF Project
    <3>4. s \in native' <=> s \in native
      BY <1>1
    <3>q. QED BY <2>2, <2>3, <2>6, <3>1, <3>2, <3>3, <3>4 DEF ShowAt
  <2>11. CASE AnswerLost
    <3>1. changes' = changes /\ dpc' = "idle"
      BY <2>11 DEF AnswerLost
    <3>q. QED BY <2>7, <3>1 DEF ShowAt
  <2>12. CASE Effect
    <3>1. UNCHANGED <<changes, dpc, bound>>
      BY <2>12 DEF Effect
    <3>2. Here' = Here /\ (Pending(s)' <=> Pending(s)) /\ (Later(s)' <=> Later(s))
      BY <3>1 DEF Here, Pending, Later
    <3>q. QED BY <1>1, <1>6, <3>1, <3>2, ShowRest
  <2>q. QED BY <2>8, <2>9, <2>10, <2>11, <2>12 DEF DeliveryStep
<1>q. QED BY <1>3, <1>5, <1>6

LEMMA ShowInit == Init => ShowInv
<1> SUFFICES ASSUME Init PROVE ShowInv
  OBVIOUS
<1>1. changes = <<>> /\ Len(changes) = 0
  BY DEF Init
<1>2. LastTells
  BY <1>1 DEF LastTells
<1>3. ASSUME NEW s \in Spots PROVE ShowAt(s)
  BY DEF Init, ShowAt
<1>q. QED BY <1>2, <1>3 DEF ShowInv

LEMMA ShowNext == Base /\ ShowInv /\ [Next]_vars => ShowInv'
<1> SUFFICES ASSUME Base, ShowInv, [Next]_vars PROVE ShowInv'
  OBVIOUS
<1>0. LastTells /\ \A s \in Spots : ShowAt(s)
  BY DEF ShowInv
<1>1. CASE UNCHANGED <<phoneVars, changes, journaled, bound>> /\ (dpc' = dpc \/ dpc' = "idle")
  <2>1. LastTells'
    BY <1>0, <1>1 DEF LastTells
  <2>2. \A s \in Spots : (Pending(s)' <=> Pending(s)) /\ (Later(s)' <=> Later(s))
    BY <1>1 DEF Pending, Later
  <2>3. Here' = Here /\ UNCHANGED <<native, blind>>
    BY <1>1 DEF Here, phoneVars
  <2>4. ASSUME NEW s \in Spots PROVE ShowAt(s)'
    BY <1>0, <1>1, <2>2, <2>3, ShowRest
  <2>q. QED BY <2>1, <2>4 DEF ShowInv
<1>2. CASE NativeReact
  <2>1. callOf[2] \in Spots /\ UNCHANGED <<bound, dpc>>
    BY <1>2, CallTypes DEF NativeReact, Base
  <2>2. Put(callOf[2], callOf[1] \in Applies) /\ (callOf[1] \in Applies) \in BOOLEAN
    BY <1>2 DEF NativeReact
  <2>3. LastTells' /\ \A s \in Spots : ShowAt(s) => ShowAt(s)'
    BY <1>0, <2>1, <2>2, PutShow
  <2>q. QED BY <1>0, <2>3 DEF ShowInv
<1>3. ASSUME NEW t \in Spots, PhoneMove(t) PROVE ShowInv'
  <2>1. Put(t, t \notin native) /\ (t \notin native) \in BOOLEAN /\ UNCHANGED <<bound, dpc>>
    BY <1>3 DEF PhoneMove
  <2>2. LastTells' /\ \A s \in Spots : ShowAt(s) => ShowAt(s)'
    BY <1>0, <2>1, PutShow
  <2>q. QED BY <1>0, <2>2 DEF ShowInv
<1>4. ASSUME NEW t \in Spots, Scan(t) PROVE ShowInv'
  BY <1>0, <1>4, ScanShow DEF ShowInv
<1>5. CASE DeliveryStep
  BY <1>0, <1>5, DeliveryShow DEF ShowInv
<1>6. CASE Crash
  BY <1>1, <1>6 DEF Crash
<1>7. CASE UNCHANGED <<phoneVars, showVars>>
  BY <1>1, <1>7 DEF showVars
<1>8. CASE UNCHANGED vars
  BY <1>7, <1>8 DEF vars
<1>q. QED BY <1>2, <1>3, <1>4, <1>5, <1>6, <1>7, <1>8, QuietSteps

(* When everything about a spot is delivered and settled, its emoji in     *)
(* Threema has a source in the room, and a bound event an emoji.           *)
THEOREM QuietAgreesAlways == Spec => []QuietAgrees
<1>1. Init => Base /\ ShowInv
  BY BaseInit, ShowInit
<1>2. Base /\ ShowInv /\ [Next]_vars => (Base /\ ShowInv)'
  BY BaseNext, ShowNext
<1>3. Base /\ ShowInv => QuietAgrees
  <2> SUFFICES ASSUME Base, ShowInv, NEW s \in Spots \ blind, Quiet(s) PROVE Agrees(s)
    BY DEF QuietAgrees
  <2>1. ~Pending(s) /\ journaled[s] = Snapshot(s)
    BY DEF Quiet, Pending
  <2>2. ~Spoilt(s)
    <3>1. \A o \in Ops : state[o][s] # "REJECTED"
      BY DEF Quiet
    <3>2. ASSUME NEW a \in Applies, s \in Covers[a], retired[a] # "no", NEW t \in Covers[a]
          PROVE  ~(Rank[s] < Rank[t])
      <4>1. Rank[t] <= Rank[s]
        BY <3>2 DEF Quiet
      <4>2. Rank[t] \in Nat /\ Rank[s] \in Nat
        BY ReactionAssumption DEF Ops
      <4>q. QED BY <4>1, <4>2
    <3>q. QED BY <3>1, <3>2 DEF Spoilt
  <2>3. ASSUME NEW h \in Holders(s) PROVE h \in ActiveRefs(s)
    <3>1. \A w \in Withdraws : TargetOf[w] = h => ~(seq[h] < seq[w])
      <4>1. SUFFICES ASSUME NEW w \in Withdraws, TargetOf[w] = h, seq[h] < seq[w] PROVE FALSE
        OBVIOUS
      <4>2. w \in Ops /\ h \in Ops /\ Covers[w] = Covers[h] /\ s \in Covers[h]
        BY <4>1, ReactionAssumption DEF Holders, Counts, Ops
      <4>3. seq[w] # 0
        BY <4>1, <4>2 DEF Base, Types, RowTypes
      <4>4. state[w][s] = "SENT"
        BY <4>2, <4>3 DEF Base, Numbered, Quiet
      <4>q. QED BY <4>1, <4>4 DEF Holders, TakenBack
    <3>q. QED BY <3>1 DEF Holders, ActiveRefs
  <2>q. QED BY <2>1, <2>2, <2>3 DEF ShowInv, ShowAt, Agrees
<1>q. QED BY <1>1, <1>2, <1>3, PTL DEF Spec
=============================================================================
