-------------------------- MODULE MutationsProofs --------------------------
(***************************************************************************)
(* Proofs about Mutations, for any number of messages, chats and changes.  *)
(*                                                                         *)
(* CarriedOnce rests on who may have a call under way: with a backend that *)
(* is up only the dispatcher that waits for it, and nobody once the thread *)
(* is gone, so an operation is never claimed while a call of it is left.   *)
(* NothingLeft rests on beginDeletion, which does not pass a plan: what    *)
(* the homeserver accepted without a record still has its plan.            *)
(* OwnersLastWord rests on one order kept throughout: of the room, of the  *)
(* queue and of what is settled; two operations of a chat never fly        *)
(* together.                                                               *)
(* QuietAgrees rests on two invariants: TrailInv, of what the waiting      *)
(* changes of a message say of it, and RoomInv, by which the room shows    *)
(* the content, or what the owner did last and Threema has yet to do.      *)
(***************************************************************************)
EXTENDS Mutations, SequenceTheorems, TLAPS

Flying == {"DISPATCHING", "OUTCOME_UNKNOWN"}

RuntimeTypes ==
  /\ posted \in Seq(Ops) /\ queue \in Seq(Ops) /\ noticed \in SUBSET Ops
  /\ state \in [Ops -> {"absent", "refused", "PREPARED", "DISPATCHING", "APPLIED",
                        "OUTCOME_UNKNOWN", "REJECTED"}]
  /\ pc \in {"stopped", "ingress", "recover", "dispatch", "notices", "check",
             "asked", "claimed", "mutate"}
  /\ op \in Ops \cup {None} /\ excluded \in SUBSET Chats /\ already \in BOOLEAN
  /\ backend \in {"up", "dying", "down"}
  /\ call \in {"idle", "requested", "done", "rejected", "failed"}
  /\ callOf \in Ops \cup {None}

ThreemaTypes ==
  /\ native \in [Messages -> Texts \cup {"deleted"}]
  /\ moves \in 0..MaxMoves /\ carried \in [Ops -> Nat]
  /\ touched \in SUBSET Messages /\ lost \in SUBSET Messages
  /\ stale \in SUBSET Messages

(* Where the dispatcher and the thread can be with an operation. *)
WorkerInv ==
  /\ pc \in {"check", "asked", "claimed", "mutate"} => op \in Ops
  /\ pc \in {"claimed", "mutate"} => state[op] = "DISPATCHING"
  /\ pc = "claimed" => carried[op] = 0 /\ (call # "idle" => callOf # op)
  /\ pc = "stopped" => backend = "down"
  /\ backend = "down" => call = "idle"
  /\ backend = "up" /\ call # "idle" => pc = "mutate" /\ callOf = op
  /\ call # "idle" => callOf \in Ops /\ state[callOf] \in Flying
  /\ call \in {"requested", "rejected"} => carried[callOf] = 0

Once ==
  \A o \in Ops :
    /\ carried[o] <= 1
    /\ state[o] \in {"absent", "refused", "PREPARED", "REJECTED"} => carried[o] = 0

RuntimeInv == RuntimeTypes /\ ThreemaTypes /\ WorkerInv /\ Once

ShowTypes ==
  /\ shown \in [Messages -> Texts \cup {"gone"}]
  /\ changes \in Seq(Messages \X (Texts \cup {"deleted"}))
  /\ dpc \in {"idle", "deliver", "send", "sent", "redact"}
  /\ latest \in [Messages -> Texts \cup {None, "root"}]
  /\ plan \in [Messages -> {"none", "current", "earlier"}]
  /\ accepted \in SUBSET Messages /\ versions \in [Messages -> Nat]
  /\ deletion \in [Messages -> {"no", "begun", "done"}]

(* What a delivery under way is about. *)
DeliveryInv ==
  /\ dpc # "idle" => changes # <<>>
  /\ dpc \in {"deliver", "send", "sent"} => Content # "deleted"
  /\ dpc \in {"send", "sent"} => plan[Here] = "current"
  /\ dpc = "redact" => deletion[Here] = "begun"

(* What is visible of a message is recorded, or has its plan; a deletion   *)
(* has begun only where there is no plan.                                  *)
Recordings ==
  \A m \in Messages :
    /\ m \in accepted => plan[m] # "none"
    /\ deletion[m] # "no" => plan[m] = "none" /\ latest[m] # None
    /\ latest[m] # None /\ versions[m] = 0 => shown[m] = "gone"

ShowInv == ShowTypes /\ DeliveryInv /\ Recordings /\ NothingLeft

LEMMA MutationTypes ==
  MutationTypeOK <=> RuntimeTypes /\ ThreemaTypes /\ ShowTypes
BY DEF MutationTypeOK, RuntimeTypes, ThreemaTypes, ShowTypes

(* Appending changes neither the first change nor the ones before. *)
LEMMA AppendKeepsHead ==
  ASSUME NEW S, NEW s \in Seq(S), NEW e \in S
  PROVE  /\ Append(s, e) \in Seq(S) /\ Append(s, e) # <<>>
         /\ s # <<>> => Head(Append(s, e)) = Head(s)
<1>1. Append(s, e) \in Seq(S) /\ Append(s, e) # <<>>
  BY AppendProperties
<1>2. ASSUME s # <<>> PROVE Head(Append(s, e)) = Head(s)
  <2>1. Len(s) \in Nat \ {0}
    BY <1>2, EmptySeq
  <2>2. Append(s, e)[1] = s[1]
    BY <2>1, AppendProperties
  <2>q. QED BY <2>2
<1>q. QED BY <1>1, <1>2

-----------------------------------------------------------------------------
(* The runtime and Threema.                                                *)

LEMMA RuntimeInitially == Init => RuntimeInv
<1> SUFFICES ASSUME Init PROVE RuntimeInv OBVIOUS
<1>1. RuntimeTypes
  BY EmptySeq DEF Init, RuntimeTypes
<1>2. ThreemaTypes
  BY MutationAssumption DEF Init, ThreemaTypes
<1>3. WorkerInv /\ Once
  BY DEF Init, WorkerInv, Once
<1>q. QED BY <1>1, <1>2, <1>3 DEF RuntimeInv

(* The owner, the ingress, the phases that do not dispatch, and the process. *)
LEMMA JournalKeepsRuntime ==
  ASSUME RuntimeInv,
         \/ \E o \in Ops : Post(o) \/ Prepare(o) \/ Refuse(o) \/ RecoverOp(o) \/ Notice(o)
         \/ Start \/ Crash \/ EndPhase
  PROVE  RuntimeInv'
<1> USE DEF RuntimeInv, rowVars, workVars, threadVars, phoneVars
<1>1. ASSUME NEW o \in Ops, Post(o) PROVE RuntimeInv'
  <2>1. posted' \in Seq(Ops)
    BY <1>1, AppendProperties DEF Post, RuntimeTypes
  <2>q. QED BY <1>1, <2>1 DEF Post, RuntimeTypes, ThreemaTypes, WorkerInv, Once
<1>2. ASSUME NEW o \in Ops, Prepare(o) PROVE RuntimeInv'
  <2>1. queue' \in Seq(Ops) /\ state[o] = "absent" /\ state' = [state EXCEPT ![o] = "PREPARED"]
    BY <1>2, AppendProperties DEF Prepare, Planned, Classifiable, RuntimeTypes
  <2>2. UNCHANGED <<posted, noticed, workVars, threadVars, phoneVars>> /\ pc = "ingress"
    BY <1>2 DEF Prepare, roomVars
  <2>q. QED BY <2>1, <2>2 DEF RuntimeTypes, ThreemaTypes, WorkerInv, Once, Flying
<1>3. ASSUME NEW o \in Ops, Refuse(o) PROVE RuntimeInv'
  <2>1. state[o] = "absent" /\ state' = [state EXCEPT ![o] = "refused"]
    BY <1>3 DEF Refuse, Classifiable
  <2>2. UNCHANGED <<posted, queue, noticed, workVars, threadVars, phoneVars>> /\ pc = "ingress"
    BY <1>3 DEF Refuse, roomVars
  <2>q. QED BY <2>1, <2>2 DEF RuntimeTypes, ThreemaTypes, WorkerInv, Once, Flying
<1>4. ASSUME NEW o \in Ops, RecoverOp(o) PROVE RuntimeInv'
  <2>1. state[o] = "OUTCOME_UNKNOWN" /\ state' = [state EXCEPT ![o] = "APPLIED"]
        /\ pc = "recover" /\ backend = "up"
    BY <1>4 DEF RecoverOp, Observed, Uncertain
  <2>2. UNCHANGED <<posted, queue, noticed, workVars, threadVars, phoneVars>>
    BY <1>4 DEF RecoverOp, roomVars
  <2>3. call = "idle"
    BY <2>1 DEF WorkerInv, RuntimeTypes
  <2>q. QED BY <2>1, <2>2, <2>3 DEF RuntimeTypes, ThreemaTypes, WorkerInv, Once, Flying
<1>5. ASSUME NEW o \in Ops, Notice(o) PROVE RuntimeInv'
  BY <1>5 DEF Notice, AcknowledgeFailure, roomVars, RuntimeTypes, ThreemaTypes, WorkerInv, Once
<1>6. CASE Start
  <2>1. pc = "stopped" /\ backend = "down" /\ call = "idle"
    BY <1>6 DEF Start, WorkerInv
  <2>2. state' \in [Ops -> {"absent", "refused", "PREPARED", "DISPATCHING", "APPLIED",
                            "OUTCOME_UNKNOWN", "REJECTED"}]
        /\ \A p \in Ops : state'[p] = state[p] \/ state'[p] = "OUTCOME_UNKNOWN"
    BY <1>6 DEF Start, Recovered, RuntimeTypes
  <2>3. UNCHANGED <<posted, queue, noticed, op, excluded, already, call, callOf, phoneVars>>
        /\ pc' = "ingress" /\ backend' = "up"
    BY <1>6 DEF Start, roomVars
  <2>q. QED BY <2>1, <2>2, <2>3 DEF RuntimeTypes, ThreemaTypes, WorkerInv, Once
<1>7. CASE Crash
  BY <1>7 DEF Crash, roomVars, RuntimeTypes, ThreemaTypes, WorkerInv, Once
<1>8. CASE EndPhase
  <2>1. /\ pc \in {"ingress", "recover", "dispatch", "notices"}
        /\ pc' \in {"ingress", "recover", "dispatch", "notices"}
    BY <1>8 DEF EndPhase, Phases
  <2>2. UNCHANGED <<posted, rowVars, op, already, threadVars, phoneVars>> /\ excluded' = {}
    BY <1>8 DEF EndPhase, roomVars
  <2>q. QED BY <2>1, <2>2 DEF RuntimeTypes, ThreemaTypes, WorkerInv, Once
<1>q. QED BY <1>1, <1>2, <1>3, <1>4, <1>5, <1>6, <1>7, <1>8

(* The dispatcher. *)
LEMMA DispatchKeepsRuntime ==
  ASSUME RuntimeInv, DispatchStep \/ \E o \in Ops : Pick(o)
  PROVE  RuntimeInv'
<1> USE DEF RuntimeInv, roomVars, rowVars, workVars, threadVars, phoneVars
<1>a. pc \in {"check", "asked", "claimed", "mutate"} => op \in Ops /\ ChatOf[MessageOf[op]] \in Chats
  BY MutationAssumption DEF WorkerInv
<1>1. ASSUME NEW o \in Ops, Pick(o) PROVE RuntimeInv'
  <2>1. pc = "dispatch" /\ pc' = "check" /\ op' = o /\ already' = FALSE
        /\ UNCHANGED <<posted, rowVars, excluded, threadVars, phoneVars>>
    BY <1>1 DEF Pick
  <2>q. QED BY <2>1 DEF RuntimeTypes, ThreemaTypes, WorkerInv, Once
<1>2. CASE AskDeleted
  <2>1. already' \in BOOLEAN
    BY <1>2 DEF AskDeleted, Holds
  <2>q. QED BY <1>2, <2>1 DEF AskDeleted, RuntimeTypes, ThreemaTypes, WorkerInv, Once
<1>3. CASE CheckFails
  BY <1>a, <1>3 DEF CheckFails, Shunned, Over, RuntimeTypes, ThreemaTypes, WorkerInv, Once
<1>4. CASE Claim
  <2>1. state[op] = "PREPARED" /\ op \in Ops /\ pc \in {"asked", "check"}
    BY <1>4 DEF Claim, NextOp, Candidate, WorkerInv
  <2>2. state' = [state EXCEPT ![op] = "DISPATCHING"] /\ pc' = "claimed"
        /\ UNCHANGED <<posted, queue, noticed, op, excluded, already, threadVars, phoneVars>>
    BY <1>4 DEF Claim
  <2>q. QED BY <2>1, <2>2 DEF RuntimeTypes, ThreemaTypes, WorkerInv, Once, Flying
<1>5. CASE AlreadyDeleted
  <2>1. pc = "claimed" /\ op \in Ops /\ state[op] = "DISPATCHING" /\ (call # "idle" => callOf # op)
    BY <1>5 DEF AlreadyDeleted, WorkerInv
  <2>2. state' = [state EXCEPT ![op] = "APPLIED"] /\ pc' = "dispatch" /\ op' = None
        /\ UNCHANGED <<posted, queue, noticed, excluded, already, threadVars, phoneVars>>
    BY <1>5 DEF AlreadyDeleted, Over
  <2>q. QED BY <2>1, <2>2 DEF RuntimeTypes, ThreemaTypes, WorkerInv, Once, Flying
<1>6. CASE SendMutation
  <2>1. pc = "claimed" /\ op \in Ops /\ state[op] = "DISPATCHING" /\ carried[op] = 0
    BY <1>6 DEF SendMutation, WorkerInv
  <2>2. /\ pc' = "mutate"
        /\ IF backend = "up" THEN call' = "requested" /\ callOf' = op ELSE UNCHANGED <<call, callOf>>
        /\ UNCHANGED <<posted, rowVars, op, excluded, already, backend, phoneVars>>
    BY <1>6 DEF SendMutation
  <2>q. QED BY <2>1, <2>2 DEF RuntimeTypes, ThreemaTypes, WorkerInv, Once, Flying
<1>7. ASSUME NEW result \in {"done", "rejected", "failed"},
             NEW to \in {"APPLIED", "REJECTED", "OUTCOME_UNKNOWN"},
             to = "REJECTED" => result = "rejected",
             Outcome(result, to), excluded' \in SUBSET Chats
      PROVE  RuntimeInv'
  <2>1. callOf = op /\ op \in Ops /\ state[op] = "DISPATCHING"
        /\ (to = "REJECTED" => carried[op] = 0)
    BY <1>7 DEF Outcome, WorkerInv
  <2>2. state' = [state EXCEPT ![op] = to] /\ call' = "idle" /\ callOf' = None
        /\ pc' = "dispatch" /\ op' = None
        /\ UNCHANGED <<posted, queue, noticed, already, backend, phoneVars>>
    BY <1>7 DEF Outcome, Over
  <2>q. QED BY <1>7, <2>1, <2>2 DEF RuntimeTypes, ThreemaTypes, WorkerInv, Once
<1>8. CASE MutateReturns \/ MutateRejected \/ MutateFails
  <2>1. CASE MutateReturns
    BY <1>7, <2>1 DEF MutateReturns, RuntimeTypes
  <2>2. CASE MutateRejected
    BY <1>7, <2>2 DEF MutateRejected, RuntimeTypes
  <2>3. CASE MutateFails
    <3>1. excluded' \in SUBSET Chats
      BY <1>a, <2>3 DEF MutateFails, Outcome, Shunned, RuntimeTypes
    <3>q. QED BY <1>7, <2>3, <3>1 DEF MutateFails
  <2>q. QED BY <1>8, <2>1, <2>2, <2>3
<1>9. CASE MutateAborted
  <2>1. op \in Ops /\ state[op] = "DISPATCHING" /\ backend # "up" /\ excluded' \in SUBSET Chats
    BY <1>a, <1>9 DEF MutateAborted, Shunned, WorkerInv, RuntimeTypes
  <2>2. state' = [state EXCEPT ![op] = "OUTCOME_UNKNOWN"] /\ pc' = "dispatch" /\ op' = None
        /\ UNCHANGED <<posted, queue, noticed, already, threadVars, phoneVars>>
    BY <1>9 DEF MutateAborted, Over
  <2>q. QED BY <2>1, <2>2 DEF RuntimeTypes, ThreemaTypes, WorkerInv, Once, Flying
<1>q. QED BY <1>1, <1>2, <1>3, <1>4, <1>5, <1>6, <1>8, <1>9 DEF DispatchStep

LEMMA BecomesTypes ==
  ASSUME ThreemaTypes, NEW m \in Messages, NEW content \in Texts \cup {"deleted"},
         Becomes(m, content)
  PROVE  /\ native' \in [Messages -> Texts \cup {"deleted"}] /\ native' = [native EXCEPT ![m] = content]
         /\ stale' \in SUBSET Messages /\ lost' \in SUBSET Messages
         /\ changes' = changes \/ changes' = Append(changes, <<m, content>>)
BY DEF Becomes, ThreemaTypes

(* The thread and Threema. *)
LEMMA ThreemaKeepsRuntime ==
  ASSUME RuntimeInv, ThreadStep \/ BackendDies \/ BackendTerminated \/ PhoneStep
  PROVE  RuntimeInv'
<1> USE DEF RuntimeInv, roomVars, rowVars, workVars, threadVars, phoneVars
<1>1. CASE NativeMutate
  <2>1. callOf \in Ops /\ carried[callOf] = 0 /\ state[callOf] \in Flying /\ MessageOf[callOf] \in Messages
    BY <1>1, MutationAssumption DEF NativeMutate, WorkerInv
  <2>2. /\ UNCHANGED <<posted, rowVars, workVars, backend, callOf, moves, touched>>
        /\ call = "requested" /\ call' \in {"done", "failed"} /\ backend # "down"
    BY <1>1 DEF NativeMutate
  <2>3. \/ UNCHANGED <<native, stale, lost, carried>>
        \/ /\ Becomes(MessageOf[callOf], IF callOf \in Deletes THEN "deleted" ELSE TextOf[callOf])
           /\ carried' = [carried EXCEPT ![callOf] = @ + 1]
    BY <1>1 DEF NativeMutate
  <2>4. ThreemaTypes'
    <3>1. CASE UNCHANGED <<native, stale, lost, carried>>
      BY <2>2, <3>1 DEF ThreemaTypes
    <3>2. CASE /\ Becomes(MessageOf[callOf], IF callOf \in Deletes THEN "deleted" ELSE TextOf[callOf])
               /\ carried' = [carried EXCEPT ![callOf] = @ + 1]
      <4>1. (IF callOf \in Deletes THEN "deleted" ELSE TextOf[callOf]) \in Texts \cup {"deleted"}
        BY <2>1, MutationAssumption DEF Ops
      <4>2. /\ native' \in [Messages -> Texts \cup {"deleted"}]
            /\ stale' \in SUBSET Messages /\ lost' \in SUBSET Messages
        BY <2>1, <3>2, <4>1, BecomesTypes
      <4>q. QED BY <2>1, <2>2, <3>2, <4>2 DEF ThreemaTypes
    <3>q. QED BY <2>3, <3>1, <3>2
  <2>5. Once' /\ WorkerInv'
    <3>1. \/ carried' = carried
          \/ carried' = [carried EXCEPT ![callOf] = 1]
      BY <2>1, <2>3
    <3>2. \A o \in Ops \ {callOf} : carried'[o] = carried[o]
      BY <3>1, <2>1 DEF ThreemaTypes
    <3>3. carried'[callOf] \in {0, 1}
      BY <3>1, <2>1 DEF ThreemaTypes
    <3>4. Once'
      BY <2>1, <2>2, <3>2, <3>3 DEF Once, Flying
    <3>5. pc = "claimed" => op # callOf
      BY <2>2 DEF WorkerInv
    <3>6. WorkerInv'
      BY <2>1, <2>2, <3>2, <3>5 DEF WorkerInv
    <3>q. QED BY <3>4, <3>6
  <2>q. QED BY <2>2, <2>4, <2>5 DEF RuntimeTypes
<1>2. CASE CallErrs
  BY <1>2 DEF CallErrs, RuntimeTypes, ThreemaTypes, WorkerInv, Once
<1>3. CASE BackendDies
  BY <1>3 DEF BackendDies, RuntimeTypes, ThreemaTypes, WorkerInv, Once
<1>4. CASE BackendTerminated
  BY <1>4 DEF BackendTerminated, RuntimeTypes, ThreemaTypes, WorkerInv, Once
<1>5. ASSUME NEW m \in Messages, Scan(m) PROVE RuntimeInv'
  <2>1. UNCHANGED <<posted, rowVars, workVars, threadVars, native, moves, carried, touched, lost>>
        /\ stale' \in SUBSET Messages
    BY <1>5 DEF Scan, ThreemaTypes
  <2>q. QED BY <2>1 DEF RuntimeTypes, ThreemaTypes, WorkerInv, Once
<1>6. ASSUME NEW m \in Messages, NEW c \in Texts \cup {"deleted"}, PhoneMove(m, c) PROVE RuntimeInv'
  <2>1. UNCHANGED <<posted, rowVars, workVars, threadVars, carried>>
    BY <1>6 DEF PhoneMove
  <2>2. ThreemaTypes'
    BY <1>6, BecomesTypes, MutationAssumption DEF PhoneMove, ThreemaTypes
  <2>q. QED BY <2>1, <2>2 DEF RuntimeTypes, WorkerInv, Once
<1>q. QED BY <1>1, <1>2, <1>3, <1>4, <1>5, <1>6 DEF ThreadStep, PhoneStep

(* Delivery to Matrix leaves all of it alone. *)
LEMMA DeliveryKeepsRuntime ==
  ASSUME RuntimeInv, DeliveryProgress \/ DeliveryFails \/ UNCHANGED vars
  PROVE  RuntimeInv'
<1>1. UNCHANGED <<posted, rowVars, workVars, threadVars, phoneVars>>
  BY DEF DeliveryProgress, Skip, BeginDelivery, PreparePlan, Accept, Finish, BeginDeletion,
         RedactVersion, FinishDeletion, DeliveryFails, vars, roomVars
<1>q. QED
  BY <1>1 DEF rowVars, workVars, threadVars, phoneVars, RuntimeInv, RuntimeTypes, ThreemaTypes,
              WorkerInv, Once

LEMMA RuntimeInductive == RuntimeInv /\ [Next]_vars => RuntimeInv'
<1> SUFFICES ASSUME RuntimeInv, [Next]_vars PROVE RuntimeInv' OBVIOUS
<1>q. QED
  BY JournalKeepsRuntime, DispatchKeepsRuntime, ThreemaKeepsRuntime, DeliveryKeepsRuntime
  DEF Next, DrainStep

-----------------------------------------------------------------------------
(* What Matrix shows.                                                      *)

LEMMA ShowInitially == Init => ShowInv
<1> SUFFICES ASSUME Init PROVE ShowInv OBVIOUS
<1>1. ShowTypes
  BY EmptySeq, MutationAssumption DEF Init, ShowTypes
<1>2. DeliveryInv /\ Recordings /\ NothingLeft
  BY DEF Init, DeliveryInv, Recordings, NothingLeft
<1>q. QED BY <1>1, <1>2 DEF ShowInv

(* The change under way, and the list without it. *)
LEMMA ChangeUnderWay ==
  ASSUME ShowTypes, changes # <<>>
  PROVE  /\ Here \in Messages /\ Content \in Texts \cup {"deleted"}
         /\ Tail(changes) \in Seq(Messages \X (Texts \cup {"deleted"}))
BY HeadTailProperties DEF ShowTypes, Here, Content

(* What a later change, of the owner or of Threema, does to what is shown. *)
LEMMA OthersKeepShown ==
  ASSUME ShowInv, UNCHANGED <<latest, plan, accepted, versions, deletion>>,
         shown' \in [Messages -> Texts \cup {"gone"}],
         \A m \in Messages : shown[m] = "gone" => shown'[m] = "gone",
         changes' = changes \/ \E e \in Messages \X (Texts \cup {"deleted"}) : changes' = Append(changes, e),
         dpc' \in {dpc, "idle"}
  PROVE  ShowInv'
<1>1. /\ changes' \in Seq(Messages \X (Texts \cup {"deleted"}))
      /\ changes # <<>> => changes' # <<>> /\ Head(changes') = Head(changes)
  <2>1. CASE changes' = changes
    BY <2>1 DEF ShowInv, ShowTypes
  <2>2. ASSUME NEW e \in Messages \X (Texts \cup {"deleted"}), changes' = Append(changes, e)
        PROVE  /\ changes' \in Seq(Messages \X (Texts \cup {"deleted"}))
               /\ changes # <<>> => changes' # <<>> /\ Head(changes') = Head(changes)
    <3>1. changes \in Seq(Messages \X (Texts \cup {"deleted"}))
      BY DEF ShowInv, ShowTypes
    <3>q. QED BY <2>2, <3>1, AppendKeepsHead
  <2>q. QED BY <2>1, <2>2
<1>2. changes # <<>> => Here' = Here /\ Content' = Content
  BY <1>1 DEF Here, Content
<1>3. ShowTypes'
  BY <1>1 DEF ShowInv, ShowTypes
<1>4. DeliveryInv'
  BY <1>1, <1>2 DEF ShowInv, DeliveryInv
<1>5. Recordings' /\ NothingLeft'
  BY DEF ShowInv, Recordings, NothingLeft
<1>q. QED BY <1>3, <1>4, <1>5 DEF ShowInv

(* The runtime and Threema: they show an edit of the owner, or add a change. *)
LEMMA RuntimeKeepsShow ==
  ASSUME ShowInv, RuntimeInv, RuntimeInv',
         \/ Start \/ Crash \/ DrainStep \/ ThreadStep \/ BackendDies \/ BackendTerminated
         \/ PhoneStep \/ DeliveryFails \/ UNCHANGED vars \/ \E o \in Ops : Post(o)
  PROVE  ShowInv'
<1> USE DEF showVars
<1>1. ASSUME NEW o \in Ops, Post(o) PROVE ShowInv'
  <2>1. /\ shown' \in [Messages -> Texts \cup {"gone"}]
        /\ \A m \in Messages : shown[m] = "gone" => shown'[m] = "gone"
    BY <1>1, MutationAssumption DEF Post, Ops, ShowInv, ShowTypes
  <2>q. QED BY <1>1, <2>1, OthersKeepShown DEF Post
<1>2. CASE NativeMutate
  <2>1. callOf \in Ops /\ MessageOf[callOf] \in Messages
    BY <1>2, MutationAssumption DEF NativeMutate, RuntimeInv, WorkerInv
  <2>2. (IF callOf \in Deletes THEN "deleted" ELSE TextOf[callOf]) \in Texts \cup {"deleted"}
    BY <2>1, MutationAssumption DEF Ops
  <2>3. changes' = changes \/ changes' = Append(changes,
          <<MessageOf[callOf], IF callOf \in Deletes THEN "deleted" ELSE TextOf[callOf]>>)
    BY <1>2 DEF NativeMutate, Becomes
  <2>q. QED BY <1>2, <2>1, <2>2, <2>3, OthersKeepShown DEF NativeMutate, roomVars, ShowInv, ShowTypes
<1>3. ASSUME NEW m \in Messages, NEW c \in Texts \cup {"deleted"}, Scan(m) \/ PhoneMove(m, c)
      PROVE  ShowInv'
  <2>1. native[m] \in Texts \cup {"deleted"}
    BY DEF RuntimeInv, ThreemaTypes
  <2>2. \/ changes' = changes \/ changes' = Append(changes, <<m, native[m]>>)
        \/ changes' = Append(changes, <<m, c>>)
    BY <1>3 DEF Scan, PhoneMove, Becomes
  <2>q. QED BY <1>3, <2>1, <2>2, OthersKeepShown DEF Scan, PhoneMove, roomVars, ShowInv, ShowTypes
<1>4. CASE \/ Start \/ Crash \/ DrainStep \/ CallErrs \/ BackendDies \/ BackendTerminated
           \/ DeliveryFails \/ UNCHANGED vars
  <2>1. UNCHANGED <<shown, changes, latest, plan, accepted, versions, deletion>> /\ dpc' \in {dpc, "idle"}
    BY <1>4 DEF Start, Crash, DrainStep, EndPhase, DispatchStep, AskDeleted, CheckFails, Claim,
                AlreadyDeleted, SendMutation, MutateReturns, MutateRejected, MutateFails, Outcome,
                MutateAborted, Prepare, Refuse, RecoverOp, Pick, Notice, CallErrs, BackendDies,
                BackendTerminated, DeliveryFails, vars, roomVars
  <2>q. QED BY <2>1, OthersKeepShown DEF ShowInv, ShowTypes
<1>5. ASSUME NEW m \in Messages, Scan(m) PROVE ShowInv'
  BY <1>3, <1>5
<1>q. QED BY <1>1, <1>2, <1>3, <1>4, <1>5 DEF ThreadStep, PhoneStep

(* The delivery of a change. *)
LEMMA DeliveryKeepsShow ==
  ASSUME ShowInv, DeliveryProgress PROVE ShowInv'
<1> USE DEF ShowInv
<1>1. /\ changes # <<>> /\ Here \in Messages /\ Content \in Texts \cup {"deleted"}
      /\ Tail(changes) \in Seq(Messages \X (Texts \cup {"deleted"}))
  <2>1. changes # <<>>
    BY DEF DeliveryProgress, Skip, BeginDelivery, PreparePlan, Accept, Finish, BeginDeletion,
           RedactVersion, FinishDeletion, DeliveryInv
  <2>q. QED BY <2>1, ChangeUnderWay
<1>2. changes' = changes => Here' = Here /\ Content' = Content
  BY DEF Here, Content
<1>4. CASE Skip
  <2>1. /\ UNCHANGED <<shown, accepted, deletion>> /\ dpc' = "idle" /\ changes' = Tail(changes)
        /\ plan' = [plan EXCEPT ![Here] = IF @ = "current" THEN "earlier" ELSE @]
    BY <1>4 DEF Skip, Delivered, roomVars
  <2>2. \/ UNCHANGED <<latest, versions>>
        \/ /\ latest[Here] = None /\ latest' = [latest EXCEPT ![Here] = "root"]
           /\ versions' = [versions EXCEPT ![Here] = 1]
    BY <1>4 DEF Skip, Bound
  <2>3. ShowTypes' /\ DeliveryInv'
    BY <1>1, <2>1, <2>2 DEF ShowTypes, DeliveryInv
  <2>4. Recordings' /\ NothingLeft'
    BY <1>1, <2>1, <2>2, MutationAssumption DEF ShowTypes, Recordings, NothingLeft
  <2>q. QED BY <2>3, <2>4
<1>5. CASE BeginDelivery
  <2>1. /\ UNCHANGED <<shown, changes, plan, accepted, deletion>> /\ dpc' = "deliver"
        /\ Content # "deleted"
    BY <1>5 DEF BeginDelivery, roomVars
  <2>2. \/ UNCHANGED <<latest, versions>>
        \/ /\ latest[Here] = None /\ latest' = [latest EXCEPT ![Here] = "root"]
           /\ versions' = [versions EXCEPT ![Here] = 1]
    BY <1>5 DEF BeginDelivery, Bound
  <2>q. QED BY <1>1, <1>2, <2>1, <2>2 DEF ShowTypes, DeliveryInv, Recordings, NothingLeft
<1>6. CASE PreparePlan
  <2>1. /\ dpc = "deliver" /\ deletion[Here] = "no" /\ plan[Here] # "earlier"
        /\ UNCHANGED <<shown, latest, accepted, versions, deletion>>
    BY <1>6 DEF PreparePlan, roomVars
  <2>2. \/ Delivered
        \/ plan' = [plan EXCEPT ![Here] = "current"] /\ dpc' = "send" /\ UNCHANGED changes
    BY <1>6 DEF PreparePlan
  <2>3. CASE Delivered
    BY <1>1, <2>1, <2>3 DEF Delivered, ShowTypes, DeliveryInv, Recordings, NothingLeft
  <2>4. CASE plan' = [plan EXCEPT ![Here] = "current"] /\ dpc' = "send" /\ UNCHANGED changes
    BY <1>1, <1>2, <2>1, <2>4 DEF ShowTypes, DeliveryInv, Recordings, NothingLeft
  <2>q. QED BY <2>2, <2>3, <2>4
<1>7. CASE Accept
  <2>1. /\ dpc = "send" /\ dpc' = "sent" /\ accepted' = accepted \cup {Here}
        /\ UNCHANGED <<changes, latest, plan, versions, deletion>>
        /\ plan[Here] = "current" /\ Content # "deleted"
    BY <1>7 DEF Accept, DeliveryInv
  <2>2. /\ shown' \in [Messages -> Texts \cup {"gone"}]
        /\ \A m \in Messages : shown[m] = "gone" => shown'[m] = "gone"
    BY <1>1, <1>7, <2>1 DEF Accept, ShowTypes
  <2>q. QED BY <1>1, <1>2, <2>1, <2>2 DEF ShowTypes, DeliveryInv, Recordings, NothingLeft
<1>8. CASE Finish
  <2>1. /\ dpc = "sent" /\ plan[Here] = "current" /\ Content \in Texts
        /\ latest' = [latest EXCEPT ![Here] = Content]
        /\ versions' = [versions EXCEPT ![Here] = @ + 1]
        /\ plan' = [plan EXCEPT ![Here] = "none"] /\ accepted' = accepted \ {Here}
        /\ changes' = Tail(changes) /\ dpc' = "idle" /\ UNCHANGED <<shown, deletion>>
    BY <1>1, <1>8 DEF Finish, DeliveryInv, roomVars
  <2>2. deletion[Here] = "no"
    BY <1>1, <2>1 DEF Recordings, ShowTypes
  <2>q. QED BY <1>1, <2>1, <2>2 DEF ShowTypes, DeliveryInv, Recordings, NothingLeft
<1>9. CASE BeginDeletion
  <2>1. /\ UNCHANGED <<shown, changes, plan, accepted>> /\ dpc' = "redact"
        /\ plan[Here] = "none" /\ deletion[Here] # "done"
        /\ deletion' = [deletion EXCEPT ![Here] = "begun"]
    BY <1>9 DEF BeginDeletion, MayBegin, roomVars
  <2>2. \/ latest[Here] # None /\ UNCHANGED <<latest, versions>>
        \/ /\ latest[Here] = None /\ latest' = [latest EXCEPT ![Here] = "root"]
           /\ versions' = [versions EXCEPT ![Here] = 1]
    BY <1>9 DEF BeginDeletion, Bound
  <2>3. ShowTypes'
    <3>1. latest' \in [Messages -> Texts \cup {None, "root"}] /\ versions' \in [Messages -> Nat]
      <4>1. CASE UNCHANGED <<latest, versions>>
        BY <4>1 DEF ShowTypes
      <4>2. CASE latest' = [latest EXCEPT ![Here] = "root"] /\ versions' = [versions EXCEPT ![Here] = 1]
        BY <4>2 DEF ShowTypes
      <4>q. QED BY <2>2, <4>1, <4>2
    <3>2. deletion' \in [Messages -> {"no", "begun", "done"}] /\ dpc' = "redact"
      BY <2>1 DEF ShowTypes
    <3>q. QED BY <2>1, <3>1, <3>2 DEF ShowTypes
  <2>5. ASSUME NEW m \in Messages PROVE
          /\ m \in accepted' => plan'[m] # "none"
          /\ deletion'[m] # "no" => plan'[m] = "none" /\ latest'[m] # None
          /\ latest'[m] # None /\ versions'[m] = 0 => shown'[m] = "gone"
          /\ deletion'[m] = "done" => m \notin accepted' /\ versions'[m] = 0 /\ shown'[m] = "gone"
    <3>1. CASE m = Here
      BY <1>1, <2>1, <2>2, <3>1, MutationAssumption DEF ShowTypes, Recordings
    <3>2. CASE m # Here
      <4>1. /\ deletion'[m] = deletion[m] /\ latest'[m] = latest[m] /\ versions'[m] = versions[m]
        BY <1>1, <2>1, <2>2, <3>2 DEF ShowTypes
      <4>q. QED BY <2>1, <4>1 DEF Recordings, NothingLeft
    <3>q. QED BY <3>1, <3>2
  <2>4. DeliveryInv'
    BY <1>1, <1>2, <2>1 DEF ShowTypes, DeliveryInv
  <2>q. QED BY <2>3, <2>4, <2>5 DEF Recordings, NothingLeft
<1>10. CASE RedactVersion
  <2>1. /\ dpc = "redact" /\ versions[Here] \in Nat \ {0} /\ deletion[Here] = "begun"
        /\ versions' = [versions EXCEPT ![Here] = @ - 1]
        /\ shown' = IF versions[Here] = 1 THEN [shown EXCEPT ![Here] = "gone"] ELSE shown
        /\ UNCHANGED <<changes, dpc, latest, plan, accepted, deletion>>
    BY <1>1, <1>10 DEF RedactVersion, ShowTypes, DeliveryInv
  <2>q. QED BY <1>1, <1>2, <2>1 DEF ShowTypes, DeliveryInv, Recordings, NothingLeft
<1>11. CASE FinishDeletion
  <2>1. /\ dpc = "redact" /\ versions[Here] = 0 /\ deletion[Here] = "begun"
        /\ deletion' = [deletion EXCEPT ![Here] = "done"]
        /\ changes' = Tail(changes) /\ dpc' = "idle"
        /\ plan' = [plan EXCEPT ![Here] = IF @ = "current" THEN "earlier" ELSE @]
        /\ UNCHANGED <<shown, latest, accepted, versions>>
    BY <1>11 DEF FinishDeletion, Delivered, DeliveryInv, roomVars
  <2>2. plan[Here] = "none" /\ latest[Here] # None /\ shown[Here] = "gone" /\ Here \notin accepted
    BY <1>1, <2>1 DEF Recordings
  <2>q. QED BY <1>1, <2>1, <2>2 DEF ShowTypes, DeliveryInv, Recordings, NothingLeft
<1>q. QED
  BY <1>4, <1>5, <1>6, <1>7, <1>8, <1>9, <1>10, <1>11 DEF DeliveryProgress

LEMMA ShowInductive == RuntimeInv /\ ShowInv /\ [Next]_vars => RuntimeInv' /\ ShowInv'
<1> SUFFICES ASSUME RuntimeInv, ShowInv, [Next]_vars PROVE RuntimeInv' /\ ShowInv' OBVIOUS
<1>1. RuntimeInv'
  BY RuntimeInductive
<1>2. ShowInv'
  BY <1>1, RuntimeKeepsShow, DeliveryKeepsShow DEF Next
<1>q. QED BY <1>1, <1>2

(* Both parts together: what every reachable state satisfies.              *)
THEOREM MutationInvariance == Spec => [](RuntimeInv /\ ShowInv)
BY RuntimeInitially, ShowInitially, ShowInductive, PTL DEF Spec

(* An edit or a deletion of the owner is carried out at most once, and never one that still     *)
(* waits or that the room was told of as refused: MutationDispatcher.process claims before it   *)
(* sends, and recoverInterrupted makes an interrupted operation one of unknown outcome.         *)
THEOREM EachCarriedOnce == Spec => []CarriedOnce
<1>1. RuntimeInv /\ ShowInv => CarriedOnce
  BY MutationTypes DEF RuntimeInv, ShowInv, Once, CarriedOnce
<1>q. QED BY <1>1, MutationInvariance, PTL

(* A message that is deleted for good has left nothing visible: PortalStore.beginDeletion does  *)
(* not pass an unfinished projection, so every accepted event is among the versions redacted.   *)
THEOREM DeletionLeavesNothing == Spec => []NothingLeft
<1>1. RuntimeInv /\ ShowInv => NothingLeft
  BY DEF ShowInv
<1>q. QED BY <1>1, MutationInvariance, PTL

-----------------------------------------------------------------------------
(* The owner's last word.                                                  *)

SameChat(o, p) == ChatOf[MessageOf[o]] = ChatOf[MessageOf[p]]

(* The journal follows the order of the room: nothing is classified, queued or *)
(* tried before what the owner did earlier in the chat is, and settled.       *)
OrderInv ==
  /\ \A i, j \in 1..Len(posted) : posted[i] = posted[j] => i = j
  /\ \A o \in Ops : state[o] # "absent" => \E i \in 1..Len(posted) : posted[i] = o
  /\ \A o \in Ops : state[o] \notin {"absent", "refused"} <=> \E p \in 1..Len(queue) : queue[p] = o
  /\ \A i, j \in 1..Len(posted) : i < j /\ SameChat(posted[i], posted[j]) =>
       /\ state[posted[j]] # "absent" => state[posted[i]] # "absent"
       /\ state[posted[j]] \in Tried \cup Settled => state[posted[i]] \in Settled \cup {"refused"}
       /\ \A p, q \in 1..Len(queue) : queue[p] = posted[i] /\ queue[q] = posted[j] => p < q

(* A message the phone left alone is as the applied changes made it, or as the *)
(* one of unknown outcome does; and what a call has not done yet is not done.  *)
WordInv ==
  /\ \A m \in Messages \ touched :
       AsApplied(m) \/ \E o \in Concerns(m) : state[o] \in Flying /\ Holds(o)
  /\ call \in {"requested", "rejected"} /\ MessageOf[callOf] \notin touched =>
       AsApplied(MessageOf[callOf])
  /\ call = "done" /\ MessageOf[callOf] \notin touched => Holds(callOf)
  /\ pc = "claimed" /\ MessageOf[op] \notin touched => AsApplied(MessageOf[op])
  /\ pc \in {"check", "asked", "claimed"} /\ already => op \in Deletes /\ Holds(op)

(* Two operations of a chat are never under way together. *)
LEMMA OneFlying ==
  ASSUME RuntimeTypes, OrderInv, NEW o \in Ops, NEW p \in Ops, SameChat(o, p),
         state[o] \in Flying, state[p] \in Flying
  PROVE  o = p
<1>1. PICK i \in 1..Len(posted) : posted[i] = o
  BY DEF OrderInv, Flying
<1>2. PICK j \in 1..Len(posted) : posted[j] = p
  BY DEF OrderInv, Flying
<1>3. i \in Nat /\ j \in Nat
  BY <1>1, <1>2
<1>4. ~(i < j)
  BY <1>1, <1>2 DEF OrderInv, Flying, Tried, Settled
<1>5. ~(j < i)
  BY <1>1, <1>2 DEF OrderInv, Flying, Tried, Settled, SameChat
<1>q. QED BY <1>1, <1>2, <1>3, <1>4, <1>5

(* What is next in line has everything earlier in its chat behind it, and nothing *)
(* later was tried.                                                              *)
LEMMA FirstInLine ==
  ASSUME RuntimeTypes, OrderInv, NEW o \in Ops, NextOp(o)
  PROVE  /\ state[o] = "PREPARED"
         /\ \A i, j \in 1..Len(posted) : posted[j] = o /\ SameChat(posted[i], o) =>
              /\ i < j => state[posted[i]] \in Settled \cup {"refused"}
              /\ j < i => state[posted[i]] \notin Tried \cup Settled
         /\ \A p \in Ops : SameChat(p, o) => state[p] \notin Flying
<1>1. PICK q \in 1..Len(queue) :
        /\ queue[q] = o /\ state[o] = "PREPARED"
        /\ \A p \in 1..(q - 1) : SameChat(queue[p], o) => state[queue[p]] \in Settled
  BY DEF NextOp, Candidate, Blocks, SameChat
<1>2. Len(posted) \in Nat /\ Len(queue) \in Nat
      /\ (\A i \in 1..Len(posted) : posted[i] \in Ops) /\ (\A i \in 1..Len(queue) : queue[i] \in Ops)
  BY LenProperties, ElementOfSeq DEF RuntimeTypes
<1>3. ASSUME NEW i \in 1..Len(posted), NEW j \in 1..Len(posted), posted[j] = o, SameChat(posted[i], o)
      PROVE  /\ i < j => state[posted[i]] \in Settled \cup {"refused"}
             /\ j < i => state[posted[i]] \notin Tried \cup Settled
  <2>1. CASE i < j
    <3>1. state[posted[i]] # "absent"
      BY <1>1, <1>3, <2>1 DEF OrderInv
    <3>2. CASE state[posted[i]] # "refused"
      <4>1. PICK p \in 1..Len(queue) : queue[p] = posted[i]
        BY <1>2, <3>1, <3>2 DEF OrderInv
      <4>2. p < q
        BY <1>1, <1>3, <2>1, <4>1 DEF OrderInv
      <4>q. QED BY <1>1, <1>2, <1>3, <2>1, <4>1, <4>2
    <3>q. QED BY <1>2, <2>1, <3>2
  <2>2. CASE j < i
    <3>1. SameChat(posted[j], posted[i])
      BY <1>3 DEF SameChat
    <3>q. QED BY <1>1, <1>2, <1>3, <2>2, <3>1 DEF OrderInv, Settled
  <2>q. QED BY <1>2, <2>1, <2>2
<1>4. ASSUME NEW p \in Ops, SameChat(p, o), state[p] \in Flying PROVE FALSE
  <2>1. PICK i \in 1..Len(posted) : posted[i] = p
    BY <1>4 DEF OrderInv, Flying
  <2>2. PICK j \in 1..Len(posted) : posted[j] = o
    BY <1>1 DEF OrderInv
  <2>3. i # j
    BY <1>1, <1>4, <2>1, <2>2 DEF Flying
  <2>4. i < j \/ j < i
    BY <1>2, <2>3
  <2>q. QED BY <1>3, <1>4, <2>1, <2>2, <2>4 DEF Flying, Settled, Tried
<1>q. QED BY <1>1, <1>3, <1>4

(* A step that takes operations under way further, or settles them, keeps the order. *)
LEMMA SettlingKeepsOrder ==
  ASSUME RuntimeTypes, OrderInv, UNCHANGED <<posted, queue>>,
         \A o \in Ops : state'[o] = state[o]
                        \/ (state[o] \in Flying /\ state'[o] \in Tried \cup Settled)
  PROVE  OrderInv'
<1>1. \A i \in 1..Len(posted) : posted[i] \in Ops
  BY ElementOfSeq DEF RuntimeTypes
<1>2. \A o \in Ops : /\ state'[o] = "absent" <=> state[o] = "absent"
                     /\ state'[o] \notin {"absent", "refused"} <=> state[o] \notin {"absent", "refused"}
                     /\ state'[o] \in Tried \cup Settled <=> state[o] \in Tried \cup Settled
                     /\ state[o] \in Settled \cup {"refused"} => state'[o] \in Settled \cup {"refused"}
  BY DEF Flying, Tried, Settled
<1>3. ASSUME NEW i \in 1..Len(posted), NEW j \in 1..Len(posted), i < j, SameChat(posted[i], posted[j])
      PROVE  /\ state'[posted[j]] # "absent" => state'[posted[i]] # "absent"
             /\ state'[posted[j]] \in Tried \cup Settled =>
                  state'[posted[i]] \in Settled \cup {"refused"}
             /\ \A p, q \in 1..Len(queue) :
                  queue[p] = posted[i] /\ queue[q] = posted[j] => p < q
  <2>1. /\ state[posted[j]] # "absent" => state[posted[i]] # "absent"
        /\ state[posted[j]] \in Tried \cup Settled => state[posted[i]] \in Settled \cup {"refused"}
        /\ \A p, q \in 1..Len(queue) :
             queue[p] = posted[i] /\ queue[q] = posted[j] => p < q
    BY <1>3 DEF OrderInv
  <2>q. QED BY <1>1, <1>2, <2>1
<1>q. QED BY SMTT(30), <1>1, <1>2, <1>3 DEF OrderInv, SameChat

LEMMA JournalKeepsOrder ==
  ASSUME RuntimeInv, OrderInv, [Next]_vars PROVE OrderInv'
<1> USE DEF RuntimeInv
<1>1. /\ Len(posted) \in Nat /\ Len(queue) \in Nat
      /\ \A i \in 1..Len(posted) : posted[i] \in Ops
      /\ \A i \in 1..Len(queue) : queue[i] \in Ops
  BY LenProperties, ElementOfSeq DEF RuntimeTypes
<1>2. ASSUME NEW o \in Ops, Post(o) PROVE OrderInv'
  <2>1. UNCHANGED <<queue, state>> /\ posted' = Append(posted, o)
        /\ \A i \in 1..Len(posted) : posted[i] # o
    BY <1>2 DEF Post, rowVars, Contains
  <2>2. /\ Len(posted') = Len(posted) + 1 /\ posted'[Len(posted) + 1] = o
        /\ \A i \in 1..Len(posted) : posted'[i] = posted[i]
    BY <2>1, AppendProperties DEF RuntimeTypes
  <2>3. state[o] = "absent" /\ \A p \in 1..Len(queue) : queue[p] # o
    BY <2>1 DEF OrderInv
  <2>4. \A j \in 1..Len(posted') : j \in 1..Len(posted) \/ j = Len(posted) + 1
    BY <1>1, <2>2
  <2>5. ASSUME NEW i \in 1..Len(posted'), NEW j \in 1..Len(posted') PROVE
          /\ posted'[i] = posted'[j] => i = j
          /\ i < j /\ SameChat(posted'[i], posted'[j]) =>
               /\ state[posted'[j]] # "absent" => state[posted'[i]] # "absent"
               /\ state[posted'[j]] \in Tried \cup Settled => state[posted'[i]] \in Settled \cup {"refused"}
               /\ \A p, q \in 1..Len(queue) : queue[p] = posted'[i] /\ queue[q] = posted'[j] => p < q
    <3>1. CASE i \in 1..Len(posted) /\ j \in 1..Len(posted)
      <4>1. posted'[i] = posted[i] /\ posted'[j] = posted[j]
        BY <2>2, <3>1
      <4>q. QED BY SMTT(30), <3>1, <4>1 DEF OrderInv
    <3>2. CASE j = Len(posted) + 1
      BY <1>1, <2>1, <2>2, <2>3, <2>4, <3>2 DEF Tried, Settled
    <3>3. CASE i = Len(posted) + 1 /\ j \in 1..Len(posted)
      BY <1>1, <2>1, <2>2, <3>3
    <3>q. QED BY <2>4, <3>1, <3>2, <3>3
  <2>6. \A p \in Ops : state[p] # "absent" => \E i \in 1..Len(posted') : posted'[i] = p
    BY <1>1, <2>2 DEF OrderInv
  <2>q. QED BY <2>1, <2>5, <2>6 DEF OrderInv, SameChat
<1>3. ASSUME NEW o \in Ops, Prepare(o) \/ Refuse(o) PROVE OrderInv'
  <2>1. PICK k \in 1..Len(posted) :
          /\ posted[k] = o /\ state[o] = "absent"
          /\ \A j \in 1..(k - 1) : SameChat(posted[j], o) => state[posted[j]] # "absent"
    BY <1>3 DEF Prepare, Refuse, Classifiable, SameChat
  <2>2. UNCHANGED posted
    BY <1>3 DEF Prepare, Refuse, roomVars
  <2>3. \/ state' = [state EXCEPT ![o] = "PREPARED"] /\ queue' = Append(queue, o)
        \/ state' = [state EXCEPT ![o] = "refused"] /\ queue' = queue
    BY <1>3 DEF Prepare, Refuse, Planned
  <2>4. /\ state'[o] \in {"PREPARED", "refused"} /\ \A p \in Ops \ {o} : state'[p] = state[p]
    BY <2>3 DEF RuntimeTypes
  <2>5. /\ \A i \in 1..Len(queue) : queue[i] # o /\ queue'[i] = queue[i]
        /\ \/ Len(queue') = Len(queue) /\ state'[o] = "refused"
           \/ Len(queue') = Len(queue) + 1 /\ queue'[Len(queue) + 1] = o /\ state'[o] = "PREPARED"
    <3>1. \A i \in 1..Len(queue) : queue[i] # o
      BY <2>1 DEF OrderInv
    <3>q. QED BY <2>3, <3>1, AppendProperties DEF RuntimeTypes
  <2>6. \A p \in Ops : state'[p] \notin {"absent", "refused"} <=> \E q \in 1..Len(queue') : queue'[q] = p
    <3>1. ASSUME NEW p \in Ops \ {o}
          PROVE  state'[p] \notin {"absent", "refused"} <=> \E q \in 1..Len(queue') : queue'[q] = p
      <4>1. (\E q \in 1..Len(queue') : queue'[q] = p) <=> \E q \in 1..Len(queue) : queue[q] = p
        BY <1>1, <2>5
      <4>q. QED BY <2>4, <4>1 DEF OrderInv
    <3>2. state'[o] \notin {"absent", "refused"} <=> \E q \in 1..Len(queue') : queue'[q] = o
      BY <1>1, <2>5
    <3>q. QED BY <3>1, <3>2
  <2>7. \A p \in Ops : state'[p] # "absent" => \E i \in 1..Len(posted) : posted[i] = p
    BY <2>1, <2>4 DEF OrderInv
  <2>8. ASSUME NEW i \in 1..Len(posted), NEW j \in 1..Len(posted), i < j, SameChat(posted[i], posted[j])
        PROVE  /\ state'[posted[j]] # "absent" => state'[posted[i]] # "absent"
               /\ state'[posted[j]] \in Tried \cup Settled => state'[posted[i]] \in Settled \cup {"refused"}
    <3>1. CASE posted[j] = o
      <4>1. j = k
        BY <2>1, <3>1 DEF OrderInv
      <4>2. state[posted[i]] # "absent"
        BY <1>1, <2>1, <2>8, <3>1, <4>1
      <4>q. QED BY <1>1, <2>4, <3>1, <4>2 DEF Tried, Settled
    <3>2. CASE posted[j] # o
      BY <1>1, <2>1, <2>4, <2>8, <3>2 DEF OrderInv, Settled
    <3>q. QED BY <3>1, <3>2
  <2>9. ASSUME NEW i \in 1..Len(posted), NEW j \in 1..Len(posted), i < j, SameChat(posted[i], posted[j]),
               NEW p \in 1..Len(queue'), NEW q \in 1..Len(queue'),
               queue'[p] = posted[i], queue'[q] = posted[j]
        PROVE  p < q
    <3>1. CASE p \in 1..Len(queue) /\ q \in 1..Len(queue)
      BY SMTT(30), <2>5, <2>9, <3>1 DEF OrderInv
    <3>2. CASE q \notin 1..Len(queue)
      <4>1. posted[j] = o /\ q = Len(queue) + 1
        BY <1>1, <2>5, <2>9, <3>2
      <4>2. posted[i] # o
        BY <2>9, <4>1 DEF OrderInv
      <4>q. QED BY <1>1, <2>5, <2>9, <4>1, <4>2
    <3>3. CASE p \notin 1..Len(queue) /\ q \in 1..Len(queue)
      <4>1. posted[i] = o /\ posted[j] \in Ops /\ queue[q] = posted[j]
        BY <1>1, <2>5, <2>9, <3>3
      <4>2. state[posted[j]] # "absent"
        BY <3>3, <4>1 DEF OrderInv
      <4>q. QED BY <2>1, <2>9, <4>1, <4>2 DEF OrderInv
    <3>q. QED BY <3>1, <3>2, <3>3
  <2>10. \A i, j \in 1..Len(posted) : posted[i] = posted[j] => i = j
    BY DEF OrderInv
  <2>q. QED BY <2>2, <2>6, <2>7, <2>8, <2>9, <2>10 DEF OrderInv, SameChat
<1>4. CASE Claim
  <2>1. op \in Ops /\ NextOp(op) /\ UNCHANGED <<posted, queue>> /\ state' = [state EXCEPT ![op] = "DISPATCHING"]
    BY <1>4 DEF Claim, WorkerInv, roomVars
  <2>2. /\ state[op] = "PREPARED"
        /\ \A i, j \in 1..Len(posted) : posted[j] = op /\ SameChat(posted[i], op) =>
             /\ i < j => state[posted[i]] \in Settled \cup {"refused"}
             /\ j < i => state[posted[i]] \notin Tried \cup Settled
    BY <2>1, FirstInLine
  <2>3. state'[op] = "DISPATCHING" /\ \A p \in Ops \ {op} : state'[p] = state[p]
    BY <2>1 DEF RuntimeTypes
  <2>4. ASSUME NEW i \in 1..Len(posted), NEW j \in 1..Len(posted), i < j, SameChat(posted[i], posted[j])
        PROVE  /\ state'[posted[j]] # "absent" => state'[posted[i]] # "absent"
               /\ state'[posted[j]] \in Tried \cup Settled => state'[posted[i]] \in Settled \cup {"refused"}
    <3>1. posted[i] # posted[j]
      BY <1>1, <2>4 DEF OrderInv
    <3>2. CASE posted[j] = op
      <4>1. state[posted[i]] \in Settled \cup {"refused"}
        BY <2>2, <2>4, <3>2
      <4>2. state'[posted[i]] = state[posted[i]]
        BY <1>1, <2>3, <3>1, <3>2
      <4>q. QED BY <4>1, <4>2 DEF Settled
    <3>3. CASE posted[i] = op
      <4>1. SameChat(posted[j], op)
        BY <2>4, <3>3 DEF SameChat
      <4>2. state[posted[j]] \notin Tried \cup Settled
        BY <2>2, <2>4, <3>3, <4>1
      <4>3. state'[posted[j]] = state[posted[j]]
        BY <1>1, <2>3, <3>1, <3>3
      <4>q. QED BY <2>3, <3>3, <4>2, <4>3
    <3>4. CASE posted[i] # op /\ posted[j] # op
      BY <1>1, <2>3, <2>4, <3>4 DEF OrderInv
    <3>q. QED BY <3>2, <3>3, <3>4
  <2>5. \A p \in Ops : /\ state'[p] = "absent" <=> state[p] = "absent"
                       /\ state'[p] = "refused" <=> state[p] = "refused"
    BY <2>2, <2>3
  <2>q. QED BY <2>1, <2>4, <2>5 DEF OrderInv, SameChat
<1>5. CASE Start \/ AlreadyDeleted \/ MutateAborted \/ \E o \in Ops : RecoverOp(o)
  <2>1. UNCHANGED <<posted, queue>>
    BY <1>5 DEF Start, AlreadyDeleted, MutateAborted, RecoverOp, roomVars
  <2>2. \A o \in Ops : state'[o] = state[o] \/ (state[o] \in Flying /\ state'[o] \in Tried \cup Settled)
    BY <1>5 DEF Start, Recovered, AlreadyDeleted, MutateAborted, RecoverOp, Observed, Uncertain,
                WorkerInv, RuntimeTypes, Flying, Tried, Settled
  <2>q. QED BY <2>1, <2>2, SettlingKeepsOrder
<1>6. CASE MutateReturns \/ MutateRejected \/ MutateFails
  <2>1. UNCHANGED <<posted, queue>>
    BY <1>6 DEF MutateReturns, MutateRejected, MutateFails, Outcome, roomVars
  <2>2. \A o \in Ops : state'[o] = state[o] \/ (state[o] \in Flying /\ state'[o] \in Tried \cup Settled)
    BY <1>6 DEF MutateReturns, MutateRejected, MutateFails, Outcome, WorkerInv, RuntimeTypes, Flying,
                Tried, Settled
  <2>q. QED BY <2>1, <2>2, SettlingKeepsOrder
<1>7. CASE \/ Crash \/ EndPhase \/ AskDeleted \/ CheckFails \/ SendMutation
           \/ (\E o \in Ops : Pick(o) \/ Notice(o))
           \/ ThreadStep \/ BackendDies \/ BackendTerminated \/ PhoneStep
           \/ DeliveryProgress \/ DeliveryFails \/ UNCHANGED vars
  <2>1. UNCHANGED <<posted, queue, state>>
    BY <1>7 DEF Crash, EndPhase, AskDeleted, CheckFails, SendMutation, Pick, Notice, ThreadStep,
                NativeMutate, CallErrs, BackendDies, BackendTerminated, PhoneStep, Scan, PhoneMove,
                DeliveryProgress, Skip, BeginDelivery, PreparePlan, Accept, Finish, BeginDeletion,
                RedactVersion, FinishDeletion, DeliveryFails, vars, roomVars, rowVars
  <2>q. QED BY <2>1, SettlingKeepsOrder
<1>q. QED
  BY <1>2, <1>3, <1>4, <1>5, <1>6, <1>7 DEF Next, DrainStep, DispatchStep

(* What the applied changes made of a message stays, while none is applied. *)
LEMMA AsAppliedKept ==
  ASSUME RuntimeTypes, posted' \in Seq(Ops), Len(posted) <= Len(posted'),
         \A i \in 1..Len(posted) : posted'[i] = posted[i],
         \A i \in 1..Len(posted') : i > Len(posted) => state'[posted'[i]] # "APPLIED",
         NEW m \in Messages, native'[m] = native[m],
         \A o \in Concerns(m) : state'[o] = "APPLIED" <=> state[o] = "APPLIED"
  PROVE  AsApplied(m)' <=> AsApplied(m)
<1>1. /\ Len(posted) \in Nat /\ Len(posted') \in Nat
      /\ \A i \in 1..Len(posted) : posted[i] \in Ops
  BY LenProperties, ElementOfSeq DEF RuntimeTypes
<1>2. LastApplied(m)' = LastApplied(m)
  BY <1>1 DEF LastApplied, Concerns
<1>3. \A i \in LastApplied(m) : Holds(posted[i])' <=> Holds(posted[i])
  BY <1>1 DEF LastApplied, Holds
<1>q. QED BY <1>2, <1>3 DEF AsApplied

(* An operation that is applied while it holds has the last word. *)
LEMMA NewLastWord ==
  ASSUME RuntimeTypes, OrderInv, NEW o \in Ops, state[o] \in Flying, Holds(o),
         state' = [state EXCEPT ![o] = "APPLIED"], UNCHANGED <<posted, native>>
  PROVE  AsApplied(MessageOf[o])'
<1>1. /\ Len(posted) \in Nat /\ \A i \in 1..Len(posted) : posted[i] \in Ops
  BY LenProperties, ElementOfSeq DEF RuntimeTypes
<1>2. state'[o] = "APPLIED" /\ \A p \in Ops \ {o} : state'[p] = state[p]
  BY DEF RuntimeTypes
<1>3. PICK k \in 1..Len(posted) : posted[k] = o
  BY DEF OrderInv, Flying
<1>4. ASSUME NEW j \in 1..Len(posted), k < j, MessageOf[posted[j]] = MessageOf[o]
      PROVE  state'[posted[j]] # "APPLIED"
  <2>1. posted[j] # o
    BY <1>1, <1>3, <1>4 DEF OrderInv
  <2>2. SameChat(posted[k], posted[j])
    BY <1>3, <1>4 DEF SameChat
  <2>3. state[posted[j]] # "APPLIED"
    BY <1>3, <1>4, <2>2 DEF OrderInv, Tried, Settled, Flying
  <2>q. QED BY <1>1, <1>2, <2>1, <2>3
<1>5. k \in LastApplied(MessageOf[o])'
  BY <1>1, <1>2, <1>3, <1>4 DEF LastApplied
<1>6. ASSUME NEW i \in LastApplied(MessageOf[o])' PROVE posted[i] = o
  <2>1. /\ i \in 1..Len(posted) /\ MessageOf[posted[i]] = MessageOf[o] /\ state'[posted[i]] = "APPLIED"
        /\ \A j \in (i + 1)..Len(posted) : MessageOf[posted[j]] = MessageOf[o] => state'[posted[j]] # "APPLIED"
    BY <1>6 DEF LastApplied
  <2>2. ~(i < k)
    BY <1>1, <1>2, <1>3, <2>1
  <2>3. ~(k < i)
    BY <1>4, <2>1
  <2>q. QED BY <1>1, <1>3, <2>1, <2>2, <2>3
<1>7. Holds(o)'
  BY DEF Holds
<1>q. QED BY <1>5, <1>6, <1>7 DEF AsApplied

(* Steps that apply nothing and leave Threema alone. *)
LEMMA QuietKeepsWord ==
  ASSUME RuntimeInv, WordInv, UNCHANGED <<posted, native, touched>>,
         \A o \in Ops : /\ state'[o] = "APPLIED" <=> state[o] = "APPLIED"
                        /\ state[o] \in Flying => state'[o] \in Flying,
         \/ UNCHANGED <<call, callOf>> \/ call' \in {"idle", "failed"}
         \/ call = "requested" /\ call' = "rejected" /\ UNCHANGED callOf,
         \/ pc' \notin {"check", "asked", "claimed"}
         \/ UNCHANGED <<pc, op, already>>
         \/ pc' \in {"check", "asked"} /\ (already' => op' \in Deletes /\ Holds(op'))
         \/ /\ pc' = "claimed" /\ pc \in {"check", "asked"} /\ UNCHANGED <<op, already>>
            /\ MessageOf[op] \in touched \/ AsApplied(MessageOf[op])
  PROVE  WordInv'
<1>1. \A m \in Messages : AsApplied(m)' <=> AsApplied(m)
  <2>1. posted' \in Seq(Ops) /\ Len(posted) \in Nat
    BY LenProperties DEF RuntimeInv, RuntimeTypes
  <2>q. QED BY <2>1, AsAppliedKept DEF Concerns, RuntimeInv
<1>2. \A o \in Ops : Holds(o)' <=> Holds(o)
  BY DEF Holds
<1>3. /\ call # "idle" => callOf \in Ops /\ MessageOf[callOf] \in Messages
      /\ pc \in {"check", "asked", "claimed"} => op \in Ops /\ MessageOf[op] \in Messages
  BY MutationAssumption DEF RuntimeInv, WorkerInv
<1>4. ASSUME NEW m \in Messages \ touched
      PROVE  AsApplied(m)' \/ \E o \in Concerns(m) : state'[o] \in Flying /\ Holds(o)'
  BY <1>1, <1>2 DEF WordInv, Concerns
<1>5. /\ call' \in {"requested", "rejected"} /\ MessageOf[callOf'] \notin touched =>
           AsApplied(MessageOf[callOf])'
      /\ call' = "done" /\ MessageOf[callOf'] \notin touched => Holds(callOf)'
  BY <1>1, <1>2, <1>3 DEF WordInv
<1>6. /\ pc' = "claimed" /\ MessageOf[op'] \notin touched => AsApplied(MessageOf[op])'
      /\ pc' \in {"check", "asked", "claimed"} /\ already' => op' \in Deletes /\ Holds(op)'
  <2>1. CASE pc' \notin {"check", "asked", "claimed"}
    BY <2>1
  <2>2. CASE UNCHANGED <<pc, op, already>>
    BY <1>1, <1>2, <1>3, <2>2 DEF WordInv
  <2>3. CASE pc' \in {"check", "asked"} /\ (already' => op' \in Deletes /\ Holds(op'))
    BY <2>3 DEF Holds
  <2>4. CASE /\ pc' = "claimed" /\ pc \in {"check", "asked"} /\ UNCHANGED <<op, already>>
             /\ MessageOf[op] \in touched \/ AsApplied(MessageOf[op])
    BY <1>1, <1>2, <1>3, <2>4 DEF WordInv
  <2>q. QED BY <2>1, <2>2, <2>3, <2>4
<1>q. QED BY <1>4, <1>5, <1>6 DEF WordInv

(* Steps that apply an operation that holds. *)
LEMMA ApplyingKeepsWord ==
  ASSUME RuntimeInv, OrderInv, WordInv, UNCHANGED <<posted, native, touched>>,
         NEW o \in Ops, state[o] \in Flying, MessageOf[o] \in touched \/ Holds(o),
         state' = [state EXCEPT ![o] = "APPLIED"],
         call' = "idle" \/ (UNCHANGED <<call, callOf>> /\ (call # "idle" => callOf # o)),
         pc' \notin {"check", "asked", "claimed"}
  PROVE  WordInv'
<1> USE DEF RuntimeInv
<1>1. posted' \in Seq(Ops) /\ Len(posted) \in Nat
  BY LenProperties DEF RuntimeTypes
<1>2. \A p \in Ops \ {o} : state'[p] = state[p]
  BY DEF RuntimeTypes
<1>3. ASSUME NEW m \in Messages, m # MessageOf[o] PROVE AsApplied(m)' <=> AsApplied(m)
  BY <1>1, <1>2, <1>3, AsAppliedKept DEF Concerns
<1>4. MessageOf[o] \notin touched => AsApplied(MessageOf[o])'
  BY NewLastWord
<1>5. ASSUME NEW m \in Messages \ touched
      PROVE  AsApplied(m)' \/ \E p \in Concerns(m) : state'[p] \in Flying /\ Holds(p)'
  <2>1. CASE m = MessageOf[o]
    BY <1>4, <2>1
  <2>2. CASE m # MessageOf[o]
    <3>1. \A p \in Ops : Holds(p)' <=> Holds(p)
      BY DEF Holds
    <3>q. QED BY <1>2, <1>3, <2>2, <3>1 DEF WordInv, Concerns
  <2>q. QED BY <2>1, <2>2
<1>6. ASSUME call' # "idle"
      PROVE  /\ UNCHANGED <<call, callOf>> /\ callOf \in Ops /\ MessageOf[callOf] \in Messages
             /\ MessageOf[callOf] # MessageOf[o]
  <2>1. UNCHANGED <<call, callOf>> /\ callOf \in Ops /\ callOf # o /\ state[callOf] \in Flying
    BY <1>6 DEF WorkerInv
  <2>2. ~SameChat(callOf, o)
    BY <2>1, OneFlying
  <2>q. QED BY <2>1, <2>2, MutationAssumption DEF SameChat
<1>7. /\ call' \in {"requested", "rejected"} /\ MessageOf[callOf'] \notin touched => AsApplied(MessageOf[callOf])'
      /\ call' = "done" /\ MessageOf[callOf'] \notin touched => Holds(callOf)'
  <2>1. CASE call' = "idle"
    BY <2>1
  <2>2. CASE call' # "idle"
    <3>1. AsApplied(MessageOf[callOf])' <=> AsApplied(MessageOf[callOf])
      BY <1>3, <1>6, <2>2
    <3>2. Holds(callOf)' <=> Holds(callOf)
      BY <1>6, <2>2 DEF Holds
    <3>q. QED BY <1>6, <2>2, <3>1, <3>2 DEF WordInv
  <2>q. QED BY <2>1, <2>2
<1>q. QED BY <1>5, <1>7 DEF WordInv

LEMMA WordInductive ==
  ASSUME RuntimeInv, OrderInv, WordInv, [Next]_vars PROVE WordInv'
<1> USE DEF RuntimeInv
<1>1. \A o \in Ops : MessageOf[o] \in Messages
  BY MutationAssumption
<1>2. ASSUME NEW o \in Ops, Post(o) PROVE WordInv'
  <2>1. UNCHANGED <<queue, state, native, touched, call, callOf, pc, op, already>>
        /\ posted' = Append(posted, o) /\ \A i \in 1..Len(posted) : posted[i] # o
    BY <1>2 DEF Post, rowVars, phoneVars, threadVars, workVars, Contains
  <2>2. state[o] = "absent"
    BY <2>1 DEF OrderInv
  <2>3. /\ Len(posted) \in Nat /\ posted' \in Seq(Ops) /\ Len(posted') = Len(posted) + 1
        /\ posted'[Len(posted) + 1] = o /\ \A i \in 1..Len(posted) : posted'[i] = posted[i]
    BY <2>1, LenProperties, AppendProperties DEF RuntimeTypes
  <2>4. \A i \in 1..Len(posted') : i > Len(posted) => state'[posted'[i]] # "APPLIED"
    BY <2>1, <2>2, <2>3
  <2>5. \A m \in Messages : AsApplied(m)' <=> AsApplied(m)
    BY <2>1, <2>3, <2>4, AsAppliedKept
  <2>6. \A p \in Ops : Holds(p)' <=> Holds(p)
    BY <2>1 DEF Holds
  <2>7. /\ call # "idle" => callOf \in Ops /\ MessageOf[callOf] \in Messages
        /\ pc \in {"check", "asked", "claimed"} => op \in Ops /\ MessageOf[op] \in Messages
    BY <1>1 DEF WorkerInv
  <2>8. /\ call \in {"requested", "rejected"} => (AsApplied(MessageOf[callOf])' <=> AsApplied(MessageOf[callOf]))
        /\ call = "done" => (Holds(callOf)' <=> Holds(callOf))
        /\ pc \in {"check", "asked", "claimed"} =>
             (AsApplied(MessageOf[op])' <=> AsApplied(MessageOf[op])) /\ (Holds(op)' <=> Holds(op))
    BY <2>1, <2>5, <2>6, <2>7
  <2>q. QED BY <2>1, <2>5, <2>6, <2>8 DEF WordInv, Concerns
<1>3. ASSUME NEW o \in Ops, Prepare(o) \/ Refuse(o) PROVE WordInv'
  <2>1. /\ UNCHANGED <<posted, native, touched, call, callOf, pc, op, already>> /\ state[o] = "absent"
        /\ state' = [state EXCEPT ![o] = "PREPARED"] \/ state' = [state EXCEPT ![o] = "refused"]
    BY <1>3 DEF Prepare, Refuse, Classifiable, Planned, roomVars, phoneVars, threadVars, workVars
  <2>2. \A p \in Ops : /\ state'[p] = "APPLIED" <=> state[p] = "APPLIED"
                       /\ state[p] \in Flying => state'[p] \in Flying
    BY <2>1 DEF RuntimeTypes, Flying
  <2>q. QED BY <2>1, <2>2, QuietKeepsWord
<1>4. CASE Start \/ MutateAborted \/ MutateFails
  <2>1. /\ UNCHANGED <<posted, native, touched>> /\ pc' \in {"ingress", "dispatch"}
        /\ UNCHANGED <<call, callOf>> \/ call' = "idle"
    BY <1>4 DEF Start, MutateAborted, MutateFails, Outcome, Over, roomVars, phoneVars, threadVars
  <2>2. \A p \in Ops : /\ state'[p] = "APPLIED" <=> state[p] = "APPLIED"
                       /\ state[p] \in Flying => state'[p] \in Flying
    BY <1>4 DEF Start, Recovered, MutateAborted, MutateFails, Outcome, WorkerInv, RuntimeTypes, Flying
  <2>q. QED BY <2>1, <2>2, QuietKeepsWord
<1>5. CASE \/ Crash \/ EndPhase \/ CheckFails \/ (\E o \in Ops : Notice(o)) \/ CallErrs
           \/ BackendDies \/ BackendTerminated \/ (\E m \in Messages : Scan(m))
           \/ DeliveryProgress \/ DeliveryFails \/ UNCHANGED vars
  <2>1. UNCHANGED <<posted, state, native, touched>>
    BY <1>5 DEF Crash, EndPhase, CheckFails, Notice, CallErrs, BackendDies, BackendTerminated, Scan,
                DeliveryProgress, Skip, BeginDelivery, PreparePlan, Accept, Finish, BeginDeletion,
                RedactVersion, FinishDeletion, DeliveryFails, vars, roomVars, rowVars, phoneVars
  <2>2. /\ pc' \in {"check", "asked", "claimed"} => UNCHANGED <<pc, op, already>>
        /\ \/ UNCHANGED <<call, callOf>> \/ call' \in {"idle", "failed"}
           \/ CallErrs /\ call = "requested" /\ call' = "rejected" /\ UNCHANGED callOf
    BY <1>5 DEF Crash, EndPhase, Phases, CheckFails, Over, Notice, CallErrs, BackendDies,
                BackendTerminated, Scan, DeliveryProgress, Skip, BeginDelivery, PreparePlan, Accept,
                Finish, BeginDeletion, RedactVersion, FinishDeletion, DeliveryFails, vars, workVars,
                threadVars
  <2>q. QED BY <2>1, <2>2, QuietKeepsWord DEF Flying
<1>6. ASSUME NEW o \in Ops, Pick(o) PROVE WordInv'
  <2>1. /\ UNCHANGED <<posted, state, native, touched, call, callOf>>
        /\ pc' = "check" /\ already' = FALSE
    BY <1>6 DEF Pick, roomVars, rowVars, phoneVars, threadVars
  <2>q. QED BY <2>1, QuietKeepsWord
<1>7. CASE AskDeleted
  <2>1. /\ UNCHANGED <<posted, state, native, touched, call, callOf, op>> /\ op \in Deletes
        /\ pc' = "asked" /\ already' = Holds(op)
    BY <1>7 DEF AskDeleted, roomVars, rowVars, phoneVars, threadVars
  <2>q. QED BY <2>1, QuietKeepsWord
<1>8. CASE Claim
  <2>1. /\ UNCHANGED <<posted, native, touched, call, callOf, op, already>> /\ op \in Ops /\ NextOp(op)
        /\ state' = [state EXCEPT ![op] = "DISPATCHING"] /\ pc' = "claimed" /\ pc \in {"check", "asked"}
    BY <1>8 DEF Claim, WorkerInv, roomVars, phoneVars, threadVars
  <2>2. state[op] = "PREPARED" /\ \A p \in Ops : SameChat(p, op) => state[p] \notin Flying
    BY <2>1, FirstInLine
  <2>3. MessageOf[op] \in touched \/ AsApplied(MessageOf[op])
    BY <1>1, <2>1, <2>2 DEF WordInv, Concerns, SameChat
  <2>4. \A p \in Ops : /\ state'[p] = "APPLIED" <=> state[p] = "APPLIED"
                       /\ state[p] \in Flying => state'[p] \in Flying
    BY <2>1, <2>2 DEF RuntimeTypes, Flying
  <2>q. QED BY <2>1, <2>3, <2>4, QuietKeepsWord
<1>9. CASE SendMutation
  <2>1. /\ UNCHANGED <<posted, state, native, touched, op>> /\ pc = "claimed" /\ pc' = "mutate"
        /\ UNCHANGED <<call, callOf>> \/ (call' = "requested" /\ callOf' = op)
    BY <1>9 DEF SendMutation, roomVars, rowVars, phoneVars
  <2>2. CASE UNCHANGED <<call, callOf>>
    BY <2>1, <2>2, QuietKeepsWord
  <2>3. CASE call' = "requested" /\ callOf' = op
    <3>1. posted' \in Seq(Ops) /\ Len(posted) \in Nat
      BY <2>1, LenProperties DEF RuntimeTypes
    <3>2. \A m \in Messages : AsApplied(m)' <=> AsApplied(m)
      BY <2>1, <3>1, AsAppliedKept
    <3>3. \A p \in Ops : Holds(p)' <=> Holds(p)
      BY <2>1 DEF Holds
    <3>4. MessageOf[op] \in Messages
      BY <1>1, <2>1 DEF WorkerInv
    <3>5. MessageOf[callOf'] \notin touched' => AsApplied(MessageOf[callOf])'
      BY <2>1, <2>3, <3>2, <3>4 DEF WordInv
    <3>q. QED BY <2>1, <2>3, <3>2, <3>3, <3>5 DEF WordInv, Concerns
  <2>q. QED BY <2>1, <2>2, <2>3
<1>10. ASSUME NEW o \in Ops, RecoverOp(o) PROVE WordInv'
  <2>1. /\ UNCHANGED <<posted, native, touched, call, callOf, pc>> /\ pc = "recover" /\ backend = "up"
        /\ Holds(o) /\ state[o] = "OUTCOME_UNKNOWN" /\ state' = [state EXCEPT ![o] = "APPLIED"]
    BY <1>10 DEF RecoverOp, Observed, Uncertain, roomVars, phoneVars, threadVars, workVars
  <2>2. call = "idle"
    BY <2>1 DEF WorkerInv
  <2>q. QED BY <2>1, <2>2, ApplyingKeepsWord DEF Flying
<1>11. CASE AlreadyDeleted
  <2>1. /\ UNCHANGED <<posted, native, touched, call, callOf>> /\ pc' = "dispatch"
        /\ op \in Ops /\ state[op] = "DISPATCHING" /\ (call # "idle" => callOf # op)
        /\ state' = [state EXCEPT ![op] = "APPLIED"] /\ Holds(op)
    BY <1>11 DEF AlreadyDeleted, Over, WorkerInv, WordInv, roomVars, phoneVars, threadVars
  <2>q. QED BY <2>1, ApplyingKeepsWord DEF Flying
<1>12. CASE MutateReturns
  <2>1. /\ UNCHANGED <<posted, native, touched>> /\ pc' = "dispatch" /\ call' = "idle"
        /\ op \in Ops /\ state[op] = "DISPATCHING" /\ state' = [state EXCEPT ![op] = "APPLIED"]
        /\ MessageOf[op] \in touched \/ Holds(op)
    BY <1>12 DEF MutateReturns, Outcome, Over, WorkerInv, WordInv, roomVars, phoneVars
  <2>q. QED BY <2>1, ApplyingKeepsWord DEF Flying
<1>13. CASE MutateRejected
  <2>1. /\ UNCHANGED <<posted, native, touched>> /\ pc' = "dispatch" /\ call' = "idle"
        /\ op \in Ops /\ state[op] = "DISPATCHING" /\ state' = [state EXCEPT ![op] = "REJECTED"]
        /\ MessageOf[op] \in touched \/ AsApplied(MessageOf[op])
    BY <1>13 DEF MutateRejected, Outcome, Over, WorkerInv, WordInv, roomVars, phoneVars
  <2>2. /\ state'[op] = "REJECTED" /\ \A p \in Ops \ {op} : state'[p] = state[p]
        /\ posted' \in Seq(Ops) /\ Len(posted) \in Nat
    BY <2>1, LenProperties DEF RuntimeTypes
  <2>3. \A m \in Messages : AsApplied(m)' <=> AsApplied(m)
    BY <2>1, <2>2, AsAppliedKept DEF Concerns
  <2>4. \A p \in Ops : Holds(p)' <=> Holds(p)
    BY <2>1 DEF Holds
  <2>5. ASSUME NEW m \in Messages \ touched
        PROVE  AsApplied(m)' \/ \E p \in Concerns(m) : state'[p] \in Flying /\ Holds(p)'
    <3>1. CASE m = MessageOf[op]
      BY <2>1, <2>3, <3>1
    <3>2. CASE m # MessageOf[op]
      BY <2>2, <2>3, <2>4, <3>2 DEF WordInv, Concerns
    <3>q. QED BY <3>1, <3>2
  <2>q. QED BY <2>1, <2>5 DEF WordInv
<1>14. CASE NativeMutate
  <2>1. /\ UNCHANGED <<posted, state, touched, callOf, pc, op, already>>
        /\ call = "requested" /\ call' \in {"done", "failed"} /\ native[MessageOf[callOf]] # "deleted"
        /\ callOf \in Ops /\ state[callOf] \in Flying
    BY <1>14 DEF NativeMutate, WorkerInv, roomVars, rowVars, workVars
  <2>2. Holds(callOf)' /\ \A m \in Messages \ {MessageOf[callOf]} : native'[m] = native[m]
    <3>1. CASE Holds(callOf)
      BY <1>14, <2>1, <3>1 DEF NativeMutate, Holds
    <3>2. CASE ~Holds(callOf)
      <4>1. native' = [native EXCEPT ![MessageOf[callOf]] =
                         IF callOf \in Deletes THEN "deleted" ELSE TextOf[callOf]]
        BY <1>14, <3>2 DEF NativeMutate, Becomes
      <4>q. QED BY <1>1, <2>1, <4>1 DEF Holds, ThreemaTypes
    <3>q. QED BY <3>1, <3>2
  <2>3. posted' \in Seq(Ops) /\ Len(posted) \in Nat
    BY <2>1, LenProperties DEF RuntimeTypes
  <2>4. \A m \in Messages \ {MessageOf[callOf]} : AsApplied(m)' <=> AsApplied(m)
    BY <2>1, <2>2, <2>3, AsAppliedKept
  <2>5. ASSUME NEW m \in Messages \ touched
        PROVE  AsApplied(m)' \/ \E p \in Concerns(m) : state'[p] \in Flying /\ Holds(p)'
    <3>1. CASE m = MessageOf[callOf]
      BY <2>1, <2>2, <3>1 DEF Concerns
    <3>2. CASE m # MessageOf[callOf]
      <4>1. \A p \in Concerns(m) : Holds(p)' <=> Holds(p)
        BY <2>2, <3>2 DEF Concerns, Holds
      <4>q. QED BY <2>1, <2>4, <3>2, <4>1 DEF WordInv
    <3>q. QED BY <3>1, <3>2
  <2>6. ASSUME pc = "claimed" PROVE MessageOf[op] \in Messages \ {MessageOf[callOf]}
    <3>1. op \in Ops /\ state[op] \in Flying /\ op # callOf
      BY <2>1, <2>6 DEF WorkerInv, Flying
    <3>2. ~SameChat(op, callOf)
      BY <2>1, <3>1, OneFlying
    <3>q. QED BY <1>1, <3>1, <3>2 DEF SameChat
  <2>7. ASSUME pc \in {"check", "asked", "claimed"}, already PROVE op \in Deletes /\ Holds(op)'
    <3>1. op \in Deletes /\ native[MessageOf[op]] = "deleted" /\ MessageOf[op] \in Messages
      BY <1>1, <2>7 DEF WordInv, Holds, Ops
    <3>2. native'[MessageOf[op]] = "deleted"
      BY <2>1, <2>2, <3>1
    <3>q. QED BY <2>1, <3>1, <3>2 DEF Holds
  <2>q. QED BY <2>1, <2>2, <2>4, <2>5, <2>6, <2>7 DEF WordInv
<1>15. ASSUME NEW n \in Messages, NEW c \in Texts \cup {"deleted"}, PhoneMove(n, c) PROVE WordInv'
  <2>1. /\ UNCHANGED <<posted, state, call, callOf, pc, op, already>> /\ touched' = touched \cup {n}
        /\ native[n] # "deleted" /\ native' = [native EXCEPT ![n] = c]
    BY <1>15 DEF PhoneMove, Becomes, roomVars, rowVars, workVars, threadVars
  <2>2. posted' \in Seq(Ops) /\ Len(posted) \in Nat /\ \A m \in Messages \ {n} : native'[m] = native[m]
    BY <2>1, LenProperties DEF RuntimeTypes, ThreemaTypes
  <2>3. \A m \in Messages \ {n} : AsApplied(m)' <=> AsApplied(m)
    BY <2>1, <2>2, AsAppliedKept
  <2>4. \A p \in Ops : MessageOf[p] # n => (Holds(p)' <=> Holds(p))
    BY <1>1, <2>2 DEF Holds
  <2>5. /\ call # "idle" => callOf \in Ops /\ MessageOf[callOf] \in Messages
        /\ pc \in {"check", "asked", "claimed"} => op \in Ops /\ MessageOf[op] \in Messages
    BY <1>1 DEF WorkerInv
  <2>6. ASSUME NEW m \in Messages \ touched'
        PROVE  AsApplied(m)' \/ \E p \in Concerns(m) : state'[p] \in Flying /\ Holds(p)'
    BY <2>1, <2>3, <2>4 DEF WordInv, Concerns
  <2>7. ASSUME pc \in {"check", "asked", "claimed"}, already PROVE op \in Deletes /\ Holds(op)'
    <3>1. op \in Deletes /\ native[MessageOf[op]] = "deleted"
      BY <2>7 DEF WordInv, Holds
    <3>q. QED BY <2>1, <2>4, <2>5, <2>7, <3>1 DEF WordInv
  <2>8. /\ call \in {"requested", "rejected"} /\ MessageOf[callOf] \notin touched' => AsApplied(MessageOf[callOf])'
        /\ call = "done" /\ MessageOf[callOf] \notin touched' => Holds(callOf)'
        /\ pc = "claimed" /\ MessageOf[op] \notin touched' => AsApplied(MessageOf[op])'
    BY <2>1, <2>3, <2>4, <2>5 DEF WordInv
  <2>q. QED BY <2>1, <2>6, <2>7, <2>8 DEF WordInv
<1>q. QED
  BY <1>2, <1>3, <1>4, <1>5, <1>6, <1>7, <1>8, <1>9, <1>10, <1>11, <1>12, <1>13, <1>14, <1>15
  DEF Next, DrainStep, DispatchStep, ThreadStep, PhoneStep

LEMMA WordInitially == Init => OrderInv /\ WordInv
<1> SUFFICES ASSUME Init PROVE OrderInv /\ WordInv OBVIOUS
<1>1. Len(posted) = 0 /\ Len(queue) = 0
  BY EmptySeq DEF Init
<1>2. \A m \in Messages : AsApplied(m)
  BY <1>1 DEF Init, AsApplied, LastApplied
<1>q. QED BY <1>1, <1>2 DEF Init, OrderInv, WordInv

(* A message the phone left alone is what the last of the owner's changes that were applied made *)
(* of it, in the order of the room: prepare, peek and claim keep to that order, and what settles  *)
(* an operation as applied is its answer or a look at Threema.                                    *)
THEOREM LastWordIsOwners == Spec => []OwnersLastWord
<1>1. Init => OrderInv /\ WordInv
  BY WordInitially
<1>2. RuntimeInv /\ OrderInv /\ WordInv /\ [Next]_vars => OrderInv' /\ WordInv'
  BY JournalKeepsOrder, WordInductive
<1>3. WordInv => OwnersLastWord
  BY DEF WordInv, OwnersLastWord, Flying
<1>q. QED BY <1>1, <1>2, <1>3, MutationInvariance, PTL DEF Spec

LEMMA OrderAlways == Spec => [](RuntimeInv /\ OrderInv)
<1>1. Init => OrderInv
  BY WordInitially
<1>2. RuntimeInv /\ OrderInv /\ [Next]_vars => OrderInv'
  BY JournalKeepsOrder
<1>q. QED BY <1>1, <1>2, MutationInvariance, PTL DEF Spec

(* Two operations of a chat are never under way together, nor is one while another's outcome    *)
(* is unknown: peek passes by what has anything unsettled before it, also after a crash.        *)
THEOREM NeverTogether ==
  Spec => [](\A o, p \in Ops :
               SameChat(o, p) /\ state[o] \in Flying /\ state[p] \in Flying => o = p)
<1>1. RuntimeInv /\ OrderInv =>
        \A o, p \in Ops : SameChat(o, p) /\ state[o] \in Flying /\ state[p] \in Flying => o = p
  BY OneFlying DEF RuntimeInv
<1>q. QED BY <1>1, OrderAlways, PTL

(* An operation is never carried out after one that the owner did later in the chat, whatever   *)
(* answers were late or lost: a call that is still open holds back all that follows.            *)
THEOREM CarriedInOrder ==
  Spec => [][\A i, j \in 1..Len(posted) :
               i < j /\ SameChat(posted[i], posted[j])
                     /\ carried'[posted[i]] # carried[posted[i]] => carried[posted[j]] = 0]_vars
<1> DEFINE InOrder == \A i, j \in 1..Len(posted) :
                        i < j /\ SameChat(posted[i], posted[j])
                              /\ carried'[posted[i]] # carried[posted[i]] => carried[posted[j]] = 0
<1>1. ASSUME RuntimeInv, OrderInv, Next, NEW i \in 1..Len(posted), NEW j \in 1..Len(posted),
             i < j, SameChat(posted[i], posted[j]), carried'[posted[i]] # carried[posted[i]]
      PROVE  carried[posted[j]] = 0
  <2>1. posted[i] \in Ops /\ posted[j] \in Ops
    BY <1>1, LenProperties, ElementOfSeq DEF RuntimeInv, RuntimeTypes
  <2>2. NativeMutate /\ ~Holds(callOf) /\ carried' = [carried EXCEPT ![callOf] = @ + 1]
    BY <1>1 DEF Next, Start, Crash, DrainStep, DispatchStep, ThreadStep, PhoneStep, DeliveryProgress,
                DeliveryFails, BackendDies, BackendTerminated, Post, NativeMutate,
                CallErrs, Prepare, Refuse, EndPhase, RecoverOp, Pick, AskDeleted, CheckFails, Claim,
                AlreadyDeleted, SendMutation, MutateReturns, MutateRejected, MutateFails,
                MutateAborted, Outcome, Notice, Scan, PhoneMove, Skip, BeginDelivery, PreparePlan,
                Accept, Finish, BeginDeletion, RedactVersion, FinishDeletion, phoneVars
  <2>3. posted[i] = callOf
    BY <1>1, <2>1, <2>2 DEF RuntimeInv, ThreemaTypes
  <2>4. state[posted[i]] \in Flying
    BY <1>1, <2>2, <2>3 DEF NativeMutate, RuntimeInv, WorkerInv
  <2>5. state[posted[j]] \in Tried \cup Settled => state[posted[i]] \in Settled \cup {"refused"}
    BY <1>1 DEF OrderInv
  <2>6. state[posted[j]] \notin Tried \cup Settled
    BY <2>4, <2>5 DEF Flying, Settled
  <2>q. QED BY <1>1, <2>1, <2>6 DEF Tried, Settled, RuntimeInv, RuntimeTypes, Once
<1>2. RuntimeInv /\ OrderInv /\ [Next]_vars => [InOrder]_vars
  BY <1>1
<1>q. QED BY <1>2, OrderAlways, PTL DEF Spec

(* An operation that was applied or refused stays so: nothing sends it again, and no restart    *)
(* or late answer of the thread reopens it.                                                     *)
THEOREM SettledStays ==
  Spec => [][\A o \in Ops : state[o] \in Settled \cup {"refused"} => state'[o] = state[o]]_vars
<1> DEFINE Stays == \A o \in Ops : state[o] \in Settled \cup {"refused"} => state'[o] = state[o]
<1>1. ASSUME RuntimeInv, Next PROVE Stays
  <2>1. CASE UNCHANGED state
    BY <2>1
  <2>2. CASE Start
    BY <2>2 DEF Start, Recovered, Settled
  <2>3. ASSUME NEW o \in Ops, Prepare(o) \/ Refuse(o) \/ RecoverOp(o) PROVE Stays
    BY <1>1, <2>3 DEF Prepare, Planned, Refuse, RecoverOp, Observed, Uncertain, Classifiable, Settled,
                      RuntimeInv, RuntimeTypes
  <2>4. CASE Claim
    BY <1>1, <2>4 DEF Claim, NextOp, Candidate, Settled, RuntimeInv, RuntimeTypes
  <2>5. CASE AlreadyDeleted \/ MutateReturns \/ MutateRejected \/ MutateFails \/ MutateAborted
    BY <1>1, <2>5 DEF AlreadyDeleted, MutateReturns, MutateRejected, MutateFails, MutateAborted,
                      Outcome, Settled, RuntimeInv, RuntimeTypes, WorkerInv
  <2>q. QED
    BY <1>1, <2>1, <2>2, <2>3, <2>4, <2>5
    DEF Next, Crash, DrainStep, DispatchStep, ThreadStep, PhoneStep, DeliveryProgress,
        DeliveryFails, BackendDies, BackendTerminated, Post, NativeMutate, CallErrs, EndPhase, Pick,
        AskDeleted, CheckFails, SendMutation, Notice, Scan, PhoneMove, Skip, BeginDelivery,
        PreparePlan, Accept, Finish, BeginDeletion, RedactVersion, FinishDeletion, rowVars
<1>2. RuntimeInv /\ [Next]_vars => [Stays]_vars
  BY <1>1
<1>q. QED BY <1>2, MutationInvariance, PTL DEF Spec

-----------------------------------------------------------------------------
(* The recorded changes of one message.                                    *)

Contents == Texts \cup {"deleted"}
NoneIn(s, m, a, b) == \A k \in a..b : s[k][1] # m
Has(s, m) == \E i \in 1..Len(s) : s[i][1] = m
FirstIs(s, m, c) == \E i \in 1..Len(s) : s[i] = <<m, c>> /\ NoneIn(s, m, 1, i - 1)
LastIs(s, m, c) == \E i \in 1..Len(s) : s[i] = <<m, c>> /\ NoneIn(s, m, i + 1, Len(s))
NextTo(s, m, c, d) ==
  \E i, j \in 1..Len(s) :
    i < j /\ s[i] = <<m, c>> /\ s[j] = <<m, d>> /\ NoneIn(s, m, i + 1, j - 1)
Includes(s, m, c) == \E i \in 1..Len(s) : s[i] = <<m, c>>

(* t has the change <<a, x>> behind those of s; u is s without the first <<a, x>>; *)
(* the changes of m are the same in s and t.                                       *)
Grown(s, t, a, x) ==
  /\ Has(t, a) /\ \A c : LastIs(t, a, c) => c = x
  /\ \A c : Includes(t, a, c) => Includes(s, a, c) \/ c = x
  /\ \A c : FirstIs(t, a, c) => FirstIs(s, a, c) \/ (~Has(s, a) /\ c = x)
  /\ \A c, d : NextTo(t, a, c, d) => NextTo(s, a, c, d) \/ (LastIs(s, a, c) /\ d = x)
Shrunk(s, u, a, x) ==
  /\ Has(s, a) /\ FirstIs(s, a, x) /\ Includes(s, a, x) /\ (~Has(u, a) => LastIs(s, a, x))
  /\ \A c : FirstIs(u, a, c) => NextTo(s, a, x, c)
  /\ \A c : LastIs(u, a, c) => LastIs(s, a, c)
  /\ \A c : Includes(u, a, c) => Includes(s, a, c)
  /\ \A c, d : NextTo(u, a, c, d) => NextTo(s, a, c, d)
Kept(s, t, m) ==
  /\ Has(t, m) <=> Has(s, m)
  /\ \A c : LastIs(t, m, c) => LastIs(s, m, c)
  /\ \A c : Includes(t, m, c) => Includes(s, m, c)
  /\ \A c : FirstIs(t, m, c) => FirstIs(s, m, c)
  /\ \A c, d : NextTo(t, m, c, d) => NextTo(s, m, c, d)

(* What one more change, of some message, adds to those of a message. *)
LEMMA ChangesAppended ==
  ASSUME NEW s \in Seq(Messages \X Contents), NEW a \in Messages, NEW x \in Contents,
         NEW t, t = Append(s, <<a, x>>)
  PROVE  Grown(s, t, a, x) /\ \A m \in Messages \ {a} : Kept(s, t, m)
<1> DEFINE n == Len(s)
<1>1. /\ n \in Nat /\ Len(t) = n + 1 /\ t[n + 1] = <<a, x>>
      /\ \A i \in 1..n : t[i] = s[i]
  BY LenProperties, AppendProperties
<1>2. /\ t[n + 1][1] = a
      /\ \A i \in 1..n : i \in 1..Len(t) /\ i # n + 1
      /\ n + 1 \in 1..Len(t)
      /\ \A i \in 1..Len(t) : i \in 1..n \/ i = n + 1
  BY <1>1
<1> HIDE DEF n
<1>3. ASSUME NEW m \in Messages, NEW i \in 1..n, NEW j \in 1..Len(t)
      PROVE  /\ NoneIn(t, m, 1, i - 1) <=> NoneIn(s, m, 1, i - 1)
             /\ j # n + 1 => (NoneIn(t, m, i + 1, j - 1) <=> NoneIn(s, m, i + 1, j - 1))
             /\ NoneIn(t, m, i + 1, n) <=> NoneIn(s, m, i + 1, n)
             /\ NoneIn(t, m, i + 1, n + 1) => NoneIn(s, m, i + 1, n) /\ m # a
  <2>1. \A k \in 1..(i - 1) : t[k] = s[k]
    BY <1>1, <1>3
  <2>2. \A k \in (i + 1)..n : t[k] = s[k]
    BY <1>1, <1>3
  <2>3. j # n + 1 => \A k \in (i + 1)..(j - 1) : t[k] = s[k]
    BY <1>1, <1>3
  <2>4. n + 1 \in (i + 1)..(n + 1) /\ \A k \in (i + 1)..n : k \in (i + 1)..(n + 1)
    BY <1>1, <1>3
  <2>q. QED BY <2>1, <2>2, <2>3, <2>4, <1>2 DEF NoneIn
<1>4. NoneIn(t, a, 1, n) <=> ~Has(s, a)
  BY <1>1 DEF NoneIn, Has, n
<1>5. Has(t, a)
  BY <1>2 DEF Has
<1>6. ASSUME NEW c, LastIs(t, a, c) PROVE c = x
  <2>1. PICK i \in 1..Len(t) : t[i] = <<a, c>> /\ NoneIn(t, a, i + 1, n + 1)
    BY <1>1, <1>6 DEF LastIs
  <2>2. i = n + 1
    BY <1>2, <1>3, <2>1
  <2>q. QED BY <1>1, <2>1, <2>2
<1>7. ASSUME NEW c, Includes(t, a, c) PROVE Includes(s, a, c) \/ c = x
  <2>1. PICK i \in 1..Len(t) : t[i] = <<a, c>>
    BY <1>7 DEF Includes
  <2>q. QED BY <1>1, <1>2, <2>1 DEF Includes, n
<1>8. ASSUME NEW c, FirstIs(t, a, c) PROVE FirstIs(s, a, c) \/ (~Has(s, a) /\ c = x)
  <2>1. PICK i \in 1..Len(t) : t[i] = <<a, c>> /\ NoneIn(t, a, 1, i - 1)
    BY <1>8 DEF FirstIs
  <2>2. CASE i \in 1..n
    BY <1>1, <1>3, <2>1, <2>2 DEF FirstIs, n
  <2>3. CASE i = n + 1
    <3>1. i - 1 = n
      BY <1>1, <2>3
    <3>q. QED BY <1>1, <1>4, <2>1, <2>3, <3>1
  <2>q. QED BY <1>2, <2>2, <2>3
<1>9. ASSUME NEW m \in Messages, NEW c, NEW d, NextTo(t, m, c, d)
      PROVE  NextTo(s, m, c, d) \/ (LastIs(s, m, c) /\ m = a /\ d = x)
  <2>1. PICK i \in 1..Len(t), j \in 1..Len(t) :
          i < j /\ t[i] = <<m, c>> /\ t[j] = <<m, d>> /\ NoneIn(t, m, i + 1, j - 1)
    BY <1>9 DEF NextTo
  <2>2. i \in 1..n
    BY <1>1, <2>1
  <2>3. CASE j \in 1..n
    BY ZenonT(40), <1>1, <1>2, <1>3, <2>1, <2>2, <2>3 DEF NextTo, n
  <2>4. CASE j = n + 1
    <3>1. j - 1 = n
      BY <1>1, <2>4
    <3>2. NoneIn(s, m, i + 1, n) /\ s[i] = <<m, c>>
      BY <1>1, <1>3, <2>1, <2>2, <3>1
    <3>q. QED BY <1>1, <2>1, <2>2, <2>4, <3>2 DEF LastIs, n
  <2>q. QED BY <1>2, <2>3, <2>4
<1>10. ASSUME NEW m \in Messages \ {a}
       PROVE  /\ Has(t, m) <=> Has(s, m)
              /\ \A c : LastIs(t, m, c) => LastIs(s, m, c)
              /\ \A c : Includes(t, m, c) => Includes(s, m, c)
              /\ \A c : FirstIs(t, m, c) => FirstIs(s, m, c)
  <2>1. \A i \in 1..Len(t) : t[i][1] = m => i \in 1..n
    BY <1>2, <1>10
  <2>2. \A i \in 1..Len(t) : \A c : t[i] = <<m, c>> => i \in 1..n
    BY <2>1
  <2>3. Has(t, m) <=> Has(s, m)
    BY <1>1, <1>2, <2>1 DEF Has, n
  <2>4. ASSUME NEW c, LastIs(t, m, c) PROVE LastIs(s, m, c)
    <3>1. PICK i \in 1..Len(t) : t[i] = <<m, c>> /\ NoneIn(t, m, i + 1, n + 1)
      BY <1>1, <2>4 DEF LastIs
    <3>q. QED BY <1>1, <1>2, <1>3, <2>2, <3>1 DEF LastIs, n
  <2>5. ASSUME NEW c, Includes(t, m, c) PROVE Includes(s, m, c)
    BY <1>1, <2>2, <2>5 DEF Includes, n
  <2>6. ASSUME NEW c, FirstIs(t, m, c) PROVE FirstIs(s, m, c)
    <3>1. PICK i \in 1..Len(t) : t[i] = <<m, c>> /\ NoneIn(t, m, 1, i - 1)
      BY <2>6 DEF FirstIs
    <3>q. QED BY <1>1, <1>2, <1>3, <2>2, <3>1 DEF FirstIs, n
  <2>q. QED BY <2>3, <2>4, <2>5, <2>6
<1>11. \A c, d : NextTo(t, a, c, d) => NextTo(s, a, c, d) \/ (LastIs(s, a, c) /\ d = x)
  BY <1>9
<1>12. \A m \in Messages \ {a} : \A c, d : NextTo(t, m, c, d) => NextTo(s, m, c, d)
  BY <1>9
<1>13. \A m \in Messages \ {a} : Kept(s, t, m)
  BY <1>10, <1>12 DEF Kept
<1>14. Grown(s, t, a, x)
  BY <1>5, <1>6, <1>7, <1>8, <1>11 DEF Grown
<1>q. QED BY <1>13, <1>14

(* What is left of them when the first change is delivered. *)
LEMMA ChangesDelivered ==
  ASSUME NEW s \in Seq(Messages \X Contents), s # <<>>, NEW u, u = Tail(s),
         NEW a \in Messages, NEW x, Head(s) = <<a, x>>
  PROVE  Shrunk(s, u, a, x) /\ \A m \in Messages \ {a} : Kept(s, u, m)
<1> DEFINE n == Len(s)
<1>1. /\ n \in Nat /\ n >= 1 /\ Len(u) = n - 1 /\ s[1] = <<a, x>>
      /\ \A i \in 1..(n - 1) : u[i] = s[i + 1]
  <2>1. n \in Nat /\ n # 0
    BY EmptySeq, LenProperties
  <2>2. Len(u) = n - 1 /\ \A i \in 1..(n - 1) : u[i] = s[i + 1]
    BY HeadTailProperties
  <2>q. QED BY <2>1, <2>2
<1>2. /\ 1 \in 1..n /\ s[1][1] = a
      /\ \A i \in 1..Len(u) : i \in Nat /\ i + 1 \in 1..n /\ u[i] = s[i + 1]
      /\ \A i \in 1..n : i # 1 => i - 1 \in 1..Len(u) /\ u[i - 1] = s[i]
  BY <1>1
<1> HIDE DEF n
<1>3. ASSUME NEW m, NEW i \in 0..n, NEW j \in 0..n, NoneIn(u, m, i, j)
      PROVE  j <= Len(u) /\ i >= 1 => NoneIn(s, m, i + 1, j + 1)
  <2>1. ASSUME NEW k \in (i + 1)..(j + 1), j <= Len(u), i >= 1 PROVE s[k] = u[k - 1] /\ k - 1 \in i..j
    BY <1>1, <2>1
  <2>q. QED BY <1>3, <2>1 DEF NoneIn
<1>4. FirstIs(s, a, x) /\ Includes(s, a, x) /\ Has(s, a)
  BY <1>1, <1>2 DEF FirstIs, Includes, Has, NoneIn, n
<1>5. ASSUME ~Has(u, a) PROVE LastIs(s, a, x)
  <2>1. ASSUME NEW k \in 2..n PROVE s[k][1] # a
    <3>1. k \in 1..n /\ k # 1
      BY <1>1
    <3>2. k - 1 \in 1..Len(u) /\ u[k - 1] = s[k]
      BY <1>2, <3>1
    <3>q. QED BY <1>5, <3>2 DEF Has
  <2>2. NoneIn(s, a, 1 + 1, n)
    BY <2>1 DEF NoneIn
  <2>q. QED BY <1>1, <1>2, <2>2 DEF LastIs, n
<1>6. ASSUME NEW m, NEW c, NEW i \in 1..Len(u), u[i] = <<m, c>>, NoneIn(u, m, 1, i - 1)
      PROVE  IF m = a THEN NextTo(s, a, x, c) ELSE FirstIs(s, m, c)
  <2>1. NoneIn(s, m, 2, i) /\ i + 1 \in 1..n /\ s[i + 1] = <<m, c>> /\ i \in Nat /\ i >= 1
    BY <1>1, <1>2, <1>3, <1>6
  <2>2. CASE m = a
    BY <1>1, <1>2, <2>1, <2>2 DEF NextTo, n
  <2>3. CASE m # a
    <3>1. NoneIn(s, m, 1, i)
      BY <1>2, <2>1, <2>3 DEF NoneIn
    <3>2. (i + 1) - 1 = i
      BY <2>1
    <3>3. NoneIn(s, m, 1, (i + 1) - 1)
      BY <3>1, <3>2
    <3>q. QED BY <2>1, <2>3, <3>3 DEF FirstIs, n
  <2>q. QED BY <2>2, <2>3
<1>7. \A c : FirstIs(u, a, c) => NextTo(s, a, x, c)
  BY <1>6 DEF FirstIs
<1>8. \A m \in Messages \ {a} : \A c : FirstIs(u, m, c) => FirstIs(s, m, c)
  <2> SUFFICES ASSUME NEW m \in Messages \ {a}, NEW c, FirstIs(u, m, c) PROVE FirstIs(s, m, c)
    OBVIOUS
  <2>1. PICK i \in 1..Len(u) : u[i] = <<m, c>> /\ NoneIn(u, m, 1, i - 1)
    BY DEF FirstIs
  <2>q. QED BY <1>6, <2>1
<1>9. ASSUME NEW m \in Messages \ {a} PROVE Has(u, m) <=> Has(s, m)
  <2>1. ASSUME NEW i \in 1..Len(u), u[i][1] = m PROVE Has(s, m)
    BY <1>2, <2>1 DEF Has, n
  <2>2. ASSUME NEW i \in 1..n, s[i][1] = m PROVE Has(u, m)
    <3>1. i - 1 \in 1..Len(u) /\ u[i - 1][1] = m
      BY <1>2, <1>9, <2>2
    <3>q. QED BY <3>1 DEF Has
  <2>q. QED BY <2>1, <2>2 DEF Has, n
<1>10. ASSUME NEW m \in Messages, NEW c, LastIs(u, m, c) PROVE LastIs(s, m, c)
  <2>1. PICK i \in 1..Len(u) : u[i] = <<m, c>> /\ NoneIn(u, m, i + 1, Len(u))
    BY <1>10 DEF LastIs
  <2>2. NoneIn(s, m, i + 1 + 1, n)
    BY <1>1, <1>3, <2>1
  <2>q. QED BY <1>1, <1>2, <2>1, <2>2 DEF LastIs, n
<1>11. ASSUME NEW m \in Messages, NEW c, Includes(u, m, c) PROVE Includes(s, m, c)
  BY <1>2, <1>11 DEF Includes, n
<1>12. ASSUME NEW m \in Messages, NEW c, NEW d, NextTo(u, m, c, d) PROVE NextTo(s, m, c, d)
  <2>1. PICK i \in 1..Len(u), j \in 1..Len(u) :
          i < j /\ u[i] = <<m, c>> /\ u[j] = <<m, d>> /\ NoneIn(u, m, i + 1, j - 1)
    BY <1>12 DEF NextTo
  <2>2. /\ i + 1 \in 1..n /\ j + 1 \in 1..n /\ i + 1 < j + 1 /\ (j + 1) - 1 = j
        /\ s[i + 1] = <<m, c>> /\ s[j + 1] = <<m, d>>
    BY <1>2, <2>1
  <2>3. NoneIn(s, m, (i + 1) + 1, (j - 1) + 1)
    BY <1>1, <1>3, <2>1
  <2>4. (j - 1) + 1 = j
    BY <2>1
  <2>5. NoneIn(s, m, (i + 1) + 1, (j + 1) - 1)
    BY <2>2, <2>3, <2>4
  <2>q. QED BY <2>2, <2>5 DEF NextTo, n
<1>13. Shrunk(s, u, a, x)
  BY <1>4, <1>5, <1>7, <1>10, <1>11, <1>12 DEF Shrunk
<1>14. \A m \in Messages \ {a} : Kept(s, u, m)
  BY <1>8, <1>9, <1>10, <1>11, <1>12 DEF Kept
<1>q. QED BY <1>13, <1>14

(* Whether another change of a message stands behind the first of the list. *)
Later(s, m) == \E i \in 2..Len(s) : s[i][1] = m

LEMMA LaterChanges ==
  ASSUME NEW s \in Seq(Messages \X Contents), NEW m \in Messages
  PROVE  /\ s # <<>> => (Has(Tail(s), m) <=> Later(s, m))
         /\ \A a \in Messages, x \in Contents :
              /\ Later(s, m) => Later(Append(s, <<a, x>>), m)
              /\ s # <<>> => Later(Append(s, <<a, x>>), a)
<1>1. ASSUME s # <<>> PROVE Has(Tail(s), m) <=> Later(s, m)
  <2>1. /\ Len(s) \in Nat /\ Len(Tail(s)) = Len(s) - 1 /\ \A i \in 1..(Len(s) - 1) : Tail(s)[i] = s[i + 1]
    BY <1>1, HeadTailProperties, LenProperties
  <2>2. \A i \in 2..Len(s) : i - 1 \in 1..(Len(s) - 1) /\ Tail(s)[i - 1] = s[i]
    BY <2>1
  <2>3. \A i \in 1..(Len(s) - 1) : i + 1 \in 2..Len(s)
    BY <2>1
  <2>q. QED BY <2>1, <2>2, <2>3 DEF Has, Later
<1>2. ASSUME NEW a \in Messages, NEW x \in Contents
      PROVE  /\ Later(s, m) => Later(Append(s, <<a, x>>), m)
             /\ s # <<>> => Later(Append(s, <<a, x>>), a)
  <2> DEFINE t == Append(s, <<a, x>>)
  <2>1. /\ Len(s) \in Nat /\ Len(t) = Len(s) + 1 /\ t[Len(s) + 1] = <<a, x>>
        /\ \A i \in 1..Len(s) : t[i] = s[i]
    BY LenProperties, AppendProperties
  <2>2. s # <<>> => Len(s) # 0
    BY EmptySeq
  <2> HIDE DEF t
  <2>3. t[Len(s) + 1][1] = a /\ (s # <<>> => Len(s) + 1 \in 2..Len(t))
    BY <2>1, <2>2
  <2>4. \A i \in 2..Len(s) : i \in 2..Len(t) /\ t[i] = s[i]
    BY <2>1
  <2>5. /\ Later(s, m) => Later(t, m)
        /\ s # <<>> => Later(t, a)
    BY <2>3, <2>4 DEF Later
  <2>q. QED BY <2>5 DEF t
<1>q. QED BY <1>1, <1>2

-----------------------------------------------------------------------------
(* What the recorded changes of a message say of it.                       *)

(* s are the changes that wait, now the content in Threema, unseen the       *)
(* messages whose content the journal does not have, missed those of which   *)
(* it missed one, last is what was projected.  The last change that waits is *)
(* the present content, unless that was not seen; no content follows itself; *)
(* the first one is not what was projected last; and the deletion of a       *)
(* message deleted in Threema waits or is done.                              *)
TrailOf(m, s, now, unseen, missed, last, del) ==
  /\ \A c : LastIs(s, m, c) => /\ m \notin unseen => c = now
                               /\ m \in unseen \ missed => c # now
  /\ Includes(s, m, "deleted") => now = "deleted"
  /\ m \notin missed => \A c : ~NextTo(s, m, c, c)
  /\ m \notin missed /\ now # "deleted" /\ last \in Texts =>
       /\ \A c : FirstIs(s, m, c) => c # last
       /\ ~Has(s, m) => (m \in unseen <=> last # now)
  /\ now = "deleted" /\ m \notin unseen /\ ~Has(s, m) => del = "done"
  /\ del # "no" => now = "deleted"

Trail(m) ==
  TrailOf(m, changes, native[m], stale, lost, latest[m], deletion[m])

(* An unfinished plan is that of the first change, or of none that waits. *)
PlanInv ==
  /\ \A m \in Messages : plan[m] = "current" => changes # <<>> /\ Here = m
  /\ dpc = "sent" => Here \in accepted

TrailInv == PlanInv /\ \A m \in Messages : Trail(m)

LEMMA TrailBecomes ==
  ASSUME NEW m \in Messages, NEW s \in Seq(Messages \X Contents), NEW now, NEW x \in Contents,
         NEW unseen, NEW missed, NEW last, NEW del,
         TrailOf(m, s, now, unseen, missed, last, del), now # "deleted", x # now,
         NEW t, NEW unseen2, NEW missed2, m \in unseen => m \in missed2, m \in missed => m \in missed2,
         IF m \in unseen2 THEN t = s ELSE t = Append(s, <<m, x>>)
  PROVE  TrailOf(m, t, x, unseen2, missed2, last, del)
<1>1. CASE m \notin unseen2
  <2>1. t = Append(s, <<m, x>>)
    BY <1>1
  <2>2. Grown(s, t, m, x)
    BY <2>1, ChangesAppended
  <2>q. QED BY <1>1, <2>2 DEF TrailOf, Grown
<1>2. CASE m \in unseen2
  BY <1>2 DEF TrailOf
<1>q. QED BY <1>1, <1>2

LEMMA TrailScanned ==
  ASSUME NEW m \in Messages, NEW s \in Seq(Messages \X Contents), NEW now \in Contents,
         NEW unseen, NEW missed, NEW last, NEW del, TrailOf(m, s, now, unseen, missed, last, del),
         m \in unseen, NEW t, t = Append(s, <<m, now>>), NEW unseen2, m \notin unseen2
  PROVE  TrailOf(m, t, now, unseen2, missed, last, del)
<1>1. Grown(s, t, m, now)
  BY ChangesAppended
<1>q. QED BY <1>1 DEF TrailOf, Grown

LEMMA TrailDelivered ==
  ASSUME NEW m \in Messages, NEW s \in Seq(Messages \X Contents), s # <<>>, NEW now,
         NEW unseen, NEW missed, NEW last, NEW del,
         TrailOf(m, s, now, unseen, missed, last, del), NEW x, Head(s) = <<m, x>>,
         NEW last2, NEW del2,
         m \notin missed /\ now # "deleted" /\ last2 \in Texts => last2 = x,
         now = "deleted" /\ x = "deleted" => del2 = "done",
         del2 # "no" => now = "deleted"
  PROVE  TrailOf(m, Tail(s), now, unseen, missed, last2, del2)
<1> DEFINE u == Tail(s)
<1>1. Shrunk(s, u, m, x)
  BY ChangesDelivered
<1> HIDE DEF u
<1>2. TrailOf(m, u, now, unseen, missed, last2, del2)
  BY <1>1 DEF TrailOf, Shrunk
<1>q. QED BY <1>2 DEF u

(* Changes of other messages do not matter, and nothing else does that leaves *)
(* what Threema and the room have of this one.                                *)
LEMMA TrailOthers ==
  ASSUME NEW m \in Messages, NEW s \in Seq(Messages \X Contents), NEW now, NEW unseen, NEW missed,
         NEW last, NEW del, TrailOf(m, s, now, unseen, missed, last, del),
         NEW last2, last2 = last \/ last2 \notin Texts,
         NEW unseen2, m \in unseen2 <=> m \in unseen, NEW missed2, m \in missed2 <=> m \in missed,
         NEW t, \/ t = s
                \/ \E a \in Messages \ {m}, x \in Contents : t = Append(s, <<a, x>>)
                \/ s # <<>> /\ t = Tail(s) /\ Head(s)[1] # m
  PROVE  TrailOf(m, t, now, unseen2, missed2, last2, del)
<1>1. CASE t = s
  BY <1>1 DEF TrailOf
<1>2. CASE t # s
  <2>1. Kept(s, t, m)
    <3>1. ASSUME NEW a \in Messages \ {m}, NEW x \in Contents, t = Append(s, <<a, x>>) PROVE Kept(s, t, m)
      BY <3>1, ChangesAppended
    <3>2. CASE s # <<>> /\ t = Tail(s) /\ Head(s)[1] # m
      <4>1. PICK a \in Messages, x \in Contents : Head(s) = <<a, x>>
        BY <3>2, HeadTailProperties
      <4>2. m \in Messages \ {a}
        BY <3>2, <4>1
      <4>q. QED BY ONLY s \in Seq(Messages \X Contents), a \in Messages, <3>2, <4>1, <4>2, ChangesDelivered
    <3>q. QED BY <1>2, <3>1, <3>2
  <2>q. QED BY <2>1 DEF TrailOf, Kept
<1>q. QED BY <1>1, <1>2

LEMMA PlanKept ==
  ASSUME ShowTypes, PlanInv, UNCHANGED <<plan, accepted>>, dpc' \in {dpc, "idle"},
         changes' = changes \/ \E e \in Messages \X Contents : changes' = Append(changes, e),
         dpc = "sent" => changes # <<>>
  PROVE  PlanInv'
<1>1. changes # <<>> => changes' # <<>> /\ Head(changes') = Head(changes)
  <2>1. changes \in Seq(Messages \X Contents)
    BY DEF ShowTypes, Contents
  <2>2. ASSUME NEW e \in Messages \X Contents, changes' = Append(changes, e)
        PROVE  changes # <<>> => changes' # <<>> /\ Head(changes') = Head(changes)
    BY <2>1, <2>2, AppendKeepsHead
  <2>q. QED BY <2>2
<1>q. QED BY <1>1 DEF PlanInv, Here

LEMMA TrailsOnBecomes ==
  ASSUME ShowTypes, ThreemaTypes, DeliveryInv, TrailInv, NEW m \in Messages, NEW x \in Contents,
         Becomes(m, x), native[m] \notin {x, "deleted"},
         UNCHANGED <<latest, plan, accepted, deletion, dpc>>
  PROVE  TrailInv'
<1>1. /\ native' = [native EXCEPT ![m] = x]
      /\ \/ stale' = stale \ {m} /\ changes' = Append(changes, <<m, x>>)
         \/ stale' = stale \cup {m} /\ UNCHANGED changes
      /\ lost' = IF m \in stale THEN lost \cup {m} ELSE lost
  BY DEF Becomes
<1>2. changes \in Seq(Messages \X Contents) /\ <<m, x>> \in Messages \X Contents
  BY DEF ShowTypes, Contents
<1>3. PlanInv'
  BY <1>1, <1>2, PlanKept DEF TrailInv, DeliveryInv
<1>4. Trail(m)'
  <2>1. /\ m \in stale => m \in lost'
        /\ m \in lost => m \in lost'
        /\ IF m \in stale' THEN changes' = changes ELSE changes' = Append(changes, <<m, x>>)
        /\ native'[m] = x
    BY <1>1 DEF ThreemaTypes
  <2>2. TrailOf(m, changes, native[m], stale, lost, latest[m], deletion[m])
    BY DEF TrailInv, Trail
  <2>3. TrailOf(m, changes', x, stale', lost', latest[m], deletion[m])
    BY <1>2, <2>1, <2>2, TrailBecomes
  <2>q. QED BY <2>1, <2>3 DEF Trail
<1>5. ASSUME NEW o \in Messages \ {m} PROVE Trail(o)'
  <2>1. /\ native'[o] = native[o]
        /\ o \in stale' <=> o \in stale
        /\ o \in lost' <=> o \in lost
    BY <1>1 DEF ThreemaTypes
  <2>2. TrailOf(o, changes, native[o], stale, lost, latest[o], deletion[o])
    BY DEF TrailInv, Trail
  <2>3. TrailOf(o, changes', native[o], stale', lost', latest[o], deletion[o])
    <3>1. CASE changes' = changes
      BY <1>2, <2>1, <2>2, <3>1, TrailOthers
    <3>2. CASE changes' = Append(changes, <<m, x>>)
      <4>1. Kept(changes, changes', o)
        BY <1>2, <3>2, ChangesAppended
      <4>q. QED BY <2>1, <2>2, <4>1 DEF TrailOf, Kept
    <3>q. QED BY <1>1, <3>1, <3>2
  <2>q. QED BY <2>1, <2>3 DEF Trail
<1>q. QED BY <1>3, <1>4, <1>5 DEF TrailInv

LEMMA TrailsOnScan ==
  ASSUME ShowTypes, ThreemaTypes, DeliveryInv, TrailInv, NEW m \in Messages, Scan(m)
  PROVE  TrailInv'
<1>1. /\ m \in stale /\ stale' = stale \ {m} /\ changes' = Append(changes, <<m, native[m]>>)
      /\ UNCHANGED <<native, lost, latest, plan, accepted, deletion, dpc>>
  BY DEF Scan, showVars
<1>2. changes \in Seq(Messages \X Contents) /\ native[m] \in Contents
      /\ <<m, native[m]>> \in Messages \X Contents
  BY DEF ShowTypes, ThreemaTypes, Contents
<1>3. PlanInv'
  BY <1>1, <1>2, PlanKept DEF TrailInv, DeliveryInv
<1>4. Trail(m)'
  <2>1. m \notin stale'
    BY <1>1
  <2>2. TrailOf(m, changes, native[m], stale, lost, latest[m], deletion[m])
    BY DEF TrailInv, Trail
  <2>3. TrailOf(m, changes', native[m], stale', lost, latest[m], deletion[m])
    BY <1>1, <1>2, <2>1, <2>2, TrailScanned
  <2>q. QED BY <1>1, <2>3 DEF Trail
<1>5. ASSUME NEW o \in Messages \ {m} PROVE Trail(o)'
  <2>1. /\ o \in stale' <=> o \in stale
        /\ \E a \in Messages \ {o}, y \in Contents : changes' = Append(changes, <<a, y>>)
    BY <1>1, <1>2
  <2>2. TrailOf(o, changes, native[o], stale, lost, latest[o], deletion[o])
    BY DEF TrailInv, Trail
  <2>3. TrailOf(o, changes', native[o], stale', lost, latest[o], deletion[o])
    BY <1>2, <2>1, <2>2, TrailOthers
  <2>q. QED BY <1>1, <2>3 DEF Trail
<1>q. QED BY <1>3, <1>4, <1>5 DEF TrailInv

(* The first change is delivered. *)
LEMMA TrailsOnDelivered ==
  ASSUME ShowTypes, TrailInv, changes # <<>>, changes' = Tail(changes),
         UNCHANGED <<native, stale, lost>>,
         \A m \in Messages \ {Here} : latest'[m] = latest[m] /\ deletion'[m] = deletion[m],
         Here \notin lost /\ native[Here] # "deleted" /\ latest'[Here] \in Texts =>
           latest'[Here] = Content,
         native[Here] = "deleted" /\ Content = "deleted" => deletion'[Here] = "done",
         deletion'[Here] # "no" => native[Here] = "deleted"
  PROVE  \A m \in Messages : Trail(m)'
<1>1. changes \in Seq(Messages \X Contents) /\ Here \in Messages /\ Head(changes) = <<Here, Content>>
  <2>1. changes \in Seq(Messages \X Contents)
    BY DEF ShowTypes, Contents
  <2>2. Head(changes) \in Messages \X Contents
    BY <2>1, HeadTailProperties
  <2>q. QED BY <2>1, <2>2 DEF Here, Content
<1>2. ASSUME NEW h \in Messages, h = Here PROVE Trail(h)'
  <2> DEFINE x == Content
             la == latest'[h]
             de == deletion'[h]
  <2>1. TrailOf(h, changes, native[h], stale, lost, latest[h], deletion[h])
    BY DEF TrailInv, Trail
  <2>2. /\ h \notin lost /\ native[h] # "deleted" /\ la \in Texts => la = x
        /\ native[h] = "deleted" /\ x = "deleted" => de = "done"
        /\ de # "no" => native[h] = "deleted"
        /\ Head(changes) = <<h, x>>
    BY <1>1, <1>2
  <2> HIDE DEF x, la, de
  <2>3. TrailOf(h, Tail(changes), native[h], stale, lost, la, de)
    BY <1>1, <2>1, <2>2, TrailDelivered
  <2>q. QED BY <2>3 DEF Trail, la, de
<1>3. ASSUME NEW o \in Messages \ {Here} PROVE Trail(o)'
  <2>1. Head(changes)[1] # o
    BY <1>1
  <2>2. TrailOf(o, changes, native[o], stale, lost, latest[o], deletion[o])
    BY DEF TrailInv, Trail
  <2>3. TrailOf(o, Tail(changes), native[o], stale, lost, latest[o], deletion[o])
    BY ZenonT(40), <1>1, <2>1, <2>2, TrailOthers
  <2>q. QED BY <2>3 DEF Trail
<1>q. QED BY <1>2, <1>3

LEMMA TrailsOnDelivery ==
  ASSUME ShowInv, TrailInv, DeliveryProgress PROVE TrailInv'
<1> DEFINE h == Here
<1>1. ShowTypes /\ DeliveryInv /\ Recordings
  BY DEF ShowInv
<1>2. /\ changes # <<>> /\ h \in Messages /\ Content \in Texts \cup {"deleted"}
      /\ changes \in Seq(Messages \X Contents) /\ Head(changes) = <<h, Content>>
      /\ Content = "deleted" => native[h] = "deleted"
      /\ deletion[h] # "no" => native[h] = "deleted"
  <2>1. changes # <<>>
    BY <1>1 DEF DeliveryProgress, Skip, BeginDelivery, PreparePlan, Accept, Finish, BeginDeletion,
                RedactVersion, FinishDeletion, DeliveryInv
  <2>2. changes \in Seq(Messages \X Contents)
    BY <1>1 DEF ShowTypes, Contents
  <2>3. Head(changes) \in Messages \X Contents
    BY <2>1, <2>2, HeadTailProperties
  <2>4. Head(changes) = <<h, Content>> /\ h \in Messages /\ Content \in Contents
    BY <2>3 DEF Here, Content
  <2>5. Includes(changes, h, Content)
    BY <2>1, <2>2, <2>4, ChangesDelivered DEF Shrunk
  <2>6. TrailOf(h, changes, native[h], stale, lost, latest[h], deletion[h])
    BY <2>4 DEF TrailInv, Trail
  <2>q. QED BY <2>1, <2>2, <2>4, <2>5, <2>6 DEF TrailOf, Contents
<1>3. UNCHANGED <<native, stale, lost>>
  BY DEF DeliveryProgress, Skip, BeginDelivery, PreparePlan, Accept, Finish, BeginDeletion,
         RedactVersion, FinishDeletion, phoneVars
<1>4. changes' = changes => Here' = h
  BY DEF Here
<1>5. ASSUME Delivered, UNCHANGED accepted PROVE PlanInv'
  <2>1. \A m \in Messages : plan'[m] # "current"
    BY <1>1, <1>2, <1>5 DEF Delivered, PlanInv, TrailInv, ShowTypes
  <2>q. QED BY <1>5, <2>1 DEF Delivered, PlanInv
<1> HIDE DEF h
<1>6. CASE Skip
  <2>1. /\ Delivered /\ UNCHANGED <<accepted, deletion>>
        /\ \/ deletion[h] = "done" /\ UNCHANGED latest
           \/ Content # "deleted" /\ latest'[h] \notin Texts
        /\ \A m \in Messages \ {h} : latest'[m] = latest[m]
    <3>1. Delivered /\ UNCHANGED <<accepted, deletion>>
      BY <1>6 DEF Skip
    <3>2. CASE deletion[h] = "done" /\ UNCHANGED <<latest, versions>>
      BY <3>1, <3>2
    <3>3. CASE deletion[h] # "done" /\ Content # "deleted" /\ ~Projects(h, Content) /\ Bound
      <4>1. latest[h] \in {None, "root"}
        BY <3>3 DEF Projects
      <4>2. latest'[h] = "root" /\ \A m \in Messages \ {h} : latest'[m] = latest[m]
        BY <1>1, <1>2, <3>3, <4>1 DEF Bound, ShowTypes, h
      <4>q. QED BY <3>1, <3>3, <4>2, MutationAssumption
    <3>q. QED BY <1>6, <3>2, <3>3 DEF Skip, h
  <2>2. PlanInv'
    BY <1>5, <2>1
  <2>3. \A m \in Messages : Trail(m)'
    <3>1. changes' = Tail(changes)
      BY <2>1 DEF Delivered
    <3>2. /\ h \notin lost /\ native[h] # "deleted" /\ latest'[h] \in Texts => latest'[h] = Content
          /\ native[h] = "deleted" /\ Content = "deleted" => deletion'[h] = "done"
          /\ deletion'[h] # "no" => native[h] = "deleted"
          /\ \A m \in Messages \ {h} : latest'[m] = latest[m] /\ deletion'[m] = deletion[m]
      BY <1>2, <2>1
    <3>q. QED BY <1>1, <1>2, <1>3, <3>1, <3>2, TrailsOnDelivered DEF h
  <2>q. QED BY <2>2, <2>3 DEF TrailInv
<1>7. CASE BeginDelivery
  <2>1. /\ UNCHANGED <<changes, plan, accepted, deletion>> /\ dpc' = "deliver"
        /\ \A m \in Messages : latest'[m] = latest[m] \/ latest'[m] = "root"
    BY <1>1, <1>7 DEF BeginDelivery, Bound, ShowTypes
  <2>q. QED BY <1>1, <1>3, <1>4, <2>1, MutationAssumption DEF TrailInv, PlanInv, Trail, TrailOf, h
<1>8. CASE PreparePlan
  <2>1. /\ dpc = "deliver" /\ plan[h] # "earlier" /\ deletion[h] = "no" /\ Content # "deleted"
        /\ UNCHANGED <<latest, accepted, deletion>>
    BY <1>1, <1>8 DEF PreparePlan, DeliveryInv, h
  <2>2. CASE plan[h] = "none" /\ latest[h] = Content /\ Delivered
    <3>1. changes' = Tail(changes)
      BY <2>2 DEF Delivered
    <3>2. /\ h \notin lost /\ native[h] # "deleted" /\ latest'[h] \in Texts => latest'[h] = Content
          /\ native[h] = "deleted" /\ Content = "deleted" => deletion'[h] = "done"
          /\ deletion'[h] # "no" => native[h] = "deleted"
          /\ \A m \in Messages \ {h} : latest'[m] = latest[m] /\ deletion'[m] = deletion[m]
      BY <2>1, <2>2
    <3>3. \A m \in Messages : Trail(m)'
      BY <1>1, <1>2, <1>3, <3>1, <3>2, TrailsOnDelivered DEF h
    <3>q. QED BY <1>5, <2>1, <2>2, <3>3 DEF TrailInv
  <2>3. CASE plan' = [plan EXCEPT ![h] = "current"] /\ dpc' = "send" /\ UNCHANGED changes
    BY <1>1, <1>2, <1>3, <1>4, <2>1, <2>3 DEF TrailInv, PlanInv, Trail, ShowTypes, h
  <2>q. QED BY <1>8, <2>2, <2>3 DEF PreparePlan, h
<1>9. CASE Accept
  BY <1>1, <1>2, <1>3, <1>4, <1>9 DEF Accept, TrailInv, PlanInv, Trail, h
<1>10. CASE Finish
  <2>1. /\ latest' = [latest EXCEPT ![h] = Content] /\ plan' = [plan EXCEPT ![h] = "none"]
        /\ changes' = Tail(changes) /\ dpc' = "idle" /\ UNCHANGED deletion
        /\ Content # "deleted"
    BY <1>1, <1>10 DEF Finish, DeliveryInv, h
  <2>2. \A m \in Messages : plan'[m] # "current"
    BY <1>1, <1>2, <2>1 DEF PlanInv, TrailInv, ShowTypes, h
  <2>3. PlanInv'
    BY <2>1, <2>2 DEF PlanInv
  <2>4. /\ latest'[h] = Content
        /\ \A m \in Messages \ {h} : latest'[m] = latest[m] /\ deletion'[m] = deletion[m]
    BY <1>1, <1>2, <2>1 DEF ShowTypes
  <2>5. \A m \in Messages : Trail(m)'
    BY <1>1, <1>2, <1>3, <2>1, <2>4, TrailsOnDelivered DEF h
  <2>q. QED BY <2>3, <2>5 DEF TrailInv
<1>11. CASE BeginDeletion
  <2>1. /\ UNCHANGED <<changes, plan, accepted>> /\ dpc' = "redact" /\ native[h] = "deleted"
        /\ deletion' = [deletion EXCEPT ![h] = "begun"] /\ deletion[h] # "done"
        /\ \A m \in Messages : latest'[m] = latest[m] \/ latest'[m] = "root"
    BY <1>1, <1>2, <1>11 DEF BeginDeletion, Bound, ShowTypes, h
  <2>2. ASSUME NEW m \in Messages PROVE Trail(m)'
    <3>1. TrailOf(m, changes, native[m], stale, lost, latest[m], deletion[m])
      BY DEF TrailInv, Trail
    <3>2. CASE m = h
      <4>1. Has(changes, h) /\ deletion'[h] = "begun"
        BY <1>1, <1>2, <2>1, ChangesDelivered DEF Shrunk, ShowTypes
      <4>q. QED BY <1>3, <2>1, <3>1, <3>2, <4>1 DEF Trail, TrailOf
    <3>3. CASE m # h
      <4>1. deletion'[m] = deletion[m]
        BY <1>1, <2>1, <3>3 DEF ShowTypes
      <4>q. QED BY <1>3, <2>1, <3>1, <4>1, MutationAssumption DEF Trail, TrailOf
    <3>q. QED BY <3>2, <3>3
  <2>q. QED BY <1>4, <2>1, <2>2 DEF TrailInv, PlanInv, h
<1>12. CASE RedactVersion
  BY <1>1, <1>2, <1>3, <1>4, <1>12 DEF RedactVersion, TrailInv, PlanInv, Trail, h
<1>13. CASE FinishDeletion
  <2>1. /\ Delivered /\ UNCHANGED <<latest, accepted>> /\ deletion' = [deletion EXCEPT ![h] = "done"]
        /\ deletion[h] = "begun" /\ native[h] = "deleted"
    BY <1>1, <1>2, <1>13 DEF FinishDeletion, DeliveryInv, h
  <2>2. /\ h \notin lost /\ native[h] # "deleted" /\ latest'[h] \in Texts => latest'[h] = Content
        /\ native[h] = "deleted" /\ Content = "deleted" => deletion'[h] = "done"
        /\ deletion'[h] # "no" => native[h] = "deleted"
        /\ \A m \in Messages \ {h} : latest'[m] = latest[m] /\ deletion'[m] = deletion[m]
        /\ changes' = Tail(changes)
    BY <1>1, <1>2, <2>1 DEF ShowTypes, Delivered
  <2>3. \A m \in Messages : Trail(m)'
    BY <1>1, <1>2, <1>3, <2>2, TrailsOnDelivered DEF h
  <2>q. QED BY <1>5, <2>1, <2>3 DEF TrailInv
<1>q. QED
  BY <1>6, <1>7, <1>8, <1>9, <1>10, <1>11, <1>12, <1>13 DEF DeliveryProgress

LEMMA TrailInductive ==
  ASSUME RuntimeInv, ShowInv, TrailInv, [Next]_vars PROVE TrailInv'
<1>1. ShowTypes /\ ThreemaTypes /\ DeliveryInv
  BY DEF ShowInv, RuntimeInv
<1>2. CASE /\ UNCHANGED <<native, stale, lost, changes, latest, plan, accepted, deletion>>
           /\ dpc' \in {dpc, "idle"}
  BY <1>2 DEF TrailInv, PlanInv, Trail, Here
<1>3. CASE NativeMutate
  <2>1. callOf \in Ops /\ MessageOf[callOf] \in Messages
    BY <1>3, MutationAssumption DEF NativeMutate, RuntimeInv, WorkerInv
  <2> DEFINE x == IF callOf \in Deletes THEN "deleted" ELSE TextOf[callOf]
  <2>2. x \in Contents
    BY <2>1, MutationAssumption DEF Ops, Contents
  <2>3. UNCHANGED <<latest, plan, accepted, deletion, dpc>>
    BY <1>3 DEF NativeMutate, showVars
  <2>4. CASE Holds(callOf)
    BY <1>2, <1>3, <2>3, <2>4 DEF NativeMutate
  <2>5. CASE ~Holds(callOf)
    <3>1. Becomes(MessageOf[callOf], x) /\ native[MessageOf[callOf]] \notin {x, "deleted"}
      BY <1>3, <2>5 DEF NativeMutate, Holds
    <3> HIDE DEF x
    <3>q. QED BY <1>1, <2>1, <2>2, <2>3, <3>1, TrailsOnBecomes
  <2>q. QED BY <2>4, <2>5
<1>4. ASSUME NEW m \in Messages, NEW c \in Texts \cup {"deleted"}, PhoneMove(m, c) PROVE TrailInv'
  BY <1>1, <1>4, TrailsOnBecomes DEF PhoneMove, showVars, Contents
<1>5. ASSUME NEW m \in Messages, Scan(m) PROVE TrailInv'
  BY <1>1, <1>5, TrailsOnScan
<1>6. CASE \/ Start \/ Crash \/ DrainStep \/ CallErrs \/ BackendDies \/ BackendTerminated
           \/ DeliveryFails \/ UNCHANGED vars \/ \E o \in Ops : Post(o)
  <2>1. /\ UNCHANGED <<native, stale, lost, changes, latest, plan, accepted, deletion>>
        /\ dpc' \in {dpc, "idle"}
    BY <1>6 DEF Start, Crash, DrainStep, EndPhase, DispatchStep, AskDeleted, CheckFails, Claim,
                AlreadyDeleted, SendMutation, MutateReturns, MutateRejected, MutateFails, Outcome,
                MutateAborted, Prepare, Refuse, RecoverOp, Pick, Notice, CallErrs, BackendDies,
                BackendTerminated, DeliveryFails, Post, vars, phoneVars, showVars
  <2>q. QED BY <1>2, <2>1
<1>7. CASE DeliveryProgress
  BY <1>7, TrailsOnDelivery
<1>q. QED BY <1>3, <1>4, <1>5, <1>6, <1>7 DEF Next, ThreadStep, PhoneStep

LEMMA TrailInitially == Init => TrailInv
<1> SUFFICES ASSUME Init PROVE TrailInv OBVIOUS
<1>1. changes = <<>> /\ Len(changes) = 0
  BY EmptySeq DEF Init
<1>2. ASSUME NEW m \in Messages PROVE Trail(m)
  <2>1. /\ native[m] \in Texts /\ latest[m] = None /\ deletion[m] = "no"
    BY MutationAssumption DEF Init
  <2>q. QED BY <1>1, <2>1, MutationAssumption DEF Trail, TrailOf, Has, FirstIs, LastIs, NextTo, Includes
<1>3. PlanInv
  BY DEF Init, PlanInv
<1>q. QED BY <1>2, <1>3 DEF TrailInv

-----------------------------------------------------------------------------
(* What the room shows against what Threema has.                           *)

Effect(o) == IF o \in Edits THEN TextOf[o] ELSE "gone"

LastPost(s, m, o) ==
  \E i \in 1..Len(s) :
    s[i] = o /\ MessageOf[o] = m /\ \A j \in (i + 1)..Len(s) : MessageOf[s[j]] # m
Unposted(s, m) == \A i \in 1..Len(s) : MessageOf[s[i]] # m

(* The room shows what the owner wrote last, which is not applied. *)
Ahead(m) ==
  \E o \in Ops : /\ LastPost(posted, m, o) /\ shown[m] = Effect(o) /\ state[o] # "APPLIED"
                 /\ call = "done" /\ callOf = o => Holds(o)

DeletesHold ==
  /\ \A o \in Deletes : state[o] = "APPLIED" => Holds(o)
  /\ call = "done" /\ callOf \in Deletes => Holds(callOf)

(* Only the owner takes a message away that Threema has, and until something *)
(* is projected the room shows the owner's own text.                         *)
Own(m) ==
  /\ shown[m] = "gone" /\ native[m] # "deleted" => \E o \in Deletes : LastPost(posted, m, o)
  /\ latest[m] \in {None, "root"} /\ m \notin accepted /\ native[m] # "deleted" =>
       \/ Unposted(posted, m) /\ shown[m] = Original[m]
       \/ \E o \in Ops : LastPost(posted, m, o) /\ shown[m] = Effect(o)

(* A content that was delivered, or accepted and not yet finished, is shown, *)
(* unless the owner is ahead of it.                                          *)
Current(m) ==
  m \notin stale /\ native[m] # "deleted" =>
    /\ m \notin lost /\ ~Has(changes, m) /\ plan[m] # "earlier" =>
         shown[m] = native[m] \/ Ahead(m) \/ Mistaken(m)
    /\ m \in accepted /\ plan[m] = "current" /\ ~Later(changes, m) =>
         shown[m] = native[m] \/ Ahead(m)

RoomInv == DeletesHold /\ \A m \in Messages : Own(m) /\ Current(m)

(* The echo of what the owner did last says nothing new. *)
LEMMA SkippedAgrees ==
  ASSUME RuntimeInv, OrderInv, WordInv, NEW m \in Messages, Own(m), m \notin accepted,
         native[m] # "deleted", ~Projects(m, native[m])
  PROVE  shown[m] = native[m] \/ Ahead(m) \/ (m \in touched /\ native[m] = Original[m])
<1>1. /\ latest[m] \in {None, "root"}
      /\ native[m] = Original[m] \/ Echoes(m, native[m])
  BY DEF Projects
<1>2. /\ Len(posted) \in Nat /\ \A i \in 1..Len(posted) : posted[i] \in Ops
      /\ Len(queue) \in Nat /\ \A i \in 1..Len(queue) : queue[i] \in Ops
  BY LenProperties, ElementOfSeq DEF RuntimeInv, RuntimeTypes
<1>3. ASSUME Echoes(m, native[m])
      PROVE  \E o \in Edits, q \in 1..Len(queue), i \in 1..Len(posted) :
               /\ queue[q] = o /\ posted[i] = o /\ MessageOf[o] = m /\ TextOf[o] = native[m]
               /\ \A p \in (q + 1)..Len(queue) : MessageOf[queue[p]] = m => state[queue[p]] \notin Tried
  <2>1. PICK q \in 1..Len(queue) :
          /\ MessageOf[queue[q]] = m /\ state[queue[q]] \in Tried
          /\ \A p \in (q + 1)..Len(queue) : MessageOf[queue[p]] = m => state[queue[p]] \notin Tried
          /\ queue[q] \in Edits /\ TextOf[queue[q]] = native[m]
    BY <1>3 DEF Echoes
  <2>2. PICK i \in 1..Len(posted) : posted[i] = queue[q]
    BY <1>2, <2>1 DEF OrderInv, Tried
  <2>q. QED BY <2>1, <2>2
<1>4. CASE Unposted(posted, m) /\ shown[m] = Original[m]
  BY <1>1, <1>3, <1>4 DEF Unposted
<1>5. ASSUME NEW o \in Ops, LastPost(posted, m, o), shown[m] = Effect(o)
      PROVE  shown[m] = native[m] \/ Ahead(m) \/ (m \in touched /\ native[m] = Original[m])
  <2>1. PICK k \in 1..Len(posted) :
          posted[k] = o /\ MessageOf[o] = m /\ \A j \in (k + 1)..Len(posted) : MessageOf[posted[j]] # m
    BY <1>5 DEF LastPost
  <2>2. Holds(o) => shown[m] = native[m]
    BY <1>5, <2>1 DEF Holds, Effect, Ops
  <2>3. call = "done" /\ callOf = o => state[o] \in Flying
    BY DEF RuntimeInv, WorkerInv
  <2>4. \A i \in 1..Len(posted) : MessageOf[posted[i]] = m /\ posted[i] # o => i < k
    BY <1>2, <2>1
  <2>5. CASE native[m] = Original[m] /\ m \notin touched
    <3>1. call = "done" /\ callOf = o => Holds(o)
      BY <2>1, <2>5 DEF WordInv
    <3>2. CASE state[o] # "APPLIED"
      BY <1>5, <3>1, <3>2 DEF Ahead
    <3>3. CASE state[o] = "APPLIED"
      <4>1. k \in LastApplied(m)
        BY <1>2, <2>1, <3>3 DEF LastApplied
      <4>2. ASSUME NEW p \in Concerns(m), state[p] \in Flying PROVE FALSE
        <5>1. PICK i \in 1..Len(posted) : posted[i] = p
          BY <4>2 DEF OrderInv, Flying, Concerns
        <5>2. i < k /\ SameChat(posted[i], posted[k])
          BY <2>1, <2>4, <3>3, <4>2, <5>1 DEF Concerns, Flying, SameChat
        <5>3. state[posted[i]] \in Settled \cup {"refused"}
          BY <2>1, <3>3, <5>2 DEF OrderInv, Settled
        <5>q. QED BY <4>2, <5>1, <5>3 DEF Flying, Settled
      <4>3. AsApplied(m)
        BY <2>5, <4>2 DEF WordInv
      <4>q. QED BY <2>1, <2>2, <4>1, <4>3 DEF AsApplied
    <3>q. QED BY <3>2, <3>3
  <2>6. CASE Echoes(m, native[m])
    <3>1. PICK e \in Edits, q \in 1..Len(queue), i \in 1..Len(posted) :
            /\ queue[q] = e /\ posted[i] = e /\ MessageOf[e] = m /\ TextOf[e] = native[m]
            /\ \A p \in (q + 1)..Len(queue) : MessageOf[queue[p]] = m => state[queue[p]] \notin Tried
      BY <1>3, <2>6
    <3>2. CASE e = o
      BY <1>5, <3>1, <3>2 DEF Effect
    <3>3. CASE e # o
      <4>1. i < k /\ SameChat(posted[i], posted[k])
        BY <2>1, <2>4, <3>1, <3>3 DEF SameChat
      <4>2. ASSUME state[o] \in Tried PROVE FALSE
        <5>1. PICK p \in 1..Len(queue) : queue[p] = o
          BY <4>2 DEF OrderInv, Tried
        <5>2. q < p
          BY <2>1, <3>1, <4>1, <5>1 DEF OrderInv
        <5>3. p \in (q + 1)..Len(queue)
          BY <1>2, <5>2
        <5>q. QED BY <2>1, <3>1, <4>2, <5>1, <5>3
      <4>3. state[o] # "APPLIED" /\ ~(call = "done" /\ callOf = o)
        BY <2>3, <4>2 DEF Tried, Flying
      <4>q. QED BY <1>5, <4>3 DEF Ahead
    <3>q. QED BY <3>2, <3>3
  <2>q. QED BY <1>1, <2>5, <2>6
<1>q. QED BY <1>1, <1>4, <1>5 DEF Own

(* The owner stays ahead until his change is applied, which then holds. *)
LEMMA AheadStays ==
  ASSUME NEW m \in Messages, Ahead(m), native[m] # "deleted",
         UNCHANGED posted, shown'[m] = shown[m], native'[m] = native[m],
         \A o \in Concerns(m) :
           /\ state'[o] = "APPLIED" =>
                state[o] = "APPLIED" \/ Holds(o) \/ (call = "done" /\ callOf = o)
           /\ call' = "done" /\ callOf' = o => (call = "done" /\ callOf = o) \/ Holds(o)
  PROVE  shown[m] = native[m] \/ Ahead(m)'
<1>1. PICK o \in Ops : /\ LastPost(posted, m, o) /\ shown[m] = Effect(o) /\ state[o] # "APPLIED"
                       /\ call = "done" /\ callOf = o => Holds(o)
  BY DEF Ahead
<1>2. MessageOf[o] = m /\ o \in Concerns(m)
  BY <1>1 DEF LastPost, Concerns
<1>3. Holds(o) => shown[m] = native[m]
  BY <1>1, <1>2 DEF Holds, Effect, Ops
<1>4. Holds(o)' <=> Holds(o)
  BY <1>2 DEF Holds
<1>5. CASE state'[o] = "APPLIED"
  BY <1>1, <1>2, <1>3, <1>5
<1>6. CASE state'[o] # "APPLIED"
  <2>1. LastPost(posted', m, o) /\ shown'[m] = Effect(o)
    BY <1>1
  <2>2. call' = "done" /\ callOf' = o => Holds(o)'
    BY <1>1, <1>2, <1>4
  <2>q. QED BY <1>6, <2>1, <2>2 DEF Ahead
<1>q. QED BY <1>5, <1>6

(* What stays true of a message while nothing of it is changed or delivered. *)
LEMMA RoomStays ==
  ASSUME NEW m \in Messages, Own(m), Current(m),
         UNCHANGED posted, shown'[m] = shown[m], native'[m] = native[m],
         m \in stale' <=> m \in stale, m \in lost' <=> m \in lost, m \in touched' <=> m \in touched,
         m \in accepted' <=> m \in accepted, latest'[m] = latest[m], plan'[m] = plan[m],
         Has(changes', m) <=> Has(changes, m),
         plan[m] = "current" /\ Later(changes, m) => Later(changes', m),
         \A o \in Concerns(m) :
           /\ state'[o] = "APPLIED" =>
                state[o] = "APPLIED" \/ Holds(o) \/ (call = "done" /\ callOf = o)
           /\ call' = "done" /\ callOf' = o => (call = "done" /\ callOf = o) \/ Holds(o)
  PROVE  Own(m)' /\ Current(m)'
<1>1. Ahead(m) /\ native[m] # "deleted" => shown[m] = native[m] \/ Ahead(m)'
  BY AheadStays
<1>2. Own(m)'
  BY DEF Own
<1>3. Mistaken(m) <=> Mistaken(m)'
  BY DEF Mistaken
<1>q. QED BY <1>1, <1>2, <1>3 DEF Current

(* The owner changes something. *)
LEMMA RoomOnPost ==
  ASSUME RuntimeInv, ShowTypes, OrderInv, RoomInv, NEW o \in Ops, Post(o)
  PROVE  RoomInv'
<1> DEFINE m == MessageOf[o]
<1>1. /\ posted' = Append(posted, o) /\ shown' = [shown EXCEPT ![m] = Effect(o)] /\ shown[m] # "gone"
      /\ UNCHANGED <<state, native, stale, lost, touched, call, callOf, changes, latest, plan, accepted>>
  BY DEF Post, Effect, rowVars, threadVars, phoneVars, showVars
<1>2. /\ Len(posted) \in Nat /\ Len(posted') = Len(posted) + 1 /\ posted'[Len(posted) + 1] = o
      /\ \A i \in 1..Len(posted) : posted'[i] = posted[i]
  BY <1>1, LenProperties, AppendProperties DEF RuntimeInv, RuntimeTypes
<1>3. state[o] = "absent" /\ m \in Messages
  <2>1. \A i \in 1..Len(posted) : posted[i] # o
    BY DEF Post, Contains
  <2>q. QED BY <2>1, MutationAssumption DEF OrderInv
<1>4. ~(call = "done" /\ callOf = o)
  BY <1>3 DEF RuntimeInv, WorkerInv, Flying
<1> HIDE DEF m
<1>5. LastPost(posted', m, o)
  BY <1>2 DEF LastPost, m
<1>6. \A n \in Messages \ {m}, p \in Ops : LastPost(posted, n, p) => LastPost(posted', n, p)
  <2> SUFFICES ASSUME NEW n \in Messages \ {m}, NEW p \in Ops, LastPost(posted, n, p)
               PROVE  LastPost(posted', n, p)
    OBVIOUS
  <2>1. PICK i \in 1..Len(posted) :
          posted[i] = p /\ MessageOf[p] = n /\ \A j \in (i + 1)..Len(posted) : MessageOf[posted[j]] # n
    BY DEF LastPost
  <2>2. i \in 1..Len(posted') /\ posted'[i] = p
    BY <1>2, <2>1
  <2>3. ASSUME NEW j \in (i + 1)..Len(posted') PROVE MessageOf[posted'[j]] # n
    <3>1. j \in (i + 1)..Len(posted) \/ j = Len(posted) + 1
      BY <1>2, <2>3
    <3>2. j \in (i + 1)..Len(posted) => posted'[j] = posted[j]
      BY <1>2, <2>1
    <3>q. QED BY <1>2, <2>1, <3>1, <3>2 DEF m
  <2>q. QED BY <2>1, <2>2, <2>3 DEF LastPost
<1>7. \A n \in Messages \ {m} : Unposted(posted, n) => Unposted(posted', n)
  BY <1>2 DEF Unposted, m
<1>8. /\ shown'[m] = Effect(o)
      /\ \A n \in Messages \ {m} : shown'[n] = shown[n]
  BY <1>1, <1>3 DEF ShowTypes
<1>9. \A p \in Ops : Holds(p)' <=> Holds(p)
  BY <1>1 DEF Holds
<1>10. DeletesHold'
  BY <1>1, <1>9 DEF RoomInv, DeletesHold, RuntimeInv, WorkerInv, Ops
<1>11. Own(m)' /\ Current(m)'
  <2>1. Ahead(m)'
    BY <1>1, <1>3, <1>4, <1>5, <1>8 DEF Ahead
  <2>2. shown'[m] = "gone" => o \in Deletes
    BY <1>8, MutationAssumption DEF Effect, Ops
  <2>3. Own(m)'
    BY <1>1, <1>5, <1>8, <2>2 DEF Own
  <2>q. QED BY <2>1, <2>3 DEF Current
<1>12. ASSUME NEW n \in Messages \ {m} PROVE Own(n)' /\ Current(n)'
  <2>1. Own(n) /\ Current(n)
    BY DEF RoomInv
  <2>2. Own(n)'
    BY <1>1, <1>6, <1>7, <1>8, <2>1 DEF Own, Ops
  <2>3. Ahead(n) => Ahead(n)'
    BY <1>1, <1>6, <1>8, <1>9 DEF Ahead
  <2>q. QED BY <1>1, <1>8, <2>1, <2>2, <2>3 DEF Current, Mistaken
<1>q. QED BY <1>3, <1>10, <1>11, <1>12 DEF RoomInv

(* The content of a message changes, or a scan finds what it is: the journal *)
(* records it behind what waits, or does not have it yet.                    *)
LEMMA RoomOnRecord ==
  ASSUME ShowTypes, PlanInv, \A n \in Messages : Own(n) /\ Current(n),
         NEW m \in Messages, NEW x \in Contents,
         UNCHANGED <<posted, shown, state, latest, plan, accepted>>,
         native'[m] # "deleted" => native[m] # "deleted",
         \A n \in Messages \ {m} : /\ native'[n] = native[n]
                                   /\ n \in stale' <=> n \in stale
                                   /\ n \in lost' <=> n \in lost
                                   /\ n \in touched' <=> n \in touched,
         IF m \in stale' THEN changes' = changes ELSE changes' = Append(changes, <<m, x>>),
         \A o \in Ops : MessageOf[o] # m /\ call' = "done" /\ callOf' = o => call = "done" /\ callOf = o
  PROVE  \A n \in Messages : Own(n)' /\ Current(n)'
<1>1. changes \in Seq(Messages \X Contents)
  BY DEF ShowTypes, Contents
<1>2. Own(m)'
  BY DEF Own
<1>3. ASSUME m \notin stale' PROVE Has(changes', m) /\ (plan[m] = "current" => Later(changes', m))
  <2>1. changes' = Append(changes, <<m, x>>)
    BY <1>3
  <2>2. Has(changes', m)
    BY <1>1, <2>1, ChangesAppended DEF Grown
  <2>3. changes # <<>> => Later(changes', m)
    BY <1>1, <2>1, LaterChanges
  <2>q. QED BY <2>2, <2>3 DEF PlanInv
<1>4. Current(m)'
  BY <1>3 DEF Current
<1>5. ASSUME NEW n \in Messages \ {m} PROVE Own(n)' /\ Current(n)'
  <2>1. /\ Has(changes', n) <=> Has(changes, n)
        /\ Later(changes, n) => Later(changes', n)
    <3>1. CASE changes' = changes
      BY <3>1
    <3>2. CASE changes' = Append(changes, <<m, x>>)
      <4>1. Kept(changes, changes', n)
        BY <1>1, <3>2, ChangesAppended
      <4>2. Later(changes, n) => Later(changes', n)
        BY <1>1, <3>2, LaterChanges
      <4>q. QED BY <4>1, <4>2 DEF Kept
    <3>q. QED BY <3>1, <3>2
  <2>2. \A o \in Concerns(n) :
          /\ state'[o] = "APPLIED" =>
               state[o] = "APPLIED" \/ Holds(o) \/ (call = "done" /\ callOf = o)
          /\ call' = "done" /\ callOf' = o => (call = "done" /\ callOf = o) \/ Holds(o)
    BY DEF Concerns
  <2>q. QED BY <2>1, <2>2, RoomStays
<1>q. QED BY <1>2, <1>4, <1>5

LEMMA DeletesHoldKept ==
  ASSUME DeletesHold, \A m \in Messages : native[m] = "deleted" => native'[m] = "deleted",
         \A o \in Ops : state'[o] = "APPLIED" =>
                          state[o] = "APPLIED" \/ Holds(o) \/ (call = "done" /\ callOf = o),
         call' = "done" /\ callOf' \in Deletes =>
           (call = "done" /\ callOf' = callOf) \/ native'[MessageOf[callOf']] = "deleted"
  PROVE  DeletesHold'
<1>1. \A o \in Deletes : o \in Ops /\ MessageOf[o] \in Messages
  BY MutationAssumption DEF Ops
<1>2. \A o \in Deletes : Holds(o) => Holds(o)'
  BY <1>1 DEF Holds
<1>3. \A o \in Deletes : state'[o] = "APPLIED" => Holds(o)'
  BY <1>1, <1>2 DEF DeletesHold
<1>4. call' = "done" /\ callOf' \in Deletes => native'[MessageOf[callOf']] = "deleted"
  BY <1>1 DEF DeletesHold, Holds
<1>q. QED BY <1>3, <1>4 DEF DeletesHold, Holds

(* The runtime, the process, and calls that change nothing in Threema. *)
LEMMA RoomOnRuntime ==
  ASSUME RuntimeInv, WordInv, RoomInv,
         \/ Start \/ Crash \/ DrainStep \/ CallErrs \/ BackendDies \/ BackendTerminated
         \/ (NativeMutate /\ Holds(callOf)) \/ DeliveryFails \/ UNCHANGED vars
  PROVE  RoomInv'
<1>1. UNCHANGED <<posted, shown, native, stale, lost, touched, changes, latest, plan, accepted>>
  BY DEF Start, Crash, DrainStep, EndPhase, DispatchStep, AskDeleted, CheckFails, Claim,
         AlreadyDeleted, SendMutation, MutateReturns, MutateRejected, MutateFails, Outcome,
         MutateAborted, Prepare, Refuse, RecoverOp, Pick, Notice, CallErrs, BackendDies,
         BackendTerminated, NativeMutate, DeliveryFails, vars, roomVars, phoneVars, showVars
<1>2. \A o \in Ops : state'[o] = "APPLIED" =>
                       state[o] = "APPLIED" \/ Holds(o) \/ (call = "done" /\ callOf = o)
  <2> USE DEF RuntimeInv, rowVars
  <2>1. CASE UNCHANGED state
    BY <2>1
  <2>2. CASE Start
    BY <2>2 DEF Start, Recovered, RuntimeTypes
  <2>3. ASSUME NEW p \in Ops, Prepare(p) \/ Refuse(p) \/ RecoverOp(p)
        PROVE  \A o \in Ops : state'[o] = "APPLIED" => state[o] = "APPLIED" \/ Holds(o)
    BY <2>3 DEF Prepare, Planned, Refuse, RecoverOp, Observed, RuntimeTypes
  <2>4. CASE Claim
    BY <2>4 DEF Claim, RuntimeTypes
  <2>5. CASE AlreadyDeleted
    <3>1. Holds(op)
      BY <2>5 DEF AlreadyDeleted, WordInv
    <3>q. QED BY <2>5, <3>1 DEF AlreadyDeleted, RuntimeTypes
  <2>6. CASE MutateReturns
    <3>1. call = "done" /\ callOf = op /\ state' = [state EXCEPT ![op] = "APPLIED"]
      BY <2>6 DEF MutateReturns, Outcome, WorkerInv
    <3>q. QED BY <3>1 DEF RuntimeTypes
  <2>7. CASE MutateRejected \/ MutateFails \/ MutateAborted
    BY <2>7 DEF MutateRejected, MutateFails, Outcome, MutateAborted, RuntimeTypes
  <2>8. CASE \/ Crash \/ EndPhase \/ AskDeleted \/ CheckFails \/ SendMutation \/ CallErrs \/ BackendDies
             \/ BackendTerminated \/ NativeMutate \/ DeliveryFails \/ UNCHANGED vars
             \/ \E p \in Ops : Pick(p) \/ Notice(p)
    BY <2>1, <2>8 DEF Crash, EndPhase, AskDeleted, CheckFails, SendMutation, CallErrs, BackendDies,
                      BackendTerminated, NativeMutate, DeliveryFails, vars, Pick, Notice
  <2>q. QED BY <2>2, <2>3, <2>4, <2>5, <2>6, <2>7, <2>8 DEF DrainStep, DispatchStep
<1>3. \A o \in Ops : call' = "done" /\ callOf' = o => (call = "done" /\ callOf = o) \/ Holds(o)
  <2> USE DEF threadVars
  <2>1. CASE UNCHANGED <<call, callOf>>
    BY <2>1
  <2>2. CASE Crash \/ SendMutation \/ CallErrs \/ BackendTerminated \/ MutateReturns
             \/ MutateRejected \/ MutateFails
    BY <2>2 DEF Crash, SendMutation, CallErrs, BackendTerminated, MutateReturns, MutateRejected,
                MutateFails, Outcome
  <2>3. CASE NativeMutate /\ Holds(callOf)
    BY <2>3 DEF NativeMutate
  <2>4. CASE \/ Start \/ EndPhase \/ AskDeleted \/ CheckFails \/ Claim \/ AlreadyDeleted \/ MutateAborted
             \/ BackendDies \/ DeliveryFails \/ UNCHANGED vars
             \/ \E p \in Ops : Prepare(p) \/ Refuse(p) \/ RecoverOp(p) \/ Pick(p) \/ Notice(p)
    BY <2>1, <2>4 DEF Start, EndPhase, AskDeleted, CheckFails, Claim, AlreadyDeleted, MutateAborted,
                      BackendDies, DeliveryFails, vars, Prepare, Refuse, RecoverOp, Pick, Notice
  <2>q. QED BY <2>2, <2>3, <2>4 DEF DrainStep, DispatchStep
<1>4. DeletesHold'
  <2>1. call' = "done" /\ callOf' \in Deletes =>
          (call = "done" /\ callOf' = callOf) \/ native'[MessageOf[callOf']] = "deleted"
    BY <1>1, <1>3 DEF Ops, Holds
  <2>q. QED BY <1>1, <1>2, <2>1, DeletesHoldKept DEF RoomInv
<1>5. ASSUME NEW m \in Messages PROVE Own(m)' /\ Current(m)'
  BY <1>1, <1>2, <1>3, RoomStays DEF RoomInv, Concerns
<1>q. QED BY <1>4, <1>5 DEF RoomInv

(* The delivery of a change, for its message. *)
LEMMA RoomOnDelivery ==
  ASSUME RuntimeInv, ShowInv, OrderInv, WordInv, TrailInv, RoomInv, NEW h \in Messages, h = Here,
         DeliveryProgress
  PROVE  Own(h)' /\ Current(h)'
<1>1. /\ ShowTypes /\ DeliveryInv /\ PlanInv /\ Own(h) /\ Current(h) /\ DeletesHold
      /\ h \in accepted => plan[h] # "none"
  BY DEF ShowInv, TrailInv, RoomInv, Recordings
<1>2. UNCHANGED <<posted, state, call, callOf, native, stale, lost, touched>>
  BY DEF DeliveryProgress, Skip, BeginDelivery, PreparePlan, Accept, Finish, BeginDeletion,
         RedactVersion, FinishDeletion, roomVars, rowVars, threadVars, phoneVars
<1>3. /\ changes # <<>> /\ Content \in Contents /\ changes \in Seq(Messages \X Contents)
      /\ Has(changes, h) /\ FirstIs(changes, h, Content)
      /\ h \notin stale /\ ~Has(Tail(changes), h) => Content = native[h]
      /\ Content = "deleted" => native[h] = "deleted"
      /\ deletion[h] # "no" => native[h] = "deleted"
      /\ h \notin lost /\ native[h] # "deleted" /\ latest[h] \in Texts => Content # latest[h]
  <2>1. changes # <<>>
    BY <1>1 DEF DeliveryProgress, Skip, BeginDelivery, PreparePlan, Accept, Finish, BeginDeletion,
                RedactVersion, FinishDeletion, DeliveryInv
  <2>2. changes \in Seq(Messages \X Contents)
    BY <1>1 DEF ShowTypes, Contents
  <2>3. Head(changes) \in Messages \X Contents
    BY <2>1, <2>2, HeadTailProperties
  <2>4. Head(changes) = <<h, Content>> /\ Content \in Contents
    BY <2>3 DEF Here, Content
  <2>5. Shrunk(changes, Tail(changes), h, Content)
    BY <2>1, <2>2, <2>4, ChangesDelivered
  <2>6. TrailOf(h, changes, native[h], stale, lost, latest[h], deletion[h])
    BY DEF TrailInv, Trail
  <2>q. QED BY <2>1, <2>2, <2>4, <2>5, <2>6 DEF TrailOf, Shrunk
<1>4. ASSUME shown'[h] = shown[h] PROVE Ahead(h) => Ahead(h)'
  BY <1>2, <1>4 DEF Ahead, Holds
<1>5. CASE native[h] = "deleted"
  BY <1>2, <1>5 DEF Own, Current
<1>6. CASE Skip /\ native[h] # "deleted"
  <2>1. /\ UNCHANGED <<shown, accepted>> /\ changes' = Tail(changes)
        /\ plan' = [plan EXCEPT ![h] = IF @ = "current" THEN "earlier" ELSE @]
        /\ ~Projects(h, Content)
    BY <1>3, <1>6 DEF Skip, Delivered, roomVars
  <2>2. latest[h] \in {None, "root"} /\ latest'[h] = "root"
    <3>1. latest[h] \in {None, "root"}
      BY <2>1 DEF Projects
    <3>2. Bound
      BY <1>3, <1>6 DEF Skip
    <3>q. QED BY <1>1, <3>1, <3>2 DEF Bound, ShowTypes
  <2>3. Own(h)'
    BY <1>1, <1>2, <2>1, <2>2 DEF Own
  <2>4. ASSUME h \notin stale, ~Has(Tail(changes), h), plan'[h] # "earlier"
        PROVE  shown'[h] = native'[h] \/ Ahead(h)' \/ Mistaken(h)'
    <3>1. plan[h] = "none" /\ h \notin accepted /\ Content = native[h]
      BY <1>1, <1>3, <2>1, <2>4 DEF ShowTypes
    <3>2. shown[h] = native[h] \/ Ahead(h) \/ (h \in touched /\ native[h] = Original[h])
      BY <1>1, <1>6, <2>1, <3>1, SkippedAgrees
    <3>q. QED BY <1>2, <1>4, <2>1, <2>2, <3>2 DEF Mistaken
  <2>5. plan'[h] # "current"
    BY <1>1, <2>1 DEF ShowTypes
  <2>q. QED BY <1>2, <2>1, <2>3, <2>4, <2>5 DEF Current
<1>7. CASE BeginDelivery
  <2>1. /\ UNCHANGED <<shown, changes, plan, accepted>>
        /\ latest'[h] = IF latest[h] = None THEN "root" ELSE latest[h]
    BY <1>1, <1>7 DEF BeginDelivery, Bound, ShowTypes, roomVars
  <2>2. Own(h)'
    BY <1>1, <1>2, <2>1 DEF Own
  <2>q. QED BY <1>1, <1>2, <1>3, <1>4, <2>1, <2>2 DEF Current
<1>8. CASE PreparePlan /\ native[h] # "deleted"
  <2>1. /\ UNCHANGED <<shown, latest, accepted>> /\ Content # "deleted"
        /\ \/ plan[h] = "none" /\ latest[h] = Content /\ Delivered
           \/ plan' = [plan EXCEPT ![h] = "current"] /\ UNCHANGED changes /\ plan[h] # "earlier"
    BY <1>1, <1>8 DEF PreparePlan, DeliveryInv, roomVars
  <2>2. Own(h)'
    BY <1>1, <1>2, <2>1 DEF Own
  <2>3. CASE plan[h] = "none" /\ latest[h] = Content /\ Delivered
    <3>1. h \in lost /\ plan'[h] = "none"
      BY <1>1, <1>3, <1>8, <2>1, <2>3 DEF Contents, Delivered, ShowTypes
    <3>q. QED BY <1>2, <2>2, <3>1 DEF Current
  <2>4. CASE plan' = [plan EXCEPT ![h] = "current"] /\ UNCHANGED changes /\ plan[h] # "earlier"
    <3>1. h \in accepted => plan[h] = "current"
      BY <1>1, <2>4 DEF ShowTypes
    <3>q. QED BY <1>1, <1>2, <1>3, <1>4, <2>1, <2>2, <2>4, <3>1 DEF Current
  <2>q. QED BY <2>1, <2>3, <2>4
<1>9. CASE Accept /\ native[h] # "deleted"
  <2>1. /\ accepted' = accepted \cup {h} /\ UNCHANGED <<changes, latest, plan>>
        /\ shown' = IF h \in accepted \/ shown[h] = "gone" THEN shown ELSE [shown EXCEPT ![h] = Content]
        /\ plan[h] = "current" /\ Content \in Texts
    BY <1>1, <1>3, <1>9 DEF Accept, DeliveryInv, Contents
  <2>2. shown'[h] = "gone" => shown[h] = "gone"
    BY <1>1, <2>1, MutationAssumption DEF ShowTypes
  <2>3. Own(h)'
    BY <1>1, <1>2, <1>9, <2>1, <2>2 DEF Own
  <2>4. ASSUME h \notin stale, ~Later(changes, h) PROVE shown'[h] = native[h] \/ Ahead(h)'
    <3>1. Content = native[h]
      BY <1>3, <2>4, LaterChanges
    <3>2. CASE h \in accepted
      <4>1. shown' = shown
        BY <2>1, <3>2
      <4>q. QED BY <1>1, <1>4, <1>9, <2>1, <2>4, <3>2, <4>1 DEF Current
    <3>3. CASE h \notin accepted /\ shown[h] = "gone"
      <4>1. PICK o \in Deletes : LastPost(posted, h, o)
        BY <1>1, <1>9, <3>3 DEF Own
      <4>2. MessageOf[o] = h /\ ~Holds(o) /\ o \in Ops /\ Effect(o) = "gone"
        BY <1>9, <4>1, MutationAssumption DEF LastPost, Holds, Ops, Effect
      <4>3. state[o] # "APPLIED" /\ ~(call = "done" /\ callOf = o)
        BY <1>1, <4>2, <4>1 DEF DeletesHold
      <4>4. Ahead(h)
        BY <3>3, <4>1, <4>2, <4>3 DEF Ahead
      <4>q. QED BY <1>4, <2>1, <3>3, <4>4
    <3>4. CASE h \notin accepted /\ shown[h] # "gone"
      BY <1>1, <2>1, <3>1, <3>4 DEF ShowTypes
    <3>q. QED BY <3>2, <3>3, <3>4
  <2>q. QED BY <1>2, <1>3, <2>1, <2>3, <2>4 DEF Current
<1>10. CASE Finish /\ native[h] # "deleted"
  <2>1. /\ latest' = [latest EXCEPT ![h] = Content] /\ accepted' = accepted \ {h}
        /\ changes' = Tail(changes) /\ UNCHANGED shown /\ dpc = "sent" /\ Content # "deleted"
    BY <1>1, <1>10 DEF Finish, DeliveryInv, roomVars
  <2>2. h \in accepted /\ plan[h] = "current" /\ latest'[h] \in Texts
    BY <1>1, <1>3, <2>1 DEF PlanInv, DeliveryInv, Contents, ShowTypes
  <2>3. Own(h)'
    BY <1>1, <1>2, <2>1, <2>2, MutationAssumption DEF Own
  <2>4. ASSUME h \notin stale, ~Has(Tail(changes), h) PROVE shown'[h] = native[h] \/ Ahead(h)'
    BY <1>1, <1>3, <1>4, <1>10, <2>1, <2>2, <2>4, LaterChanges DEF Current
  <2>q. QED BY <1>2, <2>1, <2>3, <2>4 DEF Current
<1>11. CASE BeginDeletion \/ RedactVersion \/ FinishDeletion
  BY <1>1, <1>3, <1>5, <1>11 DEF BeginDeletion, RedactVersion, FinishDeletion, DeliveryInv
<1>q. QED
  BY <1>5, <1>6, <1>7, <1>8, <1>9, <1>10, <1>11 DEF DeliveryProgress

(* The delivery of a change, for the other messages. *)
LEMMA RoomOnDeliveryElsewhere ==
  ASSUME ShowInv, TrailInv, RoomInv, NEW m \in Messages, m # Here, DeliveryProgress
  PROVE  Own(m)' /\ Current(m)'
<1>1. /\ ShowTypes /\ DeliveryInv /\ PlanInv /\ Own(m) /\ Current(m)
  BY DEF ShowInv, TrailInv, RoomInv
<1>2. UNCHANGED <<posted, state, call, callOf, native, stale, lost, touched>>
  BY DEF DeliveryProgress, Skip, BeginDelivery, PreparePlan, Accept, Finish, BeginDeletion,
         RedactVersion, FinishDeletion, roomVars, rowVars, threadVars, phoneVars
<1>3. changes # <<>> /\ changes \in Seq(Messages \X Contents) /\ Here \in Messages
      /\ Head(changes) \in Messages \X Contents
  <2>1. changes # <<>>
    BY <1>1 DEF DeliveryProgress, Skip, BeginDelivery, PreparePlan, Accept, Finish, BeginDeletion,
                RedactVersion, FinishDeletion, DeliveryInv
  <2>2. changes \in Seq(Messages \X Contents)
    BY <1>1 DEF ShowTypes, Contents
  <2>q. QED BY <2>1, <2>2, HeadTailProperties DEF Here
<1>4. changes' = changes \/ changes' = Tail(changes)
  BY DEF DeliveryProgress, Skip, BeginDelivery, PreparePlan, Accept, Finish, BeginDeletion,
         RedactVersion, FinishDeletion, Delivered
<1>5. Has(changes', m) <=> Has(changes, m)
  <2>1. CASE changes' = changes
    BY <2>1
  <2>2. CASE changes' = Tail(changes)
    <3>1. Head(changes) = <<Here, Content>> /\ m \in Messages \ {Here}
      BY <1>3 DEF Here, Content
    <3>2. Kept(changes, changes', m)
      BY <1>3, <2>2, <3>1, ChangesDelivered
    <3>q. QED BY <3>2 DEF Kept
  <2>q. QED BY <1>4, <2>1, <2>2
<1>6. plan[m] # "current"
  BY <1>1 DEF PlanInv
<1>7. /\ latest'[m] = latest[m] /\ plan'[m] = plan[m] /\ shown'[m] = shown[m]
      /\ m \in accepted' <=> m \in accepted
  <2> USE <1>1, <1>3 DEF ShowTypes, roomVars
  <2>1. CASE Skip
    BY <2>1 DEF Skip, Delivered, Bound
  <2>2. CASE BeginDelivery \/ BeginDeletion
    BY <2>2 DEF BeginDelivery, BeginDeletion, Bound
  <2>3. CASE PreparePlan
    BY <2>3 DEF PreparePlan, Delivered
  <2>4. CASE Accept
    BY <2>4 DEF Accept
  <2>5. CASE Finish
    BY <2>5 DEF Finish
  <2>6. CASE RedactVersion
    BY <2>6 DEF RedactVersion
  <2>7. CASE FinishDeletion
    BY <2>7 DEF FinishDeletion, Delivered
  <2>q. QED BY <2>1, <2>2, <2>3, <2>4, <2>5, <2>6, <2>7 DEF DeliveryProgress
<1>q. QED BY <1>1, <1>2, <1>5, <1>6, <1>7, RoomStays

LEMMA RoomInductive ==
  ASSUME RuntimeInv, ShowInv, OrderInv, WordInv, TrailInv, RoomInv, [Next]_vars
  PROVE  RoomInv'
<1>1. ShowTypes /\ ThreemaTypes /\ PlanInv /\ DeletesHold /\ \A m \in Messages : Own(m) /\ Current(m)
  BY DEF ShowInv, RuntimeInv, TrailInv, RoomInv
<1>2. ASSUME NEW o \in Ops, Post(o) PROVE RoomInv'
  BY <1>1, <1>2, RoomOnPost
<1>3. CASE NativeMutate /\ ~Holds(callOf)
  <2> DEFINE m == MessageOf[callOf]
             x == IF callOf \in Deletes THEN "deleted" ELSE TextOf[callOf]
  <2>1. callOf \in Ops /\ m \in Messages
    BY <1>3, MutationAssumption DEF NativeMutate, RuntimeInv, WorkerInv
  <2>2. x \in Contents
    BY <2>1, MutationAssumption DEF Ops, Contents
  <2>3. /\ native[m] # "deleted" /\ Becomes(m, x)
        /\ UNCHANGED <<posted, shown, state, latest, plan, accepted, callOf, touched>>
    BY <1>3 DEF NativeMutate, roomVars, rowVars, showVars
  <2>4. /\ native' = [native EXCEPT ![m] = x]
        /\ lost' = IF m \in stale THEN lost \cup {m} ELSE lost
        /\ \A n \in Messages \ {m} : n \in stale' <=> n \in stale
        /\ IF m \in stale' THEN changes' = changes ELSE changes' = Append(changes, <<m, x>>)
    BY <2>3 DEF Becomes
  <2>5. callOf \in Deletes => native'[m] = "deleted"
    BY <1>1, <2>1, <2>4 DEF ThreemaTypes
  <2>6. \A o \in Ops : MessageOf[o] # m /\ call' = "done" /\ callOf' = o => call = "done" /\ callOf = o
    BY <2>3
  <2> HIDE DEF m, x
  <2>7. \A n \in Messages : native[n] = "deleted" => native'[n] = "deleted"
    BY <1>1, <2>1, <2>3, <2>4 DEF ThreemaTypes
  <2>8. \A n \in Messages \ {m} : /\ native'[n] = native[n]
                                  /\ n \in stale' <=> n \in stale
                                  /\ n \in lost' <=> n \in lost
                                  /\ n \in touched' <=> n \in touched
    BY <1>1, <2>3, <2>4 DEF ThreemaTypes
  <2>9. DeletesHold'
    BY <1>1, <2>3, <2>5, <2>7, DeletesHoldKept DEF m
  <2>10. \A n \in Messages : Own(n)' /\ Current(n)'
    BY <1>1, <2>1, <2>2, <2>3, <2>4, <2>6, <2>8, RoomOnRecord
  <2>q. QED BY <2>9, <2>10 DEF RoomInv
<1>4. ASSUME NEW m \in Messages, NEW x \in Contents, PhoneMove(m, x) PROVE RoomInv'
  <2>1. /\ native[m] # "deleted" /\ Becomes(m, x) /\ touched' = touched \cup {m}
        /\ UNCHANGED <<posted, shown, state, latest, plan, accepted, call, callOf>>
    BY <1>4 DEF PhoneMove, roomVars, rowVars, showVars, threadVars
  <2>2. /\ native' = [native EXCEPT ![m] = x]
        /\ lost' = IF m \in stale THEN lost \cup {m} ELSE lost
        /\ \A n \in Messages \ {m} : n \in stale' <=> n \in stale
        /\ IF m \in stale' THEN changes' = changes ELSE changes' = Append(changes, <<m, x>>)
    BY <2>1 DEF Becomes
  <2>3. \A n \in Messages : native[n] = "deleted" => native'[n] = "deleted"
    BY <1>1, <2>1, <2>2 DEF ThreemaTypes
  <2>4. \A n \in Messages \ {m} : /\ native'[n] = native[n]
                                  /\ n \in stale' <=> n \in stale
                                  /\ n \in lost' <=> n \in lost
                                  /\ n \in touched' <=> n \in touched
    BY <1>1, <2>1, <2>2 DEF ThreemaTypes
  <2>5. DeletesHold'
    BY <1>1, <2>1, <2>3, DeletesHoldKept
  <2>6. \A n \in Messages : Own(n)' /\ Current(n)'
    BY <1>1, <2>1, <2>2, <2>4, RoomOnRecord
  <2>q. QED BY <2>5, <2>6 DEF RoomInv
<1>5. ASSUME NEW m \in Messages, Scan(m) PROVE RoomInv'
  <2>1. /\ stale' = stale \ {m} /\ changes' = Append(changes, <<m, native[m]>>)
        /\ UNCHANGED <<posted, shown, state, native, lost, touched, latest, plan, accepted, call, callOf>>
    BY <1>5 DEF Scan, roomVars, rowVars, showVars, threadVars
  <2>2. native[m] \in Contents
    BY <1>1 DEF ThreemaTypes, Contents
  <2>3. DeletesHold'
    BY <1>1, <2>1, DeletesHoldKept
  <2>4. \A n \in Messages : Own(n)' /\ Current(n)'
    BY <1>1, <2>1, <2>2, RoomOnRecord
  <2>q. QED BY <2>3, <2>4 DEF RoomInv
<1>6. CASE DeliveryProgress
  <2>1. UNCHANGED <<state, call, callOf, native>>
    BY <1>6 DEF DeliveryProgress, Skip, BeginDelivery, PreparePlan, Accept, Finish, BeginDeletion,
                RedactVersion, FinishDeletion, rowVars, threadVars, phoneVars
  <2>2. DeletesHold'
    BY <1>1, <2>1, DeletesHoldKept
  <2>q. QED BY <1>6, <2>2, RoomOnDelivery, RoomOnDeliveryElsewhere DEF RoomInv
<1>q. QED
  BY <1>2, <1>3, <1>4, <1>5, <1>6, RoomOnRuntime DEF Next, ThreadStep, PhoneStep, Contents

LEMMA RoomInitially == Init => RoomInv
<1> SUFFICES ASSUME Init PROVE RoomInv OBVIOUS
<1>1. Len(posted) = 0
  BY EmptySeq DEF Init
<1>2. ASSUME NEW m \in Messages PROVE Own(m) /\ Current(m)
  <2>1. shown[m] = Original[m] /\ shown[m] # "gone"
    BY MutationAssumption DEF Init
  <2>2. Unposted(posted, m)
    BY <1>1 DEF Unposted
  <2>q. QED BY <2>1, <2>2 DEF Init, Own, Current
<1>3. DeletesHold
  BY DEF Init, DeletesHold, Ops
<1>q. QED BY <1>2, <1>3 DEF RoomInv

(* Once everything of a message is applied and delivered, the room shows what Threema has,      *)
(* however the edits of both sides crossed: the journal keeps every change until it is          *)
(* delivered (TrailInv), reconcileOutboundEcho of journal-sink.ts passes over one only if the   *)
(* room shows it already (SkippedAgrees), and what the owner wrote last is applied last.        *)
THEOREM RestAgrees == Spec => []QuietAgrees
<1>1. Init => OrderInv /\ WordInv /\ TrailInv /\ RoomInv
  BY WordInitially, TrailInitially, RoomInitially
<1>2. /\ RuntimeInv /\ ShowInv /\ OrderInv /\ WordInv /\ TrailInv /\ RoomInv /\ [Next]_vars
      => OrderInv' /\ WordInv' /\ TrailInv' /\ RoomInv'
  BY JournalKeepsOrder, WordInductive, TrailInductive, RoomInductive
<1>3. RuntimeInv /\ ShowInv /\ TrailInv /\ RoomInv => QuietAgrees
  <2> SUFFICES ASSUME RuntimeInv, ShowInv, TrailInv, RoomInv,
                      NEW m \in Messages, m \notin lost, Quiet(m), ~Mistaken(m)
               PROVE  Agrees(m)
    BY DEF QuietAgrees
  <2>1. m \notin stale /\ plan[m] = "none" /\ ~Has(changes, m)
    BY DEF Quiet, Has
  <2>2. CASE native[m] = "deleted"
    <3>1. deletion[m] = "done"
      BY <2>1, <2>2 DEF TrailInv, Trail, TrailOf
    <3>q. QED BY <2>2, <3>1 DEF ShowInv, NothingLeft, Agrees
  <2>3. CASE native[m] # "deleted"
    <3>1. shown[m] = native[m] \/ Ahead(m)
      BY <2>1, <2>3 DEF RoomInv, Current
    <3>2. ~Ahead(m)
      BY DEF Ahead, LastPost, Quiet
    <3>q. QED BY <2>3, <3>1, <3>2 DEF Agrees
  <2>q. QED BY <2>2, <2>3
<1>q. QED BY <1>1, <1>2, <1>3, MutationInvariance, PTL DEF Spec
=============================================================================
