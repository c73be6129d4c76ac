------------------------------- MODULE Rooms -------------------------------
(***************************************************************************)
(* The room of one contact's conversation, and the two who work on it: the *)
(* sink, which delivers the journal of messages and metadata, and the      *)
(* worker that carries out the owner's `pm` commands.  Each has a          *)
(* PortalManager and a GhostManager of its own, so that the promises       *)
(* within a manager do not order one of them against the other.  Both find *)
(* or create the room, verify and bind it, prepare the ghosts and bring    *)
(* the room's members in line with a snapshot of its state; the sink       *)
(* desires the profile's ghost besides the contact's, the worker does not. *)
(*                                                                         *)
(* The homeserver is external: aliases, membership, and the stream of      *)
(* membership events that comes back.  RoomStateRouter follows it: a ghost *)
(* is registered from a snapshot, and afterwards hears of the room while   *)
(* its tracker has it.  Its queue is one lock, tail.  A ghost's own join   *)
(* or departure is reported to its tracker besides, when the answer is     *)
(* back: what the other actor or the stream did in between comes first.    *)
(* An event whose transaction fails is decoded again behind later ones.    *)
(***************************************************************************)
EXTENDS Naturals, Sequences

CONSTANTS
  Profile, Contact, Owner, \* the profile's ghost, the contact's, the owner
  Sender,                  \* who sent the message of the journal
  Sink, Worker,            \* the actors
  None,
  Commands,                \* number of `pm` commands the owner gives
  Joins,                   \* may the session join the owner to the management room?
  MaxFaults                \* bound on failed calls, crashes and departures

ASSUME RoomsAssumption ==
  /\ Profile # Contact /\ Owner \notin {Profile, Contact}
  /\ Sink # Worker /\ None \notin {"leave", "invite", "join", "ready", "gone"}
  /\ Commands \in Nat /\ Joins \in BOOLEAN /\ MaxFaults \in Nat

VARIABLES
  alias,     \* the room the conversation's alias leads to, 0 if none
  member,    \* one function from users to memberships for every room there is
  unheard,   \* of each ghost: the last membership whose event waits to be decoded, or None
  late,      \* and those whose transaction has failed, and waits behind the others
  portal,    \* durable: the room bound to the conversation, 0 if none
  ghosts,    \* durable: ghosts that are bound
  message,   \* durable: "none", "pending" or "delivered"
  metadata,  \* durable: does a snapshot wait to be delivered?
  asked,     \* commands the owner has given
  answered,  \* durable: commands acknowledged, in their order
  result,    \* durable: the result saved for a command
  prepared,  \* durable: the content the answer's encrypted event was made from
  replies,   \* the answers Matrix has
  open,      \* has the command worker been created for it?
  tracker,   \* of each ghost: "closed", or is the room "in" or "out" of its set?
  misled,    \* history: ghosts whose tracker was told, out of turn, what held no more
  tail,      \* the membership an actor's registration of a ghost has read, or None
  pc, job,   \* what each actor does next; what the sink delivers
  room,      \* the room each actor works on
  seen,      \* the snapshot of the ghosts' memberships it goes by
  todo,      \* the ghosts it has still to see to, the profile's first
  faults

homeVars == <<alias, member>>
streamVars == <<unheard, late>>
portalVars == <<portal, ghosts>>
journalVars == <<message, metadata>>
answerVars == <<result, prepared, replies>>
commandVars == <<asked, answered, answerVars, open>>
routerVars == <<tracker, misled, tail>>
actorVars == <<pc, job, room, seen, todo>>
vars == <<homeVars, streamVars, portalVars, journalVars, commandVars, routerVars, actorVars,
          faults>>

People == {Profile, Contact}
Actors == {Sink, Worker}

Nobody == [u \in People \cup {Owner} |-> "leave"]
Unseen == [u \in People |-> "leave"]
Home == IF portal = 0 THEN Nobody ELSE member[portal]
Results == {"ready", "gone"}

Init ==
  /\ alias = 0 /\ member = <<>>
  /\ unheard = [u \in People |-> None] /\ late = [u \in People |-> {}]
  /\ portal = 0 /\ ghosts = {}
  /\ message = "none" /\ metadata = FALSE
  /\ asked = 0 /\ answered = 0 /\ open = FALSE
  /\ result = [k \in 1..Commands |-> None] /\ prepared = result /\ replies = result
  /\ tracker = [u \in People |-> "closed"] /\ misled = {} /\ tail = [a \in Actors |-> None]
  /\ pc = [a \in Actors |-> "idle"] /\ job = "none"
  /\ room = [a \in Actors |-> 0]
  /\ seen = [a \in Actors |-> Unseen] /\ todo = [a \in Actors |-> {}]
  /\ faults = 0

(* Plausible bugs; each stands in place of the definition named beside it. *)
NoAlias(r) == alias                                            \* Named
BeforeMembers(a) == pc[a] = "add"                              \* Finished
AtOnce == TRUE                                                 \* Free
Undelivered == message = "pending" /\ portal # 0               \* Active
Forgotten(k) == None                                           \* Saved

(***************************************************************************)
(* What surrounds the two.                                                 *)
(***************************************************************************)

(* Threema has a message for the journal, which the owner or the contact sent. *)
Post ==
  /\ message = "none" /\ message' = "pending"
  /\ UNCHANGED <<homeVars, streamVars, portalVars, metadata, commandVars, routerVars, actorVars, faults>>

(* An epoch of the synchronisation commits, after a start, a resync and periodicMs.  The  *)
(* sink learns of it when it is idle, so that it need not come before.                    *)
Epoch ==
  /\ pc[Sink] = "idle" /\ ~metadata /\ metadata' = TRUE
  /\ UNCHANGED <<homeVars, streamVars, portalVars, message, commandVars, routerVars, actorVars, faults>>

(* The owner writes in the management room, which a notice has made. *)
Ask ==
  /\ asked < Commands /\ asked' = asked + 1
  /\ UNCHANGED <<homeVars, streamVars, portalVars, journalVars, answered, answerVars, open, routerVars, actorVars, faults>>

OwnerLeaves ==
  /\ faults < MaxFaults /\ faults' = faults + 1
  /\ portal # 0 /\ Home[Owner] = "join"
  /\ member' = [member EXCEPT ![portal][Owner] = "leave"]
  /\ UNCHANGED <<alias, streamVars, portalVars, journalVars, commandVars, routerVars, actorVars>>

(***************************************************************************)
(* RoomStateRouter.  Registrations and events take their turns; what a     *)
(* ghost's own call reports does not wait for them.                        *)
(***************************************************************************)

Free == \A a \in Actors : tail[a] = None
Followed(u, s) == IF tracker[u] = "closed" THEN "closed"
                  ELSE IF s = "join" THEN "in" ELSE "out"
Holds(u, s) == s = "join" <=> Home[u] = "join"

(* The homeserver sends the event of a membership. *)
Tell(u, s) == unheard' = [unheard EXCEPT ![u] = s] /\ UNCHANGED late

(* Events are decoded in their order, so that the last of them is what the tracker keeps. *)
Hear(u) ==
  /\ unheard[u] # None /\ Free
  /\ tracker' = [tracker EXCEPT ![u] = Followed(u, unheard[u])]
  /\ unheard' = [unheard EXCEPT ![u] = None]
  /\ misled' = misled \ {u}
  /\ UNCHANGED <<homeVars, late, portalVars, journalVars, commandVars, tail, actorVars, faults>>

(* The tracker is told of a membership out of the order of the events. *)
Informed(u, s) ==
  /\ tracker' = [tracker EXCEPT ![u] = Followed(u, s)]
  /\ misled' = IF tracker[u] = "closed" \/ Holds(u, s) THEN misled \ {u} ELSE misled \cup {u}

(* A transaction fails, before the router has its event or after, and is put behind those *)
(* to come.  It counts as two faults, which bounds what it is combined with.              *)
Stall(u) ==
  /\ faults + 2 <= MaxFaults /\ faults' = faults + 2
  /\ unheard[u] # None
  /\ UNCHANGED tracker \/ (Free /\ tracker' = [tracker EXCEPT ![u] = Followed(u, unheard[u])])
  /\ unheard' = [unheard EXCEPT ![u] = None]
  /\ late' = [late EXCEPT ![u] = @ \cup {unheard[u]}]
  /\ UNCHANGED <<homeVars, portalVars, journalVars, commandVars, misled, tail, actorVars>>

(* It is taken up again: its event is applied, for the first time or once more. *)
HearAgain(u) ==
  /\ Free
  /\ \E s \in late[u] : Informed(u, s) /\ late' = [late EXCEPT ![u] = @ \ {s}]
  /\ UNCHANGED <<homeVars, unheard, portalVars, journalVars, commandVars, tail, actorVars, faults>>

(***************************************************************************)
(* The work of an actor, one call at a time.  Each may fail, which ends    *)
(* the attempt; what waits is then taken up again from the beginning.      *)
(***************************************************************************)

Desired(a) == IF a = Sink THEN People ELSE {Contact}
(* Whose turn it is of the ghosts to see to. *)
Turn(a) == IF Profile \in todo[a] THEN Profile ELSE Contact
At(a, step) == pc[a] = step
Goto(a, step) == pc' = [pc EXCEPT ![a] = step]
Rest(a) == /\ pc' = [pc EXCEPT ![a] = "idle"]
           /\ room' = [room EXCEPT ![a] = 0]
           /\ seen' = [seen EXCEPT ![a] = Unseen]
           /\ todo' = [todo EXCEPT ![a] = {}]
           /\ job' = IF a = Sink THEN "none" ELSE job
           /\ tail' = [tail EXCEPT ![a] = None]

(* The journal's metadata comes first.  Without history or a room it asks nothing. *)
Active == message # "none" /\ portal # 0
TakeMetadata ==
  /\ At(Sink, "idle") /\ metadata
  /\ IF Active
     THEN /\ job' = "metadata" /\ Goto(Sink, "ensure")
          /\ todo' = [todo EXCEPT ![Sink] = Desired(Sink)]
          /\ UNCHANGED metadata
     ELSE metadata' = FALSE /\ Goto(Sink, "messages") /\ UNCHANGED <<job, todo>>
  /\ UNCHANGED <<homeVars, streamVars, portalVars, message, commandVars, routerVars, room, seen, faults>>

TakeMessage ==
  /\ At(Sink, "messages") \/ (At(Sink, "idle") /\ ~metadata)
  /\ IF message = "pending"
     THEN job' = "message" /\ Goto(Sink, "lookup")
     ELSE At(Sink, "messages") /\ Goto(Sink, "idle") /\ UNCHANGED job
  /\ UNCHANGED <<homeVars, streamVars, portalVars, journalVars, commandVars, routerVars, room, seen, todo, faults>>

(* PortalManager.prepare: the mapping, else the room its alias leads to. *)
Lookup(a) ==
  /\ At(a, "lookup")
  /\ LET known == IF portal # 0 THEN portal ELSE alias IN
     /\ room' = [room EXCEPT ![a] = known]
     /\ Goto(a, IF known = 0 THEN "create" ELSE "verify")
  /\ UNCHANGED <<homeVars, streamVars, portalVars, journalVars, commandVars, routerVars, job, seen, todo, faults>>

(* The request that makes a room names its alias, and fails while another has it. *)
Named(r) == r
Create(a) ==
  /\ At(a, "create")
  /\ IF alias # 0
     THEN room' = [room EXCEPT ![a] = alias] /\ UNCHANGED homeVars
     ELSE /\ \E s \in {"invite", "join"} :
               member' = Append(member, [Nobody EXCEPT ![Owner] = s])
          /\ alias' = Named(Len(member) + 1)
          /\ room' = [room EXCEPT ![a] = Len(member) + 1]
  /\ Goto(a, "verify")
  /\ UNCHANGED <<streamVars, portalVars, journalVars, commandVars, routerVars, job, seen, todo, faults>>

(* The state proves the room to be ours, the bridge information is repaired, the mapping bound. *)
Verify(a) ==
  /\ At(a, "verify") /\ portal \in {0, room[a]}
  /\ portal' = room[a]
  /\ IF job = "metadata" /\ a = Sink
     THEN Goto(a, "state") /\ UNCHANGED todo
     ELSE /\ Goto(a, IF a = Sink THEN "owner" ELSE "ensure")
          /\ todo' = [todo EXCEPT ![a] = Desired(a)]
  /\ UNCHANGED <<homeVars, streamVars, ghosts, journalVars, commandVars, routerVars, job, room, seen, faults>>

(* joinOwnerPortal: the owner is invited and joined again, whoever removed them. *)
JoinOwner ==
  /\ At(Sink, "owner")
  /\ member' = [member EXCEPT ![room[Sink]][Owner] = "join"]
  /\ Goto(Sink, "ensure")
  /\ UNCHANGED <<alias, streamVars, portalVars, journalVars, commandVars, routerVars, job, room, seen, todo, faults>>

(* A ghost keeps the user it is bound to. *)
BindGhost(u) == ghosts' = ghosts \cup {u}

(* GhostManager.ensure and a client's enableEncryption: whether to register is asked first. *)
Ensure(a) ==
  /\ At(a, "ensure")
  /\ IF todo[a] = {}
     THEN /\ Goto(a, IF a = Sink /\ job = "metadata" THEN "lookup" ELSE "state")
          /\ UNCHANGED <<ghosts, todo>>
     ELSE LET u == Turn(a) IN
          IF tracker[u] = "closed"
          THEN Goto(a, "register") /\ UNCHANGED <<ghosts, todo>>
          ELSE /\ BindGhost(u)
               /\ todo' = [todo EXCEPT ![a] = @ \ {Turn(a)}]
               /\ UNCHANGED pc
  /\ UNCHANGED <<homeVars, streamVars, portal, journalVars, commandVars, routerVars, job, room, seen, faults>>

(* RoomStateRouter.restore: the rooms the ghost has joined are read, and later become its set. *)
Register(a) ==
  /\ At(a, "register") /\ Free
  /\ LET u == Turn(a) IN tail' = [tail EXCEPT ![a] = Home[u]]
  /\ Goto(a, "restore")
  /\ UNCHANGED <<homeVars, streamVars, portalVars, journalVars, commandVars, tracker, misled, job, room, seen, todo, faults>>

Restore(a) ==
  /\ At(a, "restore")
  /\ LET u == Turn(a) IN
     /\ tracker' = [tracker EXCEPT ![u] = IF tail[a] = "join" THEN "in" ELSE "out"]
     /\ misled' = misled \ {u}
     /\ BindGhost(u)
  /\ tail' = [tail EXCEPT ![a] = None]
  /\ todo' = [todo EXCEPT ![a] = @ \ {Turn(a)}]
  /\ Goto(a, "ensure")
  /\ UNCHANGED <<homeVars, streamVars, portal, journalVars, commandVars, job, room, seen, faults>>

(* GhostManager.reconcile goes by this snapshot.  A desired ghost that is in the room is done. *)
Snapshot(a) ==
  /\ At(a, "state") /\ portal = room[a]
  /\ seen' = [seen EXCEPT ![a] = [u \in People |-> member[portal][u]]]
  /\ todo' = [todo EXCEPT ![a] = {u \in Desired(a) : member[portal][u] # "join"}]
  /\ Goto(a, "leave")
  /\ UNCHANGED <<homeVars, streamVars, portalVars, journalVars, commandVars, routerVars, job, room, faults>>

Stale(a) == {u \in ghosts \ Desired(a) : seen[a][u] \in {"join", "invite"}}

(* A stale ghost leaves.  The two actors have the contact in common, so that only the *)
(* profile's ghost is ever stale.                                                     *)
Leave(a) ==
  /\ At(a, "leave")
  /\ IF Stale(a) = {}
     THEN Goto(a, "add") /\ UNCHANGED <<member, streamVars, seen>>
     ELSE \E u \in Stale(a) :
            /\ member' = [member EXCEPT ![room[a]][u] = "leave"]
            /\ Tell(u, "leave")
            /\ seen' = [seen EXCEPT ![a][u] = "leave"]
            /\ Goto(a, "left")
  /\ UNCHANGED <<alias, portalVars, journalVars, commandVars, routerVars, job, room, todo, faults>>

(* leaveRoom has its answer, and tells the tracker. *)
Left(a) ==
  /\ At(a, "left") /\ Informed(Profile, "leave")
  /\ Goto(a, "leave")
  /\ UNCHANGED <<homeVars, streamVars, portalVars, journalVars, commandVars, tail, job, room, seen, todo, faults>>

(* The bot invites a desired ghost that is neither joined nor invited, by the snapshot. *)
Invite(a) ==
  /\ At(a, "add") /\ todo[a] # {}
  /\ LET u == Turn(a) IN
     /\ seen[a][u] = "leave" /\ Home[u] # "join"
     /\ member' = [member EXCEPT ![room[a]][u] = "invite"]
     /\ IF Home[u] = "invite" THEN UNCHANGED streamVars ELSE Tell(u, "leave")
     /\ seen' = [seen EXCEPT ![a][u] = "invite"]
  /\ UNCHANGED <<alias, portalVars, journalVars, commandVars, routerVars, pc, job, room, todo, faults>>

Join(a) ==
  /\ At(a, "add") /\ todo[a] # {}
  /\ LET u == Turn(a) IN
     /\ seen[a][u] = "invite" /\ Home[u] # "leave"
     /\ member' = [member EXCEPT ![room[a]][u] = "join"]
     /\ IF Home[u] = "join" THEN UNCHANGED streamVars ELSE Tell(u, "join")
  /\ Goto(a, "joined")
  /\ UNCHANGED <<alias, portalVars, journalVars, commandVars, routerVars, job, room, seen, todo, faults>>

(* joinRoom has its answer, and tells the tracker. *)
Joined(a) ==
  /\ At(a, "joined") /\ Informed(Turn(a), "join")
  /\ todo' = [todo EXCEPT ![a] = @ \ {Turn(a)}]
  /\ Goto(a, "add")
  /\ UNCHANGED <<homeVars, streamVars, portalVars, journalVars, commandVars, tail, job, room, seen, faults>>

Finished(a) == At(a, "add") /\ todo[a] = {}

(* The metadata is delivered; a message is, if its sender may still speak in the room. *)
AckMetadata ==
  /\ Finished(Sink) /\ job = "metadata"
  /\ metadata' = FALSE
  /\ pc' = [pc EXCEPT ![Sink] = "messages"] /\ job' = "none"
  /\ room' = [room EXCEPT ![Sink] = 0] /\ seen' = [seen EXCEPT ![Sink] = Unseen]
  /\ UNCHANGED <<homeVars, streamVars, portalVars, message, commandVars, routerVars, todo, faults>>

Deliver ==
  /\ Finished(Sink) /\ job = "message" /\ Home[Sender] = "join"
  /\ message' = "delivered"
  /\ Rest(Sink)
  /\ UNCHANGED <<homeVars, streamVars, portalVars, metadata, commandVars, tracker, misled, faults>>

(***************************************************************************)
(* The owner's commands, one after another.  What a command did is saved   *)
(* before it is answered, and the answer is made from what was saved.  The *)
(* other commands touch no room and take the path of a contact that is     *)
(* gone.                                                                   *)
(***************************************************************************)

Current == answered + 1
Saved(k) == result[k]

(* The session joins the owner to the rooms that are bound to a conversation, and to no other. *)
MayJoin == Joins

(* The room is found, the owner joined to it, its state verified. *)
OpenWorker ==
  /\ answered < asked /\ ~open /\ MayJoin
  /\ open' = TRUE
  /\ UNCHANGED <<homeVars, streamVars, portalVars, journalVars, asked, answered, answerVars, routerVars, actorVars, faults>>

TakeCommand ==
  /\ At(Worker, "idle") /\ open /\ answered < asked
  /\ Goto(Worker, IF Saved(Current) = None THEN "lookup" ELSE "answer")
  /\ UNCHANGED <<homeVars, streamVars, portalVars, journalVars, commandVars, routerVars, job, room, seen, todo, faults>>

(* StartDm.open asks Threema for the contact first, and finds it or does not.  It may be    *)
(* gone on another attempt.                                                                *)
MaySave(r) == result[Current] \in {None, r}
Save(r) ==
  /\ \/ r = "ready" /\ Finished(Worker)
     \/ r = "gone" /\ At(Worker, "lookup")
  /\ MaySave(r)
  /\ result' = [result EXCEPT ![Current] = r]
  /\ Goto(Worker, "answer")
  /\ room' = [room EXCEPT ![Worker] = 0] /\ seen' = [seen EXCEPT ![Worker] = Unseen]
  /\ UNCHANGED <<homeVars, streamVars, portalVars, journalVars, asked, answered, prepared, replies, open, routerVars, job, todo, faults>>

(* EncryptedSender: the event is prepared once, sent under one transaction id, then recorded. *)
MayPrepare == prepared[Current] \in {None, result[Current]}
Prepare ==
  /\ At(Worker, "answer") /\ MayPrepare
  /\ prepared' = [prepared EXCEPT ![Current] = result[Current]]
  /\ Goto(Worker, "put")
  /\ UNCHANGED <<homeVars, streamVars, portalVars, journalVars, asked, answered, result, replies, open, routerVars, job, room, seen, todo, faults>>

Put ==
  /\ At(Worker, "put")
  /\ replies' = [replies EXCEPT ![Current] = IF @ = None THEN prepared[Current] ELSE @]
  /\ Goto(Worker, "acknowledge")
  /\ UNCHANGED <<homeVars, streamVars, portalVars, journalVars, asked, answered, result, prepared, open, routerVars, job, room, seen, todo, faults>>

Acknowledge ==
  /\ At(Worker, "acknowledge")
  /\ answered' = Current /\ Goto(Worker, "idle")
  /\ UNCHANGED <<homeVars, streamVars, portalVars, journalVars, asked, answerVars, open, routerVars, job, room, seen, todo, faults>>

(***************************************************************************)
(* What goes wrong.                                                        *)
(***************************************************************************)

(* A step finds what it may not go on with: a call the homeserver refuses, or a conflict. *)
Refused(a) ==
  \/ At(a, "verify") /\ portal \notin {0, room[a]}
  \/ At(a, "state") /\ portal # room[a]
  \/ /\ At(a, "add") /\ todo[a] # {}
     /\ LET u == Turn(a) IN \/ seen[a][u] = "leave" /\ Home[u] = "join"
                            \/ seen[a][u] = "invite" /\ Home[u] = "leave"
  \/ a = Sink /\ Finished(a) /\ job = "message" /\ Home[Sender] # "join"
  \/ a = Worker /\ At(a, "answer") /\ ~MayPrepare
  \/ a = Worker /\ Finished(a) /\ ~MaySave("ready")

Refuse(a) ==
  /\ Refused(a) /\ Rest(a)
  /\ UNCHANGED <<homeVars, streamVars, portalVars, journalVars, commandVars, tracker, misled, faults>>

(* A call fails, or its effect stays and the answer is lost. *)
Fail(a) ==
  /\ faults < MaxFaults /\ faults' = faults + 1
  /\ pc[a] \notin {"idle", "messages"} /\ Rest(a)
  /\ UNCHANGED <<homeVars, streamVars, portalVars, journalVars, commandVars, tracker, misled>>

Restart ==
  /\ faults < MaxFaults /\ faults' = faults + 1
  /\ open' = FALSE
  /\ tracker' = [u \in People |-> "closed"] /\ misled' = {} /\ tail' = [a \in Actors |-> None]
  /\ pc' = [a \in Actors |-> "idle"] /\ job' = "none"
  /\ room' = [a \in Actors |-> 0]
  /\ seen' = [a \in Actors |-> Unseen] /\ todo' = [a \in Actors |-> {}]
  /\ UNCHANGED <<homeVars, streamVars, portalVars, journalVars, asked, answered, answerVars>>

HearStep == \E u \in People : Hear(u) \/ HearAgain(u)
PortalStep(a) == \/ Lookup(a) \/ Create(a) \/ Verify(a)
GhostStep(a) == \/ Ensure(a) \/ Register(a) \/ Restore(a)
ReconcileStep(a) == \/ Snapshot(a) \/ Leave(a) \/ Left(a) \/ Invite(a) \/ Join(a) \/ Joined(a)
SharedStep(a) == \/ PortalStep(a) \/ GhostStep(a) \/ ReconcileStep(a) \/ Refuse(a)
SinkStep == \/ TakeMetadata \/ TakeMessage \/ JoinOwner \/ AckMetadata \/ Deliver
            \/ SharedStep(Sink)
WorkerStep == \/ OpenWorker \/ TakeCommand \/ (\E r \in Results : Save(r))
              \/ Prepare \/ Put \/ Acknowledge
              \/ SharedStep(Worker)

Next ==
  \/ SinkStep \/ WorkerStep
  \/ Post \/ Epoch \/ Ask \/ OwnerLeaves
  \/ HearStep \/ (\E u \in People : Stall(u))
  \/ (\E a \in Actors : Fail(a)) \/ Restart

Spec == Init /\ [][Next]_vars

(* The loops run and the synchronisation recurs.  Nobody waits for an event to be decoded. *)
FairSpec == Spec /\ WF_vars(SinkStep) /\ WF_vars(WorkerStep) /\ WF_vars(Epoch)

(***************************************************************************)
(* Properties.                                                             *)
(***************************************************************************)

(* However the two overlap, and whatever answer is lost, one room is made. *)
OnePortal == Len(member) <= 1

(* Matrix is told what was saved, and that a chat is ready only with the contact in it. *)
AnswerTrue ==
  \A k \in 1..Commands :
    replies[k] # None => /\ replies[k] = result[k]
                         /\ replies[k] = "ready" => Home[Contact] = "join"

(* When no event of it waits, a registered ghost's tracker has the room exactly if the    *)
(* ghost is in it, however its registration crossed events and calls; unless the last it  *)
(* was told came out of turn and held no more: an answer behind what another actor did    *)
(* since, or an event whose transaction had failed.                                       *)
TrackersFollow ==
  \A u \in People \ misled :
    unheard[u] = None /\ late[u] = {} /\ Free /\ tracker[u] # "closed"
      => (tracker[u] = "in" <=> Home[u] = "join")

(* service/room-state-router.ts:7, "Route owned-room crypto state only to initialized clients *)
(* participating in that room", promises it without exception.  TLC refutes this: of two      *)
(* calls for the profile's ghost, the answer of the first can come last.                      *)
ParticipantsTracked ==
  \A u \in People :
    unheard[u] = None /\ late[u] = {} /\ Free /\ tracker[u] # "closed"
      => (tracker[u] = "in" => Home[u] = "join")

(* The worker removes the profile's ghost; the sink brings it back, for good in the end. *)
MembersSettle ==
  <>[](message # "none" /\ portal # 0 => \A u \in People : Home[u] = "join")

(* Every command is answered in the end; none that fails, or whose result would differ *)
(* when it is carried out again, holds up the others for ever.                            *)
CommandsAnswered ==
  \A k \in 1..Commands : asked >= k ~> answered >= k
=============================================================================
