---------------------------- MODULE RoomsProofs ----------------------------
(***************************************************************************)
(* OnePortal, AnswerTrue and TrackersFollow for any number of commands and *)
(* faults.                                                                 *)
(*                                                                         *)
(* The alias decides which room there is, and no mapping is ever replaced; *)
(* so the room an actor verified stays the conversation's, and the contact *)
(* who has joined it is in nobody's list of stale ghosts.  A tracker that  *)
(* has heard everything agrees with the homeserver because every change of *)
(* a membership leaves an event to be heard, none is heard between a       *)
(* registration's snapshot and its use, and whatever is told out of the    *)
(* order of the events either holds or is counted in misled.               *)
(***************************************************************************)
EXTENDS Rooms, SequenceTheorems, TLAPS

Users == People \cup {Owner}
Statuses == {"leave", "invite", "join"}
Memberships == [Users -> Statuses]
Steps == {"idle", "messages", "lookup", "create", "verify", "owner", "ensure", "register",
          "restore", "state", "leave", "left", "add", "joined", "answer", "put", "acknowledge"}

RoomTypes ==
  /\ member \in Seq(Memberships)
  /\ alias \in 0..Len(member) /\ portal \in 0..Len(member)
  /\ room \in [Actors -> 0..Len(member)]
  /\ ghosts \subseteq People
  /\ unheard \in [People -> {None, "leave", "join"}]
  /\ late \in [People -> SUBSET {"leave", "join"}] /\ misled \subseteq People
  /\ tracker \in [People -> {"closed", "in", "out"}]
  /\ tail \in [Actors -> {None} \cup Statuses]
  /\ pc \in [Actors -> Steps]
  /\ seen \in [Actors -> [People -> Statuses]]
  /\ todo \in [Actors -> SUBSET People]

CommandTypes ==
  /\ asked \in 0..Commands /\ answered \in 0..asked
  /\ result \in [1..Commands -> {None} \cup Results]
  /\ prepared \in [1..Commands -> {None} \cup Results]
  /\ replies \in [1..Commands -> {None} \cup Results]
  /\ pc[Worker] # "idle" => answered < asked

(* The alias and the room it leads to come together. *)
AliasDecides == OnePortal /\ (alias = 0 => Len(member) = 0)

(* The room an actor has verified is the one that is bound; before, nobody is in one. *)
RoomsBound ==
  /\ \A a \in Actors :
       /\ pc[a] = "verify" => room[a] # 0
       /\ \/ pc[a] \in {"owner", "state", "leave", "left", "add", "joined"}
          \/ pc[a] \in {"ensure", "register", "restore"} /\ ~(a = Sink /\ job = "metadata")
          => room[a] = portal /\ portal # 0
  /\ portal = 0 => \A i \in 1..Len(member), u \in People : member[i][u] = "leave"

(* A contact an actor has nothing left to do for is in the room. *)
ContactStays ==
  \A a \in Actors :
    \/ pc[a] \in {"leave", "left", "add", "joined"} /\ Contact \notin todo[a]
    \/ pc[a] = "joined" /\ Profile \notin todo[a]
    => Home[Contact] = "join"

(* What is answered is what was saved, and what was saved as ready is so. *)
AnswersKept ==
  \A k \in 1..Commands :
    /\ prepared[k] \in {None, result[k]} /\ replies[k] \in {None, prepared[k]}
    /\ result[k] = "ready" => Home[Contact] = "join"

(* The last event that waits says how things are. *)
EventsCurrent ==
  \A u \in People : unheard[u] # None => (unheard[u] = "join" <=> Home[u] = "join")

(* What a registration has read is so still, or will be corrected. *)
SnapshotsCurrent ==
  \A a \in Actors :
    /\ pc[a] = "restore" <=> tail[a] # None
    /\ tail[a] # None /\ unheard[Turn(a)] = None /\ late[Turn(a)] = {}
         => (tail[a] = "join" <=> Home[Turn(a)] = "join")

TrackersCurrent ==
  \A u \in People \ misled : tracker[u] # "closed" /\ unheard[u] = None /\ late[u] = {}
                               => (tracker[u] = "in" <=> Home[u] = "join")

RoomsInv == /\ RoomTypes /\ CommandTypes /\ AliasDecides /\ RoomsBound /\ ContactStays
            /\ AnswersKept /\ EventsCurrent /\ SnapshotsCurrent /\ TrackersCurrent

LEMMA InitiallyRooms == Init => RoomsInv
BY RoomsAssumption
   DEF Init, RoomsInv, RoomTypes, CommandTypes, AliasDecides, OnePortal, RoomsBound, ContactStays,
       AnswersKept, EventsCurrent, SnapshotsCurrent, TrackersCurrent, Users, Statuses, Memberships,
       Steps, People, Actors, Nobody, Unseen, Results

(* Home is a function of memberships, Nobody before there is a room. *)
LEMMA HomeTyped == ASSUME RoomTypes PROVE Home \in Memberships
<1>1. Nobody \in Memberships
  BY DEF Nobody, Memberships, Users, Statuses
<1>2. portal # 0 => member[portal] \in Memberships
  BY ElementOfSeq DEF RoomTypes
<1>q. QED BY <1>1, <1>2 DEF Home

(* One user's membership of the bound room changes. *)
LEMMA Moves ==
  ASSUME RoomTypes, portal # 0, portal' = portal, NEW u \in Users, NEW s \in Statuses,
         member' = [member EXCEPT ![portal][u] = s]
  PROVE /\ member' \in Seq(Memberships) /\ Len(member') = Len(member)
        /\ Home' = [Home EXCEPT ![u] = s]
<1>1. portal \in 1..Len(member) /\ member \in Seq(Memberships)
  BY DEF RoomTypes
<1>2. member[portal] \in Memberships
  BY <1>1, ElementOfSeq
<1>3. [member[portal] EXCEPT ![u] = s] \in Memberships
  BY <1>2 DEF Memberships
<1>4. /\ member' = [member EXCEPT ![portal] = [member[portal] EXCEPT ![u] = s]]
      /\ member' \in Seq(Memberships) /\ Len(member') = Len(member)
      /\ member'[portal] = [member[portal] EXCEPT ![u] = s]
  BY <1>1, <1>3, ExceptSeq
<1>q. QED BY <1>1, <1>4 DEF Home

(* Every step of an actor but those that change a membership, make a room or bind one. *)
LEMMA QuietSteps ==
  ASSUME RoomsInv, NEW a \in Actors,
         \/ TakeMetadata \/ TakeMessage \/ AckMetadata \/ Deliver
         \/ Lookup(a) \/ Ensure(a) \/ Register(a) \/ Restore(a) \/ Snapshot(a)
         \/ OpenWorker \/ TakeCommand \/ (\E r \in Results : Save(r)) \/ Prepare \/ Put \/ Acknowledge
         \/ Refuse(a)
  PROVE RoomsInv'
<1>0. UNCHANGED homeVars /\ (portal' = portal) /\ Home' = Home
  BY DEF TakeMetadata, TakeMessage, AckMetadata, Deliver, Lookup, Ensure, Register, Restore, BindGhost, Snapshot,
         OpenWorker, TakeCommand, Save, Prepare, Put, Acknowledge, Refuse, homeVars, portalVars, Home
<1>h. Home \in Memberships
  BY HomeTyped DEF RoomsInv
<1> USE <1>0, <1>h, RoomsAssumption
    DEF RoomsInv, RoomTypes, CommandTypes, AliasDecides, OnePortal, RoomsBound, ContactStays,
        AnswersKept, EventsCurrent, SnapshotsCurrent, TrackersCurrent, Users, Statuses, Memberships,
        Steps, People, Actors, Nobody, Unseen, Results, At, Goto, Rest, Turn, Desired, homeVars, portalVars,
        streamVars, journalVars, answerVars, commandVars, routerVars, Finished, Current
<1>1. CASE TakeMetadata
  <2>0. Sink # Worker /\ tail[Sink] = None
    BY <1>1 DEF TakeMetadata
  <2>r. todo'[Worker] = todo[Worker]
    BY <1>1, <2>0 DEF TakeMetadata
  <2>1. Turn(Worker)' = Turn(Worker) /\ Sink # Worker /\ tail[Sink] = None
    BY <2>0, <2>r
  <2>2. CASE Active
    BY <1>1, <2>1, <2>2 DEF TakeMetadata
  <2>3. CASE ~Active
    BY <1>1, <2>1, <2>3 DEF TakeMetadata
  <2>q. QED BY <2>2, <2>3
<1>2. CASE TakeMessage
  BY <1>2 DEF TakeMessage
<1>3. CASE AckMetadata
  BY <1>3 DEF AckMetadata
<1>4. CASE Deliver
  BY <1>4 DEF Deliver
<1>5. CASE Lookup(a)
  BY <1>5 DEF Lookup
<1>6. CASE Ensure(a)
  <2>0. tail' = tail /\ tail[a] = None /\ UNCHANGED <<tracker, misled, unheard, late>>
    BY <1>6 DEF Ensure, BindGhost
  <2>1. CASE todo[a] = {}
    BY <1>6, <2>0, <2>1 DEF Ensure, BindGhost
  <2>2. CASE todo[a] # {} /\ tracker[Turn(a)] = "closed"
    BY <1>6, <2>0, <2>2 DEF Ensure, BindGhost
  <2>3. CASE todo[a] # {} /\ tracker[Turn(a)] # "closed"
    <3>1. /\ Turn(a) \in People /\ pc[a] = "ensure"
          /\ ghosts' = ghosts \cup {Turn(a)} /\ todo' = [todo EXCEPT ![a] = @ \ {Turn(a)}]
          /\ UNCHANGED <<pc, alias, member, portal, message, metadata, asked, answered, result,
                         prepared, replies, open, job, room, seen, faults>>
      BY <1>6, <2>3 DEF Ensure, BindGhost
    <3>2. \A b \in Actors : tail[b] # None => Turn(b)' = Turn(b)
      BY <2>0, <3>1
    <3>3. RoomTypes'
      BY <2>0, <3>1
    <3>4. RoomsBound' /\ CommandTypes' /\ AnswersKept'
      BY <2>0, <3>1
    <3>5. SnapshotsCurrent'
      BY <2>0, <3>1, <3>2
    <3>6. ContactStays' /\ EventsCurrent' /\ TrackersCurrent' /\ AliasDecides'
      BY <2>0, <3>1
    <3>q. QED BY <3>3, <3>4, <3>5, <3>6
  <2>q. QED BY <2>1, <2>2, <2>3
<1>7. CASE Register(a)
  BY <1>7 DEF Register
<1>8. CASE Restore(a)
  BY <1>8 DEF Restore, BindGhost
<1>9. CASE Snapshot(a)
  <2>1. Home = member[portal]
    BY <1>9 DEF Snapshot, Home
  <2>2. tail' = tail /\ tail[a] = None /\ Desired(a) \subseteq People /\ Contact \in Desired(a)
    BY <1>9 DEF Snapshot
  <2>3. \A b \in Actors : tail[b] # None => Turn(b)' = Turn(b)
    BY <1>9, <2>2 DEF Snapshot
  <2>4. SnapshotsCurrent'
    BY <1>9, <2>2, <2>3 DEF Snapshot
  <2>5. ContactStays'
    BY SMTT(30), <1>9, <2>1, <2>2 DEF Snapshot
  <2>6. RoomTypes'
    <3>1. member[portal] \in Memberships
      BY <1>9, <2>1 DEF Snapshot
    <3>2. /\ seen' = [seen EXCEPT ![a] = [u \in People |-> member[portal][u]]]
          /\ todo' = [todo EXCEPT ![a] = {u \in Desired(a) : member[portal][u] # "join"}]
          /\ pc' = [pc EXCEPT ![a] = "leave"]
          /\ UNCHANGED <<alias, member, unheard, late, portal, ghosts, message, metadata, asked, answered,
                         result, prepared, replies, open, tracker, misled, tail, job, room, faults>>
      BY <1>9 DEF Snapshot
    <3>q. QED BY <2>2, <3>1, <3>2
  <2>7. RoomsBound' /\ CommandTypes'
    BY SMTT(30), <1>9, <2>2 DEF Snapshot
  <2>8. EventsCurrent' /\ TrackersCurrent' /\ AnswersKept' /\ AliasDecides'
    BY <1>9 DEF Snapshot
  <2>q. QED BY <2>4, <2>5, <2>6, <2>7, <2>8
<1>10. CASE OpenWorker
  <2>1. \A b \in Actors : Turn(b)' = Turn(b)
    BY <1>10 DEF OpenWorker, actorVars
  <2>q. QED BY <1>10, <2>1 DEF OpenWorker, actorVars
<1>11. CASE TakeCommand
  BY <1>11 DEF TakeCommand
<1>12. ASSUME NEW r \in Results, Save(r) PROVE RoomsInv'
  BY <1>12 DEF Save, MaySave
<1>13. CASE Prepare
  BY <1>13 DEF Prepare
<1>14. CASE Put
  BY <1>14 DEF Put
<1>15. CASE Acknowledge
  BY <1>15 DEF Acknowledge
<1>16. CASE Refuse(a)
  BY <1>16 DEF Refuse
<1> HIDE DEF RoomsInv
<1>q. QED BY <1>1, <1>2, <1>3, <1>4, <1>5, <1>6, <1>7, <1>8, <1>9, <1>10, <1>11, <1>12, <1>13,
             <1>14, <1>15, <1>16

(* A room is made, or found by the alias; it becomes the conversation's. *)
LEMMA RoomMade ==
  ASSUME RoomsInv, NEW a \in Actors, Create(a) \/ Verify(a) PROVE RoomsInv'
<1> USE RoomsAssumption
    DEF RoomsInv, RoomTypes, CommandTypes, AliasDecides, OnePortal, RoomsBound, ContactStays,
        AnswersKept, EventsCurrent, SnapshotsCurrent, TrackersCurrent, Steps, People, Actors, Results,
        At, Goto, Turn, Desired, streamVars, journalVars, answerVars, commandVars, routerVars
<1>1. CASE Create(a) /\ alias # 0
  <2>1. Home' = Home
    BY <1>1 DEF Create, Home, homeVars, portalVars
  <2>q. QED BY <1>1, <2>1 DEF Create, homeVars, portalVars
<1>2. CASE Create(a) /\ alias = 0
  <2>1. Len(member) = 0 /\ portal = 0
    BY <1>2
  <2>2. PICK s \in {"invite", "join"} : member' = Append(member, [Nobody EXCEPT ![Owner] = s])
    BY <1>2 DEF Create
  <2>3. [Nobody EXCEPT ![Owner] = s] \in Memberships /\ \A u \in People : [Nobody EXCEPT ![Owner] = s][u] = "leave"
    BY DEF Nobody, Memberships, Users, Statuses
  <2>4. /\ member' \in Seq(Memberships) /\ Len(member') = 1
        /\ \A i \in 1..Len(member'), u \in People : member'[i][u] = "leave"
    BY <2>1, <2>2, <2>3
  <2>5. Home' = Home /\ portal' = portal
    BY <1>2, <2>1 DEF Create, Home, portalVars
  <2>6. alias' = 1 /\ room' = [room EXCEPT ![a] = 1]
    BY <1>2, <2>1 DEF Create, Named
  <2>q. QED BY <1>2, <2>1, <2>4, <2>5, <2>6 DEF Create, portalVars
<1>3. CASE Verify(a)
  <2>1. \A u \in People : Home'[u] = Home[u]
    <3>1. CASE portal = 0
      BY <1>3, <3>1 DEF Verify, Home, Nobody, homeVars
    <3>2. CASE portal # 0
      BY <1>3, <3>2 DEF Verify, Home, homeVars
    <3>q. QED BY <3>1, <3>2
  <2>2. portal' # 0 /\ portal' \in 0..Len(member) /\ (portal # 0 => portal' = portal)
    BY <1>3 DEF Verify
  <2>q. QED BY <1>3, <2>1, <2>2 DEF Verify, homeVars
<1>q. QED BY <1>1, <1>2, <1>3

(* A membership of the bound room changes, by an actor or by the owner. *)
LEMMA MembersChange ==
  ASSUME RoomsInv, NEW a \in Actors, JoinOwner \/ OwnerLeaves \/ Leave(a) \/ Invite(a) \/ Join(a)
  PROVE RoomsInv'
<1>h. Home \in Memberships
  BY HomeTyped DEF RoomsInv
<1>t. RoomTypes
  BY DEF RoomsInv
<1> USE <1>h, RoomsAssumption
    DEF RoomsInv, CommandTypes, AliasDecides, OnePortal, RoomsBound, ContactStays,
        AnswersKept, EventsCurrent, SnapshotsCurrent, TrackersCurrent, Users, Statuses, Memberships,
        Steps, People, Actors, Results, At, Goto, Turn, Desired, Tell,
        homeVars, streamVars, portalVars, journalVars, answerVars, commandVars, routerVars, actorVars
<1>1. CASE JoinOwner
  <2>1. portal # 0 /\ portal' = portal /\ member' = [member EXCEPT ![portal][Owner] = "join"]
    BY <1>1 DEF JoinOwner
  <2>2. /\ member' \in Seq(Memberships) /\ Len(member') = Len(member)
        /\ Home' = [Home EXCEPT ![Owner] = "join"]
    BY <1>t, <2>1, Moves
  <2>q. QED BY <1>1, <2>1, <2>2 DEF JoinOwner, RoomTypes
<1>2. CASE OwnerLeaves
  <2>1. portal # 0 /\ portal' = portal /\ member' = [member EXCEPT ![portal][Owner] = "leave"]
    BY <1>2 DEF OwnerLeaves
  <2>2. /\ member' \in Seq(Memberships) /\ Len(member') = Len(member)
        /\ Home' = [Home EXCEPT ![Owner] = "leave"]
    BY <1>t, <2>1, Moves
  <2>q. QED BY <1>2, <2>1, <2>2 DEF OwnerLeaves, RoomTypes
<1>3. CASE Leave(a)
  <2>1. CASE Stale(a) = {}
    <3>1. Home' = Home
      BY <1>3, <2>1 DEF Leave, Home
    <3>q. QED BY <1>3, <2>1, <3>1 DEF Leave, RoomTypes
  <2>2. CASE Stale(a) # {}
    <3>1. PICK u \in Stale(a) :
            /\ member' = [member EXCEPT ![room[a]][u] = "leave"]
            /\ Tell(u, "leave")
            /\ seen' = [seen EXCEPT ![a][u] = "leave"]
            /\ Goto(a, "left")
      BY <1>3, <2>2 DEF Leave
    <3>2. u \in People /\ u # Contact
      BY <1>t, <3>1 DEF Stale, RoomTypes
    <3>3. portal # 0 /\ portal' = portal /\ room[a] = portal
      BY <1>3 DEF Leave
    <3>4. /\ member' \in Seq(Memberships) /\ Len(member') = Len(member)
          /\ Home' = [Home EXCEPT ![u] = "leave"]
      BY <1>t, <3>1, <3>2, <3>3, Moves
    <3>5. seen' \in [Actors -> [People -> Statuses]]
      BY <1>t, <3>1, <3>2 DEF RoomTypes
    <3>6. RoomTypes'
      BY <1>t, <1>3, <3>1, <3>2, <3>3, <3>4, <3>5 DEF Leave, RoomTypes
    <3>7. EventsCurrent' /\ TrackersCurrent'
      BY <1>t, <1>3, <3>1, <3>2, <3>4 DEF Leave, RoomTypes
    <3>8. SnapshotsCurrent'
      BY <1>t, <1>3, <3>1, <3>2, <3>4 DEF Leave, RoomTypes
    <3>9. ContactStays' /\ AnswersKept'
      BY <1>t, <1>3, <3>1, <3>2, <3>4 DEF Leave, RoomTypes
    <3>10. RoomsBound' /\ AliasDecides'
      BY <1>t, <1>3, <3>1, <3>2, <3>3, <3>4, ElementOfSeq DEF Leave, RoomTypes
    <3>11. CommandTypes'
      BY <1>t, <1>3, <3>1 DEF Leave, RoomTypes
    <3>q. QED BY <3>6, <3>7, <3>8, <3>9, <3>10, <3>11
  <2>q. QED BY <2>1, <2>2
<1>4. CASE Invite(a)
  <2>u. Turn(a) \in People /\ Home[Turn(a)] # "join"
    BY <1>4 DEF Invite
  <2>1. portal # 0 /\ portal' = portal /\ member' = [member EXCEPT ![portal][Turn(a)] = "invite"]
    BY <1>4 DEF Invite
  <2>2. /\ member' \in Seq(Memberships) /\ Len(member') = Len(member)
        /\ Home' = [Home EXCEPT ![Turn(a)] = "invite"]
    BY <1>t, <2>u, <2>1, Moves
  <2>3. seen' \in [Actors -> [People -> Statuses]]
    BY <1>t, <1>4, <2>u DEF Invite, RoomTypes
  <2>4. RoomTypes'
    <3>1. unheard' \in [People -> {None, "leave", "join"}] /\ late' = late
      BY <1>t, <1>4, <2>u DEF Invite, RoomTypes
    <3>2. UNCHANGED <<alias, portal, ghosts, tracker, misled, tail, pc, job, room, todo>>
      BY <1>4 DEF Invite
    <3>q. QED BY <1>t, <2>2, <2>3, <3>1, <3>2 DEF RoomTypes
  <2>5. EventsCurrent' /\ TrackersCurrent'
    BY <1>t, <1>4, <2>u, <2>2 DEF Invite, RoomTypes
  <2>6. SnapshotsCurrent'
    BY <1>t, <1>4, <2>u, <2>2 DEF Invite, RoomTypes
  <2>7. ContactStays' /\ AnswersKept'
    BY <1>t, <1>4, <2>u, <2>2 DEF Invite, RoomTypes
  <2>8. RoomsBound' /\ AliasDecides' /\ CommandTypes'
    BY <1>t, <1>4, <2>1, <2>2 DEF Invite, RoomTypes
  <2>q. QED BY <2>4, <2>5, <2>6, <2>7, <2>8
<1>5. CASE Join(a)
  <2>u. Turn(a) \in People
    OBVIOUS
  <2>1. portal # 0 /\ portal' = portal /\ member' = [member EXCEPT ![portal][Turn(a)] = "join"]
    BY <1>5 DEF Join
  <2>2. /\ member' \in Seq(Memberships) /\ Len(member') = Len(member)
        /\ Home' = [Home EXCEPT ![Turn(a)] = "join"]
    BY <1>t, <2>u, <2>1, Moves
  <2>q. QED BY <1>5, <2>u, <2>1, <2>2 DEF Join, RoomTypes
<1>q. QED BY <1>1, <1>2, <1>3, <1>4, <1>5

(* A tracker is told something out of the order of the events. *)
LEMMA Told ==
  ASSUME RoomTypes, NEW u \in People, NEW s \in {"leave", "join"}, Informed(u, s),
         TrackersCurrent, Home' = Home, unheard' = unheard,
         \A v \in People \ {u} : late'[v] = late[v]
  PROVE /\ TrackersCurrent'
        /\ tracker' \in [People -> {"closed", "in", "out"}] /\ misled' \subseteq People
<1> USE DEF RoomTypes, Informed, Followed, Holds, TrackersCurrent
<1>1. ASSUME NEW v \in People \ misled', v # u,
             tracker'[v] # "closed", unheard'[v] = None, late'[v] = {}
      PROVE tracker'[v] = "in" <=> Home'[v] = "join"
  BY <1>1
<1>2. ASSUME u \notin misled', tracker'[u] # "closed"
      PROVE tracker'[u] = "in" <=> Home'[u] = "join"
  BY <1>2
<1>3. /\ tracker' \in [People -> {"closed", "in", "out"}] /\ misled' \subseteq People
  OBVIOUS
<1>q. QED BY <1>1, <1>2, <1>3

(* The answer of a ghost's own call comes back. *)
LEMMA Answers ==
  ASSUME RoomsInv, NEW a \in Actors, Left(a) \/ Joined(a) PROVE RoomsInv'
<1>0. /\ UNCHANGED <<homeVars, streamVars, portalVars, journalVars, commandVars, tail, job, room, seen, faults>>
      /\ Home' = Home
  BY DEF Left, Joined, Home, homeVars, portalVars
<1>1. Turn(a) \in People /\ Profile \in People
  BY DEF Turn, People
<1>2. TrackersCurrent' /\ tracker' \in [People -> {"closed", "in", "out"}] /\ misled' \subseteq People
  BY <1>0, <1>1, Told DEF Left, Joined, RoomsInv, streamVars
<1> USE <1>0, <1>1, <1>2, RoomsAssumption
    DEF RoomsInv, RoomTypes, CommandTypes, AliasDecides, OnePortal, RoomsBound, ContactStays,
        AnswersKept, EventsCurrent, SnapshotsCurrent, Steps, People, Actors, Results, At, Goto, Turn,
        homeVars, streamVars, portalVars, journalVars, answerVars, commandVars
<1>3. CASE Left(a)
  BY <1>3 DEF Left
<1>4. CASE Joined(a)
  BY <1>4 DEF Joined
<1>q. QED BY <1>3, <1>4

(* A transaction fails: its event waits again, so that nothing is claimed of the ghost's tracker. *)
LEMMA Stalls ==
  ASSUME RoomsInv, NEW u \in People, Stall(u) PROVE RoomsInv'
<1>t. RoomTypes
  BY DEF RoomsInv
<1>1. /\ unheard' = [unheard EXCEPT ![u] = None] /\ unheard[u] \in {"leave", "join"}
      /\ late' = [late EXCEPT ![u] = @ \cup {unheard[u]}]
      /\ UNCHANGED <<homeVars, portalVars, journalVars, commandVars, misled, tail, actorVars>>
  BY <1>t DEF Stall, RoomTypes
<1>2. /\ tracker' \in [People -> {"closed", "in", "out"}]
      /\ \A v \in People \ {u} : tracker'[v] = tracker[v]
  <2>1. tracker \in [People -> {"closed", "in", "out"}]
    BY <1>t DEF RoomTypes
  <2>2. tracker' = tracker \/ tracker' = [tracker EXCEPT ![u] = Followed(u, unheard[u])]
    BY DEF Stall
  <2>3. Followed(u, unheard[u]) \in {"closed", "in", "out"}
    BY DEF Followed
  <2>q. QED BY <2>1, <2>2, <2>3
<1>3. late'[u] # {} /\ (\A v \in People \ {u} : late'[v] = late[v] /\ unheard'[v] = unheard[v])
  BY <1>t, <1>1 DEF RoomTypes
<1>h. Home' = Home /\ UNCHANGED <<alias, member, portal, ghosts, pc, job, room, seen, todo>>
  BY <1>1 DEF Home, homeVars, portalVars, actorVars
<1>4. TrackersCurrent'
  <2>1. ASSUME NEW v \in People \ misled', tracker'[v] # "closed", unheard'[v] = None, late'[v] = {}
        PROVE tracker'[v] = "in" <=> Home'[v] = "join"
    <3>1. v \in People \ misled /\ v # u
      BY <1>1, <1>3, <2>1
    <3>2. unheard[v] = None /\ late[v] = {} /\ tracker'[v] = tracker[v] /\ Home'[v] = Home[v]
      BY <1>2, <1>3, <1>h, <2>1, <3>1
    <3>3. tracker[v] = "in" <=> Home[v] = "join"
      BY <2>1, <3>1, <3>2 DEF RoomsInv, TrackersCurrent
    <3>q. QED BY <3>2, <3>3
  <2>q. QED BY <2>1 DEF TrackersCurrent
<1>5. SnapshotsCurrent'
  <2>1. SnapshotsCurrent /\ tail' = tail /\ pc' = pc /\ todo' = todo
    BY <1>1, <1>h DEF RoomsInv
  <2>2. \A a \in Actors : Turn(a)' = Turn(a) /\ Turn(a) \in People
    BY <2>1 DEF Turn, People
  <2>q. QED BY <1>3, <1>h, <2>1, <2>2 DEF SnapshotsCurrent
<1>6. EventsCurrent'
  BY <1>1, <1>3, <1>h DEF RoomsInv, EventsCurrent
<1>7. RoomTypes'
  <2>1. unheard' \in [People -> {None, "leave", "join"}] /\ late' \in [People -> SUBSET {"leave", "join"}]
    BY <1>t, <1>1 DEF RoomTypes
  <2>q. QED BY <1>t, <1>1, <1>2, <1>h, <2>1 DEF RoomTypes
<1>8. CommandTypes' /\ AnswersKept'
  BY <1>1, <1>h DEF RoomsInv, CommandTypes, AnswersKept, commandVars, answerVars
<1>9. AliasDecides' /\ RoomsBound' /\ ContactStays'
  BY <1>h DEF RoomsInv, AliasDecides, OnePortal, RoomsBound, ContactStays
<1>q. QED BY <1>4, <1>5, <1>6, <1>7, <1>8, <1>9 DEF RoomsInv

(* What surrounds the actors, and what goes wrong. *)
LEMMA SurroundingSteps ==
  ASSUME RoomsInv,
         \/ Post \/ Epoch \/ Ask \/ HearStep \/ (\E a \in Actors : Fail(a)) \/ Restart
         \/ UNCHANGED vars
  PROVE RoomsInv'
<1>0. UNCHANGED homeVars /\ portal' = portal /\ Home' = Home
  BY DEF Post, Epoch, Ask, HearStep, Hear, HearAgain, Fail, Restart, vars, homeVars, portalVars, Home
<1> USE <1>0, RoomsAssumption
    DEF RoomsInv, RoomTypes, CommandTypes, AliasDecides, OnePortal, RoomsBound, ContactStays,
        AnswersKept, EventsCurrent, SnapshotsCurrent, TrackersCurrent, Users, Statuses, Memberships,
        Steps, People, Actors, Nobody, Unseen, Results, Rest, Turn, Tell, Followed, Free, homeVars, streamVars, portalVars,
        journalVars, answerVars, commandVars, routerVars, actorVars
<1>1. CASE Post \/ Epoch \/ Ask \/ UNCHANGED vars
  <2>1. CASE Post
    BY <2>1 DEF Post
  <2>2. CASE Epoch
    BY <2>2 DEF Epoch
  <2>3. CASE Ask
    BY <2>3 DEF Ask
  <2>4. CASE UNCHANGED vars
    <3>1. RoomTypes' /\ CommandTypes'
      BY <2>4 DEF vars
    <3>2. AliasDecides' /\ RoomsBound' /\ ContactStays' /\ AnswersKept'
      BY <2>4 DEF vars
    <3>3. EventsCurrent' /\ SnapshotsCurrent' /\ TrackersCurrent'
      BY <2>4 DEF vars
    <3>q. QED BY <3>1, <3>2, <3>3
  <2>q. QED BY <1>1, <2>1, <2>2, <2>3, <2>4
<1>2. ASSUME NEW u \in People, Hear(u) PROVE RoomsInv'
  BY <1>2 DEF Hear
<1>3. ASSUME NEW a \in Actors, Fail(a) PROVE RoomsInv'
  BY <1>3 DEF Fail
<1>4. CASE Restart
  BY <1>4 DEF Restart
<1>5. ASSUME NEW u \in People, HearAgain(u) PROVE RoomsInv'
  <2>1. PICK s \in late[u] : Informed(u, s) /\ late' = [late EXCEPT ![u] = @ \ {s}]
    BY <1>5 DEF HearAgain
  <2>2. /\ s \in {"leave", "join"} /\ late[u] \subseteq {"leave", "join"}
        /\ UNCHANGED <<unheard, tail, journalVars, commandVars, actorVars, ghosts, faults>>
        /\ \A a \in Actors : tail[a] = None
    BY <1>5, <2>1 DEF HearAgain
  <2>3. TrackersCurrent' /\ tracker' \in [People -> {"closed", "in", "out"}] /\ misled' \subseteq People
    BY <2>1, <2>2, Told
  <2>4. late' \in [People -> SUBSET {"leave", "join"}]
    BY <2>1, <2>2
  <2>5. EventsCurrent' /\ SnapshotsCurrent' /\ RoomTypes'
    BY <2>2, <2>3, <2>4
  <2>6. CommandTypes' /\ AliasDecides' /\ RoomsBound' /\ ContactStays' /\ AnswersKept'
    BY <2>2
  <2>q. QED BY <2>3, <2>5, <2>6
<1> HIDE DEF RoomsInv
<1>q. QED BY <1>1, <1>2, <1>3, <1>4, <1>5 DEF HearStep

(* RoomsInv holds of the sink, the command worker and the router together. *)
THEOREM RoomsInvariance == Spec => []RoomsInv
<1>1. RoomsInv /\ [Next]_vars => RoomsInv'
  <2> SUFFICES ASSUME RoomsInv, [Next]_vars PROVE RoomsInv' OBVIOUS
  <2> Sink \in Actors /\ Worker \in Actors
    BY DEF Actors
  <2>1. CASE SinkStep
    BY <2>1, QuietSteps, RoomMade, MembersChange, Answers DEF SinkStep, SharedStep, PortalStep, GhostStep, ReconcileStep
  <2>2. CASE WorkerStep
    BY <2>2, QuietSteps, RoomMade, MembersChange, Answers DEF WorkerStep, SharedStep, PortalStep, GhostStep, ReconcileStep
  <2>q. QED BY <2>1, <2>2, MembersChange, SurroundingSteps, Stalls DEF Next
<1>q. QED BY InitiallyRooms, <1>1, PTL DEF Spec

(* matrix/portals.ts makes no second room for a conversation, however a command and the journal *)
(* overlap: the request that makes one names the conversation's alias.                          *)
THEOREM OneRoom == Spec => []OnePortal
BY RoomsInvariance, PTL DEF RoomsInv, AliasDecides

(* management/worker.ts answers with what it saved, and calls a chat ready only with its contact *)
(* in the room, which no later reconciliation removes.                                           *)
THEOREM AnswersAreTrue == Spec => []AnswerTrue
<1>1. RoomsInv => AnswerTrue
  BY RoomsAssumption DEF RoomsInv, AnswersKept, AnswerTrue
<1>q. QED BY <1>1, RoomsInvariance, PTL

(* The tracker of a registered ghost, service/room-state-router.ts, agrees with the homeserver *)
(* when nothing of it is under way, unless the last it was told came out of turn.              *)
THEOREM TrackersAgree == Spec => []TrackersFollow
<1>1. RoomsInv => TrackersFollow
  BY DEF RoomsInv, TrackersCurrent, TrackersFollow
<1>q. QED BY <1>1, RoomsInvariance, PTL
=============================================================================
