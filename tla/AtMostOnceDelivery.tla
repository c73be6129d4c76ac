------------------------- MODULE AtMostOnceDelivery -------------------------
(***************************************************************************)
(* What the text outbox promises its owner, said without queues, threads   *)
(* or crashes.  A Matrix event is accepted or refused, once.  An accepted  *)
(* request reaches Threema at most once, never after a later request of    *)
(* the same chat, and is only ever called confirmed when it really is in   *)
(* Threema.  TextOutbox implements this specification.                     *)
(***************************************************************************)
EXTENDS Naturals

CONSTANTS Requests,   \* owner text events
          Chats,      \* Threema conversations
          ChatOf      \* the conversation each request is written in

VARIABLES accepted,   \* requests taken over by the bridge
          refused,    \* events the bridge declined for good
          turn,       \* the place of an accepted request in its chat
          delivered,  \* requests of which a message exists in Threema
          confirmed   \* requests reported to the owner as sent

vars == <<accepted, refused, turn, delivered, confirmed>>

SameChat(r, s) == ChatOf[r] = ChatOf[s]

Init == /\ accepted = {}
        /\ refused = {}
        /\ turn = [r \in Requests |-> 0]
        /\ delivered = {}
        /\ confirmed = {}

\* A new request takes a turn behind everything accepted before it.
Accept(r) ==
  /\ r \notin accepted \cup refused
  /\ accepted' = accepted \cup {r}
  /\ turn' \in [Requests -> Nat]
  /\ turn' = [turn EXCEPT ![r] = turn'[r]]
  /\ \A s \in accepted : turn[s] < turn'[r]
  /\ UNCHANGED <<refused, delivered, confirmed>>

Refuse(r) ==
  /\ r \notin accepted \cup refused
  /\ refused' = refused \cup {r}
  /\ UNCHANGED <<accepted, turn, delivered, confirmed>>

\* The waiting requests of a chat may be put back in source order, but a
\* request that is already in Threema keeps its turn.
Reschedule ==
  /\ turn' \in [Requests -> Nat]
  /\ \A r \in delivered : turn'[r] = turn[r]
  /\ UNCHANGED <<accepted, refused, delivered, confirmed>>

\* The message appears in Threema: once, and behind its elders.
Deliver(r) ==
  /\ r \in accepted \ delivered
  /\ \A s \in delivered : SameChat(r, s) => turn[s] < turn[r]
  /\ delivered' = delivered \cup {r}
  /\ UNCHANGED <<accepted, refused, turn, confirmed>>

Confirm(r) ==
  /\ r \in delivered \ confirmed
  /\ confirmed' = confirmed \cup {r}
  /\ UNCHANGED <<accepted, refused, turn, delivered>>

Next == \/ \E r \in Requests : Accept(r) \/ Refuse(r) \/ Deliver(r) \/ Confirm(r)
        \/ Reschedule

Spec == Init /\ [][Next]_vars
=============================================================================
