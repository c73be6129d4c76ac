-------------------------- MODULE TransactionInbox --------------------------
(***************************************************************************)
(* The durable inbox of Matrix appservice transactions: the HTTP server    *)
(* that accepts them (transaction-server.ts), the tables transactions and  *)
(* events (transaction-inbox.ts), and the worker that decrypts one         *)
(* transaction after the other (transaction-worker.ts, native-             *)
(* transaction.ts).  A transaction may carry the room keys another one     *)
(* needs; until they have come, its decoding fails and is tried again.     *)
(***************************************************************************)
EXTENDS Naturals, Sequences

CONSTANTS Transactions,   \* appservice transactions
          Events,         \* Matrix events
          EventsOf,       \* the events of a transaction, in order
          KeysIn,         \* the events a transaction brings the room key for
          Plain,          \* events in the clear, or readable from the start
          None,           \* no transaction
          Limit,          \* size of the worker's page
          MaxAttempts     \* bound of the attempts counter

ASSUME InboxAssumption ==
  /\ EventsOf \in [Transactions -> Seq(Events)]
  /\ KeysIn \in [Transactions -> SUBSET Events]
  /\ Plain \subseteq Events
  /\ None \notin Transactions
  /\ Limit \in Nat \ {0} /\ MaxAttempts \in Nat \ {0}

VARIABLES
  \* homeserver
  answered,     \* transactions it has had a 200 for
  \* inbox database
  arrival,      \* sequence of a transaction, 0 before it is accepted
  lastArrival,  \* AUTOINCREMENT counter of that column
  done,         \* transactions whose state is 'done'
  attempts,     \* their attempts column
  place,        \* sequence of an event, 0 before it is stored
  lastPlace,    \* AUTOINCREMENT counter of that column
  origin,       \* transaction_id of a stored event
  delivered,    \* events whose state is 'done'
  \* crypto store
  keys,         \* events whose room key is known
  \* worker, in memory
  page,         \* transactions the running pass still has to try
  stage         \* how far it is with the first of them

txVars == <<answered, arrival, lastArrival>>
eventVars == <<place, lastPlace, origin>>
workerVars == <<attempts, keys, page, stage>>
inboxVars == <<txVars, done, eventVars, delivered, workerVars>>

Accepted == {t \in Transactions : arrival[t] # 0}
Pending == Accepted \ done
Stored == {e \in Events : place[e] # 0}
InTx(t) == {EventsOf[t][i] : i \in DOMAIN EventsOf[t]}

InboxTypeOK ==
  /\ answered \subseteq Transactions
  /\ arrival \in [Transactions -> Nat] /\ lastArrival \in Nat
  /\ done \subseteq Transactions
  /\ attempts \in [Transactions -> 0..MaxAttempts]
  /\ place \in [Events -> Nat] /\ lastPlace \in Nat
  /\ origin \in [Events -> Transactions \cup {None}]
  /\ delivered \subseteq Events
  /\ keys \subseteq Events
  /\ page \in Seq(Transactions) /\ \A i \in DOMAIN page : page[i] \in Accepted \ done
  /\ stage \in {"idle", "attempted", "synced"}

InboxInit ==
  /\ answered = {}
  /\ arrival = [t \in Transactions |-> 0] /\ lastArrival = 0
  /\ done = {} /\ attempts = [t \in Transactions |-> 0]
  /\ place = [e \in Events |-> 0] /\ lastPlace = 0
  /\ origin = [e \in Events |-> None]
  /\ delivered = {} /\ keys = {}
  /\ page = <<>> /\ stage = "idle"

-----------------------------------------------------------------------------
(* Plausible bugs, each in place of the definition its comment names.      *)

ArrivedFirst(t, u) == arrival[t] < arrival[u]                      \* Sooner
SkipUnreadable(t) == TRUE                                          \* Readable
-----------------------------------------------------------------------------
(* The server.                                                             *)

\* The homeserver sends in order and repeats a transaction until it is
\* answered.  accept() stores it unless the identifier is known; the answer
\* may be lost after the commit.
Fresh(t) == arrival[t] = 0
Put(t) ==
  /\ t \notin answered
  /\ IF Fresh(t)
       THEN /\ arrival' = [arrival EXCEPT ![t] = lastArrival + 1]
            /\ lastArrival' = lastArrival + 1
       ELSE UNCHANGED <<arrival, lastArrival>>
  /\ \E lost \in BOOLEAN : answered' = IF lost THEN answered ELSE answered \cup {t}
  /\ UNCHANGED <<done, eventVars, delivered, workerVars>>

-----------------------------------------------------------------------------
(* The worker.                                                             *)

\* pendingTransactions: ORDER BY attempts, sequence.
Sooner(t, u) == \/ attempts[t] < attempts[u]
                \/ attempts[t] = attempts[u] /\ arrival[t] < arrival[u]
InTurn(p) ==
  /\ \A i, j \in DOMAIN p : i < j => Sooner(p[i], p[j])
  /\ \A t \in Pending : \/ \E i \in DOMAIN p : p[i] = t
                        \/ Len(p) = Limit /\ \A i \in DOMAIN p : Sooner(p[i], t)

BeginPass ==
  /\ page = <<>> /\ stage = "idle"
  /\ \E n \in 1..Limit : page' \in [1..n -> Pending] /\ InTurn(page')
  /\ UNCHANGED <<txVars, done, eventVars, delivered, attempts, keys, stage>>

\* recordAttempt.  Attempts are only compared: at the bound the others are
\* lowered instead.
Attempt ==
  /\ page # <<>> /\ stage = "idle"
  /\ LET t == Head(page) IN
       attempts' = IF attempts[t] < MaxAttempts THEN [attempts EXCEPT ![t] = @ + 1]
                   ELSE [u \in Transactions |-> IF u # t /\ attempts[u] > 0
                                                  THEN attempts[u] - 1 ELSE attempts[u]]
  /\ stage' = "attempted"
  /\ UNCHANGED <<txVars, done, eventVars, delivered, keys, page>>

\* updateSyncData: the keys stay, whatever becomes of the events.
ApplyKeys ==
  /\ stage = "attempted"
  /\ keys' = keys \cup KeysIn[Head(page)]
  /\ stage' = "synced"
  /\ UNCHANGED <<txVars, done, eventVars, delivered, attempts, page>>

\* Every event decrypted: complete() stores the unknown ones, in order, and
\* finishes the transaction, in one database transaction.
Emitted(t) == InTx(t) \cap (keys \cup Plain)
Readable(t) == Emitted(t) = InTx(t)
Position(t, e) == CHOOSE i \in DOMAIN EventsOf[t] : EventsOf[t][i] = e
Complete(t) ==
  /\ stage = "synced" /\ t = Head(page)
  /\ Readable(t)
  /\ done' = done \cup {t}
  /\ LET new == Emitted(t) \ Stored IN
       /\ place' = [e \in Events |-> IF e \in new THEN lastPlace + Position(t, e) ELSE place[e]]
       /\ origin' = [e \in Events |-> IF e \in new THEN t ELSE origin[e]]
  /\ lastPlace' = lastPlace + Len(EventsOf[t])
  /\ page' = Tail(page) /\ stage' = "idle"
  /\ UNCHANGED <<txVars, delivered, attempts, keys>>

\* A key is missing, or the crypto clients are not ready: the next one.
DecodeFails ==
  /\ stage \in {"attempted", "synced"}
  /\ page' = Tail(page) /\ stage' = "idle"
  /\ UNCHANGED <<txVars, done, eventVars, delivered, attempts, keys>>

\* The process ends; the pass is forgotten.
Restart ==
  /\ page' = <<>> /\ stage' = "idle"
  /\ UNCHANGED <<txVars, done, eventVars, delivered, attempts, keys>>

\* acknowledgeEvent, by the consumer the event belongs to.
Acknowledge(e) ==
  /\ e \in Stored
  /\ delivered' = delivered \cup {e}
  /\ UNCHANGED <<txVars, done, eventVars, workerVars>>

WorkerStep == \/ BeginPass \/ Attempt \/ ApplyKeys \/ DecodeFails
              \/ \E t \in Transactions : Complete(t)
InboxNext == \/ \E t \in Transactions : Put(t)
             \/ WorkerStep \/ Restart
             \/ \E e \in Events : Acknowledge(e)

InboxSpec == InboxInit /\ [][InboxNext]_inboxVars

-----------------------------------------------------------------------------
(* Properties.                                                             *)

\* A transaction the homeserver will not repeat is kept, and when it is done
\* all of its events are stored.
NothingLost ==
  /\ answered \subseteq Accepted
  /\ \A t \in done : InTx(t) \subseteq Stored

\* Where an event stands is settled once: neither a repeated transaction nor
\* another one with the same event moves it.
ProvenanceFixed ==
  [][/\ \A t \in Accepted : arrival'[t] = arrival[t]
     /\ \A e \in Stored : place'[e] = place[e] /\ origin'[e] = origin[e]]_inboxVars

\* What makes them inductive: a pass tries a transaction once, arrivals tell
\* transactions apart, and a stored event has a finished transaction.
PageDistinct == \A i, j \in DOMAIN page : page[i] = page[j] => i = j
StageHasPage == stage # "idle" => page # <<>>
ArrivalsUnique == /\ \A t, u \in Accepted : arrival[t] = arrival[u] => t = u
                  /\ \A t \in Transactions : arrival[t] <= lastArrival
OriginsDone == done \subseteq Accepted /\ \A e \in Stored : origin[e] \in done

InboxInv == /\ InboxTypeOK /\ PageDistinct /\ StageHasPage
            /\ ArrivalsUnique /\ OriginsDone /\ NothingLost

\* The pump drains again and again, and neither restarts nor crypto clients
\* that are not ready yet refuse for ever a transaction that has something
\* new: keys, or events that can be read.
Useful(t) == \/ ~(KeysIn[t] \subseteq keys)
             \/ InTx(t) \subseteq Plain \cup keys \cup KeysIn[t]
InboxFairness ==
  /\ WF_inboxVars(WorkerStep) /\ SF_inboxVars(Attempt)
  /\ SF_inboxVars(ApplyKeys /\ Useful(Head(page)))
  /\ SF_inboxVars(\E t \in Transactions : Complete(t))
FairInboxSpec == InboxSpec /\ InboxFairness

\* A transaction whose keys have been sent is decoded in the end, although
\* older ones that lack theirs fail before it again and again.
Decodable(t) == InTx(t) \subseteq Plain \cup UNION {KeysIn[u] : u \in Accepted}
DecodedInTheEnd == []<>(\A t \in Accepted : Decodable(t) => t \in done)
=============================================================================
