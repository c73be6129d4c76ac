-------------------------- MODULE SourceOrderProofs --------------------------
(***************************************************************************)
(* Proofs about SourceOrder and the inbox it is built on.  InboxInv is an  *)
(* invariant of the inbox: no accepted transaction or decoded event is     *)
(* lost or moved.  In the whole, an undecoded transaction can only bring   *)
(* events behind what is already classified in its room, because a         *)
(* classified event has none before it; with that OrderInv is inductive.   *)
(***************************************************************************)
EXTENDS SourceOrder, SequenceTheorems, TLAPS

\* The transactions of a page: finishing or skipping the first leaves pending
\* ones, each once.
LEMMA TailOfPage ==
  ASSUME NEW p \in Seq(Transactions), p # <<>>,
         \A i, j \in DOMAIN p : p[i] = p[j] => i = j
  PROVE  /\ Head(p) = p[1] /\ 1 \in DOMAIN p
         /\ Tail(p) \in Seq(Transactions)
         /\ \A i, j \in DOMAIN Tail(p) : Tail(p)[i] = Tail(p)[j] => i = j
         /\ \A i \in DOMAIN Tail(p) : /\ Tail(p)[i] # Head(p)
                                      /\ \E j \in DOMAIN p : Tail(p)[i] = p[j]
<1>1. /\ Len(p) \in Nat \ {0} /\ DOMAIN p = 1..Len(p)
      /\ Tail(p) \in Seq(Transactions) /\ Len(Tail(p)) = Len(p) - 1
      /\ \A i \in 1..Len(Tail(p)) : Tail(p)[i] = p[i + 1]
  BY EmptySeq, LenProperties, HeadTailProperties
<1>2. DOMAIN Tail(p) = 1..(Len(p) - 1)
  BY <1>1, LenProperties
<1>3. Head(p) = p[1]
  BY <1>1
<1>4. \A i \in DOMAIN Tail(p) : i + 1 \in DOMAIN p /\ Tail(p)[i] = p[i + 1]
  BY <1>1, <1>2
<1>5. 1 \in DOMAIN p /\ \A i \in DOMAIN Tail(p) : i \in Int /\ i + 1 # 1
  BY <1>1, <1>2
<1>6. \A i, j \in DOMAIN Tail(p) : i + 1 = j + 1 => i = j
  BY <1>5
<1>q. QED
  BY <1>1, <1>3, <1>4, <1>5, <1>6

\* A new pass reads pending transactions, each once: the order is strict.
LEMMA PageOfPass ==
  ASSUME InboxTypeOK, NEW n \in 1..Limit, NEW p \in [1..n -> Pending], InTurn(p)
  PROVE  /\ p \in Seq(Transactions)
         /\ \A i \in DOMAIN p : p[i] \in Pending
         /\ \A i, j \in DOMAIN p : p[i] = p[j] => i = j
<1>1. n \in Nat
  BY InboxAssumption
<1>2. p \in [1..n -> Transactions]
  BY DEF Pending, Accepted
<1>3. p \in Seq(Transactions)
  BY <1>1, <1>2, SeqDef
<1>4. \A t \in Transactions : ~Sooner(t, t)
  BY DEF Sooner, InboxTypeOK
<1>5. \A i, j \in DOMAIN p : i < j => p[i] # p[j]
  BY <1>2, <1>4 DEF InTurn
<1>6. \A i, j \in 1..n : i < j \/ j < i \/ i = j
  BY <1>1
<1>q. QED
  BY <1>2, <1>3, <1>5, <1>6

LEMMA EventsInside ==
  ASSUME NEW t \in Transactions
  PROVE  /\ InTx(t) \subseteq Events
         /\ \A e \in InTx(t) : Position(t, e) \in Nat \ {0}
         /\ Len(EventsOf[t]) \in Nat
<1>1. EventsOf[t] \in Seq(Events)
  BY InboxAssumption
<1>2. DOMAIN EventsOf[t] = 1..Len(EventsOf[t]) /\ Len(EventsOf[t]) \in Nat
  BY <1>1, LenProperties
<1>3. \A i \in 1..Len(EventsOf[t]) : EventsOf[t][i] \in Events
  BY <1>1, ElementOfSeq
<1>4. ASSUME NEW e \in InTx(t) PROVE Position(t, e) \in Nat \ {0}
  <2>1. \E i \in DOMAIN EventsOf[t] : EventsOf[t][i] = e
    BY DEF InTx
  <2>2. Position(t, e) \in DOMAIN EventsOf[t]
    BY <2>1 DEF Position
  <2>q. QED
    BY <1>2, <2>2
<1>q. QED
  BY <1>2, <1>3, <1>4 DEF InTx

\* What a finished decoding leaves behind: everything it emitted is stored,
\* what was stored before stays where it was.
LEMMA CompleteStores ==
  ASSUME InboxInv, NEW t \in Transactions, Complete(t)
  PROVE  /\ t = page[1] /\ t \in Pending /\ page # <<>>
         /\ place' \in [Events -> Nat] /\ origin' \in [Events -> Transactions \cup {None}]
         /\ Stored' = Stored \cup InTx(t)
         /\ \A e \in Stored : place'[e] = place[e] /\ origin'[e] = origin[e]
         /\ \A e \in Stored' \ Stored : e \in InTx(t) /\ origin'[e] = t
<1>1. page # <<>> /\ page \in Seq(Transactions)
  BY DEF Complete, InboxInv, StageHasPage, InboxTypeOK
<1>2. t = page[1] /\ 1 \in DOMAIN page
  BY <1>1, TailOfPage DEF Complete, InboxInv, PageDistinct
<1>3. t \in Pending
  BY <1>2 DEF InboxInv, InboxTypeOK, Pending
<1>4. Emitted(t) = InTx(t) /\ InTx(t) \subseteq Events
  BY EventsInside DEF Complete, Readable
<1>5. \A e \in InTx(t) : lastPlace + Position(t, e) \in Nat \ {0}
  BY EventsInside DEF InboxInv, InboxTypeOK
<1>6. /\ place' = [e \in Events |-> IF e \in InTx(t) \ Stored THEN lastPlace + Position(t, e)
                                                               ELSE place[e]]
      /\ origin' = [e \in Events |-> IF e \in InTx(t) \ Stored THEN t ELSE origin[e]]
  BY <1>4 DEF Complete
<1>7. \A e \in Events : IF e \in InTx(t) \ Stored THEN place'[e] \in Nat \ {0} /\ origin'[e] = t
                                                   ELSE place'[e] = place[e] /\ origin'[e] = origin[e]
  BY <1>5, <1>6
<1>8. place \in [Events -> Nat] /\ origin \in [Events -> Transactions \cup {None}]
  BY DEF InboxInv, InboxTypeOK
<1>9. place' \in [Events -> Nat] /\ origin' \in [Events -> Transactions \cup {None}]
  BY <1>5, <1>6, <1>8
<1>10. Stored' = Stored \cup InTx(t)
  BY <1>4, <1>7 DEF Stored
<1>q. QED
  BY <1>1, <1>2, <1>3, <1>4, <1>7, <1>9, <1>10 DEF Stored

LEMMA InboxStepKeeps ==
  ASSUME InboxInv, [InboxNext]_inboxVars
  PROVE  InboxInv'
<1> USE DEF InboxInv
<1>1. ASSUME NEW t \in Transactions, Put(t) PROVE InboxInv'
  <2>1. done \subseteq Accepted /\ \A u \in Accepted : arrival'[u] = arrival[u]
    BY <1>1 DEF Put, Fresh, OriginsDone, InboxTypeOK, Accepted
  <2>2. arrival' \in [Transactions -> Nat] /\ lastArrival' \in Nat /\ lastArrival <= lastArrival'
    BY <1>1 DEF Put, InboxTypeOK
  <2>3. Accepted' = Accepted \cup {t}
    BY <1>1 DEF Put, Fresh, Accepted, InboxTypeOK
  <2>4. answered' \subseteq answered \cup {t}
    BY <1>1 DEF Put
  <2>5. InboxTypeOK'
    BY <1>1, <2>2, <2>3, <2>4 DEF Put, InboxTypeOK, eventVars, workerVars
  <2>6. ArrivalsUnique'
    <3>1. CASE Fresh(t)
      <4>1. /\ arrival'[t] = lastArrival + 1 /\ lastArrival' = lastArrival + 1
            /\ \A u \in Transactions \ {t} : arrival'[u] = arrival[u]
        BY <1>1, <3>1 DEF Put, InboxTypeOK
      <4>2. lastArrival \in Nat /\ \A u \in Transactions : arrival[u] \in Nat /\ arrival[u] <= lastArrival
        BY DEF ArrivalsUnique, InboxTypeOK
      <4>3. \A u \in Accepted' \ {t} : u \in Accepted /\ arrival'[u] # arrival'[t]
        BY <2>3, <4>1, <4>2 DEF Accepted
      <4>4. \A u, v \in Accepted' : arrival'[u] = arrival'[v] => u = v
        BY <4>1, <4>3 DEF ArrivalsUnique, Accepted
      <4>q. QED
        BY <4>1, <4>2, <4>4 DEF ArrivalsUnique
    <3>2. CASE ~Fresh(t)
      BY <1>1, <3>2 DEF Put, ArrivalsUnique, Accepted
    <3>q. QED
      BY <3>1, <3>2
  <2>7. OriginsDone'
    BY <1>1, <2>3 DEF Put, OriginsDone, Stored, eventVars
  <2>8. NothingLost'
    BY <1>1, <2>3, <2>4 DEF Put, NothingLost, Stored, eventVars
  <2>q. QED
    BY <1>1, <2>5, <2>6, <2>7, <2>8 DEF Put, PageDistinct, StageHasPage, workerVars
<1>2. CASE BeginPass
  <2>1. PICK n \in 1..Limit : page' \in [1..n -> Pending] /\ InTurn(page')
    BY <1>2 DEF BeginPass
  <2>2. /\ page' \in Seq(Transactions)
        /\ \A i \in DOMAIN page' : page'[i] \in Pending
        /\ \A i, j \in DOMAIN page' : page'[i] = page'[j] => i = j
    BY <2>1, PageOfPass
  <2>3. InboxTypeOK' /\ PageDistinct' /\ StageHasPage'
    BY <1>2, <2>2 DEF BeginPass, InboxTypeOK, PageDistinct, StageHasPage, Pending, Accepted,
                      txVars, eventVars
  <2>q. QED
    BY SMTT(30), <1>2, <2>3 DEF BeginPass, ArrivalsUnique, OriginsDone, NothingLost, Accepted,
                                Stored, txVars, eventVars
<1>3. CASE Attempt
  <2>1. page[1] \in Transactions /\ Head(page) = page[1]
    BY <1>3, TailOfPage DEF Attempt, InboxTypeOK, PageDistinct, Accepted
  <2>2. attempts' \in [Transactions -> 0..MaxAttempts]
    <3>1. attempts \in [Transactions -> 0..MaxAttempts] /\ MaxAttempts \in Nat
      BY InboxAssumption DEF InboxTypeOK
    <3>2. CASE attempts[page[1]] < MaxAttempts
      BY <1>3, <2>1, <3>1, <3>2 DEF Attempt
    <3>3. CASE ~(attempts[page[1]] < MaxAttempts)
      BY <1>3, <2>1, <3>1, <3>3 DEF Attempt
    <3>q. QED BY <3>2, <3>3
  <2>3. InboxTypeOK' /\ StageHasPage'
    BY <1>3, <2>2 DEF Attempt, InboxTypeOK, StageHasPage, Accepted, txVars, eventVars
  <2>q. QED
    BY <1>3, <2>3 DEF Attempt, PageDistinct, ArrivalsUnique, OriginsDone, NothingLost, Accepted,
                      Stored, txVars, eventVars
<1>4. CASE ApplyKeys
  <2>1. page[1] \in Transactions /\ Head(page) = page[1]
    BY <1>4, TailOfPage DEF ApplyKeys, InboxTypeOK, PageDistinct, StageHasPage, Accepted
  <2>2. keys' \subseteq Events
    BY <1>4, <2>1, InboxAssumption DEF ApplyKeys, InboxTypeOK
  <2>3. InboxTypeOK' /\ StageHasPage'
    BY <1>4, <2>2 DEF ApplyKeys, InboxTypeOK, StageHasPage, Accepted, txVars, eventVars
  <2>q. QED
    BY <1>4, <2>3 DEF ApplyKeys, PageDistinct, ArrivalsUnique, OriginsDone, NothingLost, Accepted,
                      Stored, txVars, eventVars
<1>5. CASE DecodeFails
  <2>1. page # <<>> /\ page \in Seq(Transactions)
    BY <1>5 DEF DecodeFails, StageHasPage, InboxTypeOK
  <2>2. /\ page' \in Seq(Transactions)
        /\ \A i, j \in DOMAIN page' : page'[i] = page'[j] => i = j
        /\ \A i \in DOMAIN page' : \E j \in DOMAIN page : page'[i] = page[j]
    BY <1>5, <2>1, TailOfPage DEF DecodeFails, PageDistinct
  <2>3. InboxTypeOK' /\ PageDistinct'
    BY <1>5, <2>2 DEF DecodeFails, InboxTypeOK, PageDistinct, Accepted, txVars, eventVars
  <2>q. QED
    BY <1>5, <2>3 DEF DecodeFails, StageHasPage, ArrivalsUnique, OriginsDone, NothingLost,
                      Accepted, Stored, txVars, eventVars
<1>6. ASSUME NEW t \in Transactions, Complete(t) PROVE InboxInv'
  <2>1. /\ t = page[1] /\ t \in Pending /\ page # <<>> /\ page \in Seq(Transactions)
        /\ place' \in [Events -> Nat] /\ origin' \in [Events -> Transactions \cup {None}]
        /\ Stored' = Stored \cup InTx(t)
        /\ \A e \in Stored : place'[e] = place[e] /\ origin'[e] = origin[e]
        /\ \A e \in Stored' \ Stored : e \in InTx(t) /\ origin'[e] = t
    BY <1>6, CompleteStores DEF InboxTypeOK
  <2>2. /\ Head(page) = t /\ page' = Tail(page) /\ stage' = "idle"
        /\ done' = done \cup {t} /\ Accepted' = Accepted
    BY <1>6 DEF Complete, txVars, Accepted
  <2>3. /\ page' \in Seq(Transactions)
        /\ \A i, j \in DOMAIN page' : page'[i] = page'[j] => i = j
        /\ \A i \in DOMAIN page' : page'[i] # t /\ \E j \in DOMAIN page : page'[i] = page[j]
    BY <2>1, <2>2, TailOfPage DEF PageDistinct
  <2>4. lastPlace' \in Nat
    BY <1>6, EventsInside DEF Complete, InboxTypeOK
  <2>5. \A i \in DOMAIN page' : page'[i] \in Accepted' \ done'
    BY <2>2, <2>3 DEF InboxTypeOK
  <2>6. InboxTypeOK'
    BY <1>6, <2>1, <2>2, <2>3, <2>4, <2>5 DEF Complete, InboxTypeOK, txVars
  <2>7. OriginsDone'
    BY <2>1, <2>2 DEF OriginsDone, Pending
  <2>8. NothingLost'
    BY <1>6, <2>1, <2>2 DEF NothingLost, Complete, txVars
  <2>q. QED
    BY <1>6, <2>2, <2>3, <2>6, <2>7, <2>8 DEF PageDistinct, StageHasPage, ArrivalsUnique,
                                               Complete, txVars
<1>7. CASE Restart
  <2>1. page' \in Seq(Transactions) /\ DOMAIN page' = {}
    BY <1>7, EmptySeq DEF Restart
  <2>2. InboxTypeOK'
    BY <1>7, <2>1 DEF Restart, InboxTypeOK, Accepted, txVars, eventVars
  <2>q. QED
    BY <1>7, <2>1, <2>2 DEF Restart, PageDistinct, StageHasPage, ArrivalsUnique, OriginsDone,
                            NothingLost, Accepted, Stored, txVars, eventVars
<1>8. ASSUME NEW e \in Events, Acknowledge(e) PROVE InboxInv'
  BY <1>8 DEF Acknowledge, InboxTypeOK, PageDistinct, StageHasPage, ArrivalsUnique, OriginsDone,
              NothingLost, Accepted, Stored, txVars, eventVars, workerVars
<1>9. CASE UNCHANGED inboxVars
  BY <1>9 DEF inboxVars, InboxTypeOK, PageDistinct, StageHasPage, ArrivalsUnique, OriginsDone,
              NothingLost, Accepted, Stored, txVars, eventVars, workerVars
<1>q. QED
  BY <1>1, <1>2, <1>3, <1>4, <1>5, <1>6, <1>7, <1>8, <1>9 DEF InboxNext, WorkerStep

LEMMA InboxInitial ==
  ASSUME InboxInit
  PROVE  InboxInv
<1>1. <<>> \in Seq(Transactions) /\ DOMAIN <<>> = {}
  BY EmptySeq
<1>q. QED
  BY <1>1, InboxAssumption DEF InboxInit, InboxInv, InboxTypeOK, PageDistinct, StageHasPage,
     ArrivalsUnique, OriginsDone, NothingLost, Accepted, Stored

-----------------------------------------------------------------------------
(* The invariant of the inbox and what follows from it.                    *)

\* The inbox's tables and its worker stay consistent, whatever arrives, fails
\* or restarts (transaction-inbox.ts, transaction-worker.ts).
THEOREM InboxInvariance == InboxSpec => []InboxInv
<1>1. InboxInit => InboxInv
  BY InboxInitial
<1>2. InboxInv /\ [InboxNext]_inboxVars => InboxInv'
  BY InboxStepKeeps
<1>q. QED
  BY <1>1, <1>2, PTL DEF InboxSpec

\* Every variable keeps its type, and a pass only tries pending transactions:
\* recordAttempt's assertion holds.
THEOREM InboxTypeCorrect == InboxSpec => []InboxTypeOK
  BY InboxInvariance, PTL DEF InboxInv

\* A transaction answered with 200 is kept, and done only with all its events
\* stored (accept, complete).
THEOREM InboxLosesNothing == InboxSpec => []NothingLost
  BY InboxInvariance, PTL DEF InboxInv

\* Neither a repeated transaction nor a second one with the same event moves
\* what is stored: arrival and source position are settled once.
LEMMA ProvenanceStep ==
  ASSUME InboxInv, [InboxNext]_inboxVars
  PROVE  /\ \A t \in Accepted : arrival'[t] = arrival[t]
         /\ \A e \in Stored : place'[e] = place[e] /\ origin'[e] = origin[e]
<1>1. ASSUME NEW t \in Transactions, Put(t)
      PROVE  /\ \A u \in Accepted : arrival'[u] = arrival[u]
             /\ UNCHANGED eventVars
  BY <1>1 DEF Put, Fresh, Accepted, InboxInv, InboxTypeOK
<1>2. ASSUME NEW t \in Transactions, Complete(t)
      PROVE  /\ \A e \in Stored : place'[e] = place[e] /\ origin'[e] = origin[e]
             /\ UNCHANGED txVars
  BY <1>2, CompleteStores DEF Complete
<1>3. CASE \/ BeginPass \/ Attempt \/ ApplyKeys \/ DecodeFails \/ Restart
           \/ \E e \in Events : Acknowledge(e)
           \/ UNCHANGED inboxVars
  BY <1>3 DEF BeginPass, Attempt, ApplyKeys, DecodeFails, Restart, Acknowledge, inboxVars,
              txVars, eventVars
<1>q. QED
  BY <1>1, <1>2, <1>3 DEF InboxNext, WorkerStep, txVars, eventVars

THEOREM InboxProvenance == InboxSpec => ProvenanceFixed
<1>1. InboxInv /\ [InboxNext]_inboxVars
        => [/\ \A t \in Accepted : arrival'[t] = arrival[t]
            /\ \A e \in Stored : place'[e] = place[e] /\ origin'[e] = origin[e]]_inboxVars
  BY ProvenanceStep
<1>q. QED
  BY <1>1, InboxInvariance, PTL DEF InboxSpec, ProvenanceFixed

-----------------------------------------------------------------------------
(* The whole: the inbox and the journals behind it.                        *)

\* The journals only ever acknowledge: for the inbox every step is one of its
\* own.
LEMMA ComposedStep ==
  ASSUME [Next]_vars
  PROVE  [InboxNext]_inboxVars
<1>1. CASE InboxStep
  BY <1>1 DEF InboxStep, InboxNext
<1>2. ASSUME NEW e \in Events, Ingest(e) PROVE [InboxNext]_inboxVars
  <2>1. e \in Stored /\ UNCHANGED <<txVars, done, eventVars, workerVars>>
        /\ (UNCHANGED delivered \/ delivered' = delivered \cup {e})
    BY <1>2 DEF Ingest
  <2>2. Acknowledge(e) \/ UNCHANGED inboxVars
    BY <2>1 DEF Acknowledge, inboxVars
  <2>q. QED
    BY <2>2 DEF InboxNext
<1>3. ASSUME NEW e \in Events, Refuse(e) PROVE [InboxNext]_inboxVars
  <2>1. e \in Stored /\ UNCHANGED <<txVars, done, eventVars, workerVars>>
        /\ (UNCHANGED delivered \/ delivered' = delivered \cup {e})
    BY <1>3 DEF Refuse
  <2>2. Acknowledge(e) \/ UNCHANGED inboxVars
    BY <2>1 DEF Acknowledge, inboxVars
  <2>q. QED
    BY <2>2 DEF InboxNext
<1>4. CASE \E e \in Events : BeginDispatch(e) \/ Claim(e) \/ Resolve(e)
  BY <1>4 DEF BeginDispatch, Claim, Resolve
<1>5. CASE \E k \in Kinds : AbortDispatch(k) \/ Result(k)
  BY <1>5 DEF AbortDispatch, Result
<1>6. CASE RestartService
  BY <1>6 DEF RestartService, InboxNext
<1>7. CASE UNCHANGED vars
  BY <1>7 DEF vars
<1>q. QED
  BY <1>1, <1>2, <1>3, <1>4, <1>5, <1>6, <1>7 DEF Next

LEMMA OrderTypeStep ==
  ASSUME OrderTypeOK, InboxTypeOK', [Next]_vars
  PROVE  OrderTypeOK'
<1>1. CASE InboxStep \/ UNCHANGED vars
  BY <1>1 DEF InboxStep, OrderTypeOK, orderVars, vars
<1>2. ASSUME NEW e \in Events, Ingest(e) \/ Refuse(e) \/ Claim(e) \/ Resolve(e)
      PROVE  OrderTypeOK'
  BY <1>2 DEF Ingest, Refuse, Claim, Resolve, OrderTypeOK, OpStates
<1>3. ASSUME NEW e \in Events, BeginDispatch(e) PROVE OrderTypeOK'
  BY <1>3 DEF BeginDispatch, OrderTypeOK
<1>4. ASSUME NEW k \in Kinds, AbortDispatch(k) PROVE OrderTypeOK'
  BY <1>4 DEF AbortDispatch, OrderTypeOK
<1>5. ASSUME NEW k \in Kinds, Result(k) PROVE OrderTypeOK'
  <2>1. \A o \in Outcomes[k] : o \in OpStates
    BY <1>5 DEF Outcomes, OpStates, Kinds
  <2>q. QED
    BY <1>5, <2>1 DEF Result, OrderTypeOK
<1>6. CASE RestartService
  BY <1>6 DEF RestartService, Recovered, OrderTypeOK, OpStates
<1>q. QED
  BY <1>1, <1>2, <1>3, <1>4, <1>5, <1>6 DEF Next

\* What a step of the inbox may change for a stored event: its elders of the
\* room are the same ones, and nothing new stands before it, unless an older
\* undecoded transaction of the room is there.
LEMMA EldersStay ==
  ASSUME InboxInv, [InboxNext]_inboxVars, NEW f \in Stored
  PROVE  /\ f \in Stored'
         /\ BarredBy(f)' \subseteq BarredBy(f)
         /\ Elders(f) \subseteq Elders(f)'
         /\ BarredBy(f) = {} => Elders(f)' = Elders(f)
<1> USE DEF InboxInv
<1>1. /\ \A t \in Accepted : arrival'[t] = arrival[t]
      /\ \A e \in Stored : place'[e] = place[e] /\ origin'[e] = origin[e]
  BY ProvenanceStep
<1>2. Stored \subseteq Stored' /\ Accepted \subseteq Accepted'
  BY <1>1 DEF Stored, Accepted
<1>3. \A e \in Stored : origin[e] \in Accepted /\ origin[e] \in done
  BY DEF OriginsDone
<1>4. \A e, g \in Stored : Before(e, g)' <=> Before(e, g)
  BY <1>1, <1>2, <1>3 DEF Before
<1>5. ASSUME NEW t \in Pending', t \notin Pending
      PROVE  arrival'[t] > arrival[origin[f]]
  <2>1. ASSUME Put(t) PROVE arrival'[t] > arrival[origin[f]]
    <3>1. t \notin Accepted
      BY <1>5, <2>1 DEF Put, Pending
    <3>2. arrival'[t] = lastArrival + 1
      BY <2>1, <3>1, <1>5 DEF Put, Fresh, Accepted, InboxTypeOK, Pending
    <3>q. QED
      BY <1>3, <3>2 DEF ArrivalsUnique, InboxTypeOK, Accepted
  <2>2. ASSUME NEW u \in Transactions, Put(u), u # t PROVE FALSE
    BY <1>5, <2>2 DEF Put, Pending, Accepted, InboxTypeOK
  <2>3. ASSUME NEW u \in Transactions, Complete(u) PROVE FALSE
    BY <1>5, <2>3 DEF Complete, Pending, Accepted, txVars
  <2>4. CASE \/ BeginPass \/ Attempt \/ ApplyKeys \/ DecodeFails \/ Restart
             \/ \E e \in Events : Acknowledge(e)
             \/ UNCHANGED inboxVars
    BY <1>5, <2>4 DEF BeginPass, Attempt, ApplyKeys, DecodeFails, Restart, Acknowledge,
                inboxVars, txVars, Pending, Accepted
  <2>q. QED
    BY <1>5, <2>1, <2>2, <2>3, <2>4 DEF InboxNext, WorkerStep, Pending, Accepted
<1>6. BarredBy(f)' \subseteq BarredBy(f)
  <2>1. SUFFICES ASSUME NEW t \in BarredBy(f)' PROVE t \in BarredBy(f)
    OBVIOUS
  <2>2. /\ t \in Pending' /\ arrival'[t] < arrival[origin[f]]
        /\ \E x \in InTx(t) : RoomOf[x] = RoomOf[f]
    BY <1>1, <1>3, <2>1 DEF BarredBy, InTx
  <2>3. arrival[origin[f]] \in Nat /\ arrival'[t] \in Nat
    BY <1>3, <2>2, InboxStepKeeps DEF Accepted, Pending, InboxTypeOK
  <2>4. t \in Pending
    BY <1>5, <2>2, <2>3
  <2>q. QED
    BY <1>1, <2>2, <2>4 DEF BarredBy, Pending
<1>7. ASSUME NEW e \in Elders(f)', BarredBy(f) = {} PROVE e \in Elders(f)
  <2>1. CASE e \in Stored
    BY <1>4, <1>7, <2>1 DEF Elders
  <2>2. CASE e \notin Stored
    <3>1. PICK t \in Transactions : Complete(t)
      BY <1>7, <2>2 DEF Elders, Before, InboxNext, WorkerStep, Put, BeginPass, Attempt,
         ApplyKeys, DecodeFails, Restart, Acknowledge, inboxVars, eventVars, Stored
    <3>2. t \in Pending /\ e \in InTx(t) /\ origin'[e] = t
      BY <1>7, <2>2, <3>1, CompleteStores DEF Elders, Before
    <3>3. arrival' = arrival
      BY <3>1 DEF Complete, txVars
    <3>4. arrival[t] < arrival[origin[f]] \/ arrival[t] = arrival[origin[f]]
      BY <1>1, <1>7, <3>2, <3>3 DEF Elders, Before
    <3>5. arrival[t] # arrival[origin[f]]
      BY <1>3, <3>2 DEF ArrivalsUnique, Pending
    <3>6. t \in BarredBy(f)
      BY <1>7, <3>2, <3>4, <3>5 DEF BarredBy, Elders
    <3>q. QED
      BY <1>7, <3>6
  <2>q. QED
    BY <2>1, <2>2
<1>8. Elders(f) \subseteq Elders(f)'
  BY <1>2, <1>4 DEF Elders, Before
<1>q. QED
  BY <1>2, <1>6, <1>7, <1>8

\* Every change of an event's operation: where it may go, and what the guard
\* of that step has seen.
LEMMA OperationStep ==
  ASSUME OrderTypeOK, InboxInv, ClassifiedStored, [Next]_vars, NEW e \in Events,
         op'[e] # op[e]
  PROVE  \/ /\ op[e] = "none" /\ op'[e] \in {"queued", "rejected"} /\ e \in Stored
            /\ KindOf[e] \in Kinds => MayEnter(e)
            /\ op'[e] = "queued" => KindOf[e] \in Kinds
         \/ op[e] = "queued" /\ op'[e] = "dispatching" /\ MayDispatch(e)
         \/ op[e] = "dispatching" /\ op'[e] \in {"sent", "acked", "unknown", "failed"}
         \/ op[e] \in {"sent", "unknown", "acked"} /\ op'[e] = "acked"
         \/ op[e] = "sent" /\ op'[e] = "unknown"
         \/ op[e] = "unknown" /\ op'[e] = "sent"
<1> USE DEF OrderTypeOK, Kinds
<1>1. CASE InboxStep \/ UNCHANGED vars \/ (\E g \in Events : BeginDispatch(g))
           \/ (\E k \in Kinds : AbortDispatch(k))
  BY <1>1 DEF InboxStep, orderVars, vars, BeginDispatch, AbortDispatch
<1>2. ASSUME NEW g \in Events, Ingest(g) PROVE g = e /\ op[e] = "none" /\ MayEnter(e)
             /\ op'[e] = (IF KindOf[e] = "oversized" \/ Untargeted(e) THEN "rejected" ELSE "queued")
             /\ KindOf[e] \in Kinds \cup {"oversized"} /\ e \in Stored
  BY <1>2 DEF Ingest
<1>3. ASSUME NEW g \in Events, Refuse(g)
      PROVE  g = e /\ op'[e] = "rejected" /\ KindOf[e] = "unsupported" /\ e \in Stored
  BY <1>3 DEF Refuse
<1>4. KindOf[e] = "unsupported" => op[e] \in {"none", "rejected"}
  BY DEF ClassifiedStored
<1>5. ASSUME NEW g \in Events, Claim(g)
      PROVE  op[e] = "queued" /\ op'[e] = "dispatching" /\ MayDispatch(e)
  BY <1>5 DEF Claim
<1>6. ASSUME NEW g \in Events, Resolve(g)
      PROVE  \/ op[e] \in {"dispatching", "unknown", "sent", "acked"} /\ op'[e] = "acked"
             \/ op[e] = "unknown" /\ op'[e] = "sent"
  BY <1>6 DEF Resolve, Attempted, Confirmed
<1>7. ASSUME NEW k \in Kinds, Result(k)
      PROVE  op[e] = "dispatching" /\ op'[e] \in {"sent", "acked", "unknown", "failed"}
  <2>1. PICK o \in Outcomes[k] : op' = [op EXCEPT ![candidate[k]] = o]
    BY <1>7 DEF Result
  <2>2. candidate[k] = e /\ op[e] = "dispatching"
    BY <1>7, <2>1 DEF Result
  <2>3. o \in {"sent", "unknown", "failed"}
    BY <2>1 DEF Outcomes
  <2>q. QED
    BY <2>1, <2>2, <2>3
<1>8. CASE RestartService
  BY <1>8 DEF RestartService, Recovered
<1>q. QED
  BY <1>1, <1>2, <1>3, <1>4, <1>5, <1>6, <1>7, <1>8 DEF Next

LEMMA OrderStepKeeps ==
  ASSUME OrderInv, [Next]_vars
  PROVE  OrderInv'
<1>1. [InboxNext]_inboxVars
  BY ComposedStep
<1>2. InboxInv'
  BY <1>1, InboxStepKeeps DEF OrderInv
<1>3. OrderTypeOK'
  BY <1>2, OrderTypeStep DEF OrderInv, InboxInv
<1>4. \A f \in Stored : /\ f \in Stored' /\ BarredBy(f)' \subseteq BarredBy(f)
                        /\ Elders(f) \subseteq Elders(f)'
                        /\ BarredBy(f) = {} => Elders(f)' = Elders(f)
  BY <1>1, EldersStay DEF OrderInv
<1>5. op \in [Events -> OpStates] /\ op' \in [Events -> OpStates]
  BY <1>3 DEF OrderInv, OrderTypeOK
<1>6. ClassifiedStored'
  BY <1>4, <1>5, OperationStep DEF OrderInv, ClassifiedStored
<1>7. ASSUME NEW f \in Events, op[f] # "none" PROVE op'[f] # "none"
  BY <1>7, OperationStep DEF OrderInv
<1>8. ClassifiedInOrder'
  <2>1. SUFFICES ASSUME NEW f \in Events, op'[f] \in Classified, KindOf[f] \in Kinds
                 PROVE  BarredBy(f)' = {} /\ \A e \in Elders(f)' : op'[e] \in Classified
    BY DEF ClassifiedInOrder
  <2>2. f \in Stored /\ BarredBy(f) = {} /\ \A e \in Elders(f) : op[e] \in Classified
    <3>1. CASE op[f] \in Classified
      BY <2>1, <3>1 DEF OrderInv, ClassifiedInOrder, ClassifiedStored, Classified
    <3>2. CASE op[f] \notin Classified
      <4>1. op[f] = "none" /\ op'[f] # op[f]
        BY <1>5, <2>1, <3>2 DEF Classified
      <4>2. MayEnter(f)
        BY <2>1, <4>1, OperationStep DEF OrderInv
      <4>q. QED
        BY <4>2 DEF MayEnter, Permits
    <3>q. QED
      BY <3>1, <3>2
  <2>3. Elders(f)' = Elders(f) /\ BarredBy(f)' = {}
    BY <1>4, <2>2
  <2>4. \A e \in Elders(f) : e \in Events
    BY DEF Elders, Sequenced
  <2>q. QED
    BY <1>5, <1>7, <2>2, <2>3, <2>4 DEF Classified
<1>9. AttemptedInOrder'
  <2>1. SUFFICES ASSUME NEW f \in Events, op'[f] \in Attempted, NEW e \in Elders(f)'
                 PROVE  op'[e] \in {"unknown"} \cup Settled
    BY DEF AttemptedInOrder
  <2>2. op[f] \notin {"none", "rejected"}
    BY <2>1, OperationStep DEF OrderInv, Attempted, Confirmed
  <2>3. f \in Stored /\ BarredBy(f) = {}
    BY <1>5, <2>2 DEF OrderInv, ClassifiedStored, ClassifiedInOrder, Classified
  <2>4. e \in Elders(f) /\ e \in Events
    BY <1>4, <2>1, <2>3 DEF Elders, Sequenced
  <2>5. op[e] \in {"unknown"} \cup Settled
    <3>1. CASE op[f] \in Attempted
      BY <2>4, <3>1 DEF OrderInv, AttemptedInOrder
    <3>2. CASE op[f] \notin Attempted
      <4>1. MayDispatch(f)
        BY <2>1, <3>2, OperationStep DEF OrderInv, Attempted, Confirmed
      <4>q. QED
        BY <2>4, <4>1 DEF MayDispatch, Permits
    <3>q. QED
      BY <3>1, <3>2
  <2>q. QED
    BY <1>5, <2>4, <2>5, OperationStep DEF OrderInv, Settled, Confirmed
<1>q. QED
  BY <1>2, <1>3, <1>6, <1>8, <1>9 DEF OrderInv

-----------------------------------------------------------------------------
(* The invariant and what follows from it.                                 *)

\* The inbox together with the journals and their consumers still keeps what
\* the inbox promises by itself.
THEOREM ComposedInbox == Spec => InboxSpec
  BY ComposedStep, PTL DEF Spec, Init, InboxSpec

\* The invariant of the source order (source-order.ts, predecessorsPermit).
THEOREM OrderInvariance == Spec => []OrderInv
<1>1. Init => OrderInv
  <2>1. ASSUME Init PROVE OrderInv
    <3>1. InboxInv
      BY <2>1, InboxInitial DEF Init
    <3>q. QED
      BY <2>1, <3>1 DEF Init, OrderInv, OrderTypeOK, InboxInv, ClassifiedStored,
         ClassifiedInOrder, AttemptedInOrder, OpStates, Classified, Attempted, Confirmed
  <2>q. QED
    BY <2>1
<1>2. OrderInv /\ [Next]_vars => OrderInv'
  BY OrderStepKeeps
<1>q. QED
  BY <1>1, <1>2, PTL DEF Spec

\* Every variable keeps its type, those of the inbox included.
THEOREM OrderTypeCorrect == Spec => []OrderTypeOK
  BY OrderInvariance, PTL DEF OrderInv

\* Nothing is queued before an elder of its room is decoded and classified.
THEOREM JournalsInSourceOrder == Spec => []ClassifiedInOrder
  BY OrderInvariance, PTL DEF OrderInv

\* Nothing is attempted before an elder of its room, of either kind, is.
THEOREM AttemptsInSourceOrder == Spec => []AttemptedInOrder
  BY OrderInvariance, PTL DEF OrderInv

\* A later decryption does not revoke the permission to enter a journal.
THEOREM PermissionIsFinal == Spec => PermissionStays
<1>1. OrderInv /\ [Next]_vars
        => [\A e \in Events : MayEnter(e) => MayEnter(e)']_vars
  <2>1. SUFFICES ASSUME OrderInv, [Next]_vars, NEW e \in Events, MayEnter(e)
                 PROVE  MayEnter(e)'
    OBVIOUS
  <2>2. /\ e \in Stored' /\ BarredBy(e)' = {} /\ Elders(e)' = Elders(e)
    BY <2>1, ComposedStep, EldersStay DEF OrderInv, MayEnter, Permits
  <2>3. \A p \in Elders(e) : p \in Events /\ op[p] \in Classified
    BY <2>1 DEF MayEnter, Permits, Elders, Sequenced
  <2>4. \A p \in Elders(e) : op'[p] \in Classified
    BY <2>1, <2>3, OperationStep DEF OrderInv, Classified, OpStates
  <2>q. QED
    BY <2>2, <2>4 DEF MayEnter, Permits
<1>q. QED
  BY <1>1, OrderInvariance, PTL DEF Spec, PermissionStays

\* What has been attempted is never queued again, by no interleaving of
\* dispatcher, echo, recovery and restart.
THEOREM AttemptsAreFinal == Spec => NeverRequeued
<1>1. OrderInv /\ [Next]_vars
        => [\A e \in Events : op[e] \in Attempted => op'[e] \in Attempted \cup {"failed"}]_vars
  BY OperationStep DEF OrderInv, Attempted, Confirmed
<1>q. QED
  BY <1>1, OrderInvariance, PTL DEF Spec, NeverRequeued

\* A refusal is final and never falls on accepted work.
THEOREM RefusalsStand == Spec => ClassStands
<1>1. OrderInv /\ [Next]_vars
        => [\A e \in Events : op[e] # "none" => (op'[e] = "rejected" <=> op[e] = "rejected")]_vars
  BY OperationStep DEF OrderInv
<1>q. QED
  BY <1>1, OrderInvariance, PTL DEF Spec, ClassStands

\* The shared inbox forgets an owner event only once it is classified.
THEOREM AcksAreClassified == Spec => []NoUnclassifiedAck
<1>1. Init => NoUnclassifiedAck
  BY DEF Init, InboxInit, NoUnclassifiedAck
<1>2. OrderInv /\ NoUnclassifiedAck /\ [Next]_vars => NoUnclassifiedAck'
  <2>1. SUFFICES ASSUME OrderInv, NoUnclassifiedAck, [Next]_vars,
                        NEW e \in delivered' \cap Sequenced
                 PROVE  op'[e] \in Classified
    BY DEF NoUnclassifiedAck, Sequenced
  <2>2. OrderTypeOK' /\ e \in Events
    BY <2>1, ComposedStep, InboxStepKeeps, OrderTypeStep DEF OrderInv, InboxInv, Sequenced
  <2>3. CASE e \in delivered
    <3>1. op[e] \in Classified
      BY <2>1, <2>3 DEF NoUnclassifiedAck
    <3>q. QED
      BY <2>1, <2>2, <3>1, OperationStep DEF OrderInv, OrderTypeOK, Classified
  <2>4. CASE e \notin delivered
    <3>1. CASE \E g \in Events : Ingest(g)
      BY <2>1, <2>2, <2>4, <3>1 DEF Ingest, OrderTypeOK, OrderInv, Classified
    <3>2. CASE \E g \in Events : Refuse(g)
      BY <2>1, <2>2, <2>4, <3>2 DEF Refuse, OrderTypeOK, OrderInv, Classified, OpStates
    <3>3. CASE ~(\E g \in Events : Ingest(g) \/ Refuse(g))
      BY <2>1, <2>4, <3>3 DEF Next, InboxStep, WorkerStep, Put, BeginPass, Attempt, ApplyKeys,
         DecodeFails, Complete, RestartService, Restart, BeginDispatch, Claim, Resolve,
         AbortDispatch, Result, vars, inboxVars
    <3>q. QED
      BY <3>1, <3>2, <3>3
  <2>q. QED
    BY <2>3, <2>4
<1>q. QED
  BY <1>1, <1>2, OrderInvariance, PTL DEF Spec
=============================================================================
