------------------------- MODULE ProfileSyncProofs -------------------------
(***************************************************************************)
(* Proofs about ProfileSync, for any number of messages and chats, any     *)
(* page size and any bound of the queues.                                  *)
(*                                                                         *)
(* LiveRecorded rests on what an epoch has of a message before it commits: *)
(* the history that was staged, the page under way or, for what the        *)
(* history has yet to reach, Threema itself, and upon these the live       *)
(* messages that were staged and those the watch still holds back make the *)
(* content of Threema (FollowInv).  NothingSkipped rests on the head of    *)
(* the journal, which no step but its acknowledgement removes.             *)
(***************************************************************************)
EXTENDS ProfileSync, SequenceTheorems, FiniteSetTheorems, WellFoundedInduction, TLAPS

ThreemaTypes ==
  native \in [Messages -> Contents \cup {0}] /\ topo \in Topology /\ moves \in 0..MaxMoves
WatchTypes ==
  /\ topoWatch \in {"off", "on", "tripped"} /\ watch \in [Chats -> {"off", "on", "tripped"}]
  /\ events \in [Chats -> Seq(Recorded)]
Pages == [chat: Chats, messages: Seq(Recorded), more: BOOLEAN]
RunTypes ==
  /\ pc \in {"stopped", "topology", "list", "directory", "attach", "history", "reconciled",
             "live", "cleanup"}
  /\ aborted \in BOOLEAN /\ listed \in Topology /\ dir \in Topology /\ filled \in SUBSET Chats
  /\ attached \in SUBSET Chats /\ cursor \in [Chats -> 0..(NumMessages + 1)]
  /\ page = None \/ page \in Pages
  /\ staging \in BOOLEAN /\ buffered \in 0..BufferLimit
StageTypes == tokens \in SUBSET Chats /\ snap \in Seq(Recorded) /\ lives \in Seq(Recorded)
JournalTypes ==
  /\ latest \in [Messages -> Contents \cup {0}] /\ changes \in Seq(Recorded)
  /\ meta \in Metadata \cup {None} /\ metaPending \in BOOLEAN
DeliveryTypes ==
  /\ dpc \in {"idle", "metadata", "applied", "message", "delivered"}
  /\ view \in Metadata \cup {None} /\ fresh \in BOOLEAN
MatrixTypes ==
  /\ shown \in [Messages -> Contents \cup {0}]
  /\ rooms \in [Chats -> Kinds \X Kinds]
  /\ portals \in SUBSET Chats /\ misnamed \in SUBSET Chats

Types ==
  /\ ThreemaTypes /\ WatchTypes /\ RunTypes /\ StageTypes /\ JournalTypes /\ DeliveryTypes
  /\ MatrixTypes

Early == {"topology", "list", "directory", "attach"}
Committed == {"reconciled", "live"}

\* A watch belongs to a chat that is attached and holds changes of that chat.
WatchInv ==
  \A c \in Chats :
    /\ watch[c] # "on" => events[c] = <<>>
    /\ watch[c] # "off" => c \in attached
    /\ \A i \in DOMAIN events[c] : ChatOf[events[c][i][1]] = c

\* What an epoch has begun, and what it has left behind.
OfAttached(log) == \A i \in DOMAIN log : ChatOf[log[i][1]] \in attached
PhaseInv ==
  /\ pc \in {"stopped"} \cup (Early \ {"attach"}) => attached = {}
  /\ pc # "stopped" => OfAttached(snap) /\ OfAttached(lives)
  /\ pc \in Early => snap = <<>>
  /\ pc \in {"stopped", "cleanup"} \cup Early => cursor = Empty
  /\ pc # "history" => page = None
  /\ pc \in {"history"} \cup Committed => attached = Expected
  /\ staging <=> pc \notin Committed

\* A topology that is watched without a reset is the one the epoch has read.
TopologyInv ==
  /\ \A m \in Messages : native[m] # 0 => topo[ChatOf[m]] # 0
  /\ topoWatch = "on" =>
       /\ pc \in {"directory", "attach", "history"} \cup Committed => listed = topo
       /\ pc \in {"attach", "history"} \cup Committed => dir = topo
       /\ pc \in Committed => meta.list = topo /\ meta.dir = topo

\* The history is staged up to the cursor, and the page under way goes on from there.
Reach == IF page.more THEN Last(page.messages)[1] ELSE NumMessages + 1
HistoryInv ==
  pc = "history" =>
    /\ \A i \in DOMAIN snap : snap[i][1] <= cursor[ChatOf[snap[i][1]]]
    /\ page # None =>
         /\ page.chat \in Unread /\ (page.more => page.messages # <<>>)
         /\ \A i \in DOMAIN page.messages :
              /\ ChatOf[page.messages[i][1]] = page.chat
              /\ cursor[page.chat] < page.messages[i][1] /\ page.messages[i][1] <= Reach

\* What the epoch has of a message from the history, or will have.
OnPage(m) == page # None /\ page.chat = ChatOf[m] /\ m <= Reach
Seen(m) ==
  IF m <= cursor[ChatOf[m]] THEN Outcome(m, 0, snap)
  ELSE IF OnPage(m) THEN Outcome(m, 0, page.messages) ELSE native[m]
Staged(m) == Outcome(m, Seen(m), lives)
Follows(m) ==
  native[m] # 0 /\ watch[ChatOf[m]] = "on" =>
    /\ pc \in {"attach", "history"} => Outcome(m, Staged(m), events[ChatOf[m]]) = native[m]
    /\ pc \in Committed => Outcome(m, latest[m], events[ChatOf[m]]) = native[m]
FollowInv == topoWatch = "on" => \A m \in Messages : Follows(m)

EpochInv == WatchInv /\ PhaseInv /\ TopologyInv /\ HistoryInv /\ FollowInv

\* The change that is being delivered is the first, and Matrix shows it when applied.
HeadInv ==
  /\ dpc \in {"message", "delivered"} => changes # <<>>
  /\ dpc = "delivered" => shown[Here] = Head(changes)[2]

\* A delivery that is not superseded has the stored metadata; nobody is in a room that
\* is not bound.
Current ==
  \A c \in meta.active \cap portals :
    /\ c \notin misnamed => rooms[c][1] = meta.list[c]
    /\ rooms[c][2] \in {0, meta.dir[c]}
Unbound == \A c \in Chats \ portals : rooms[c][2] = 0
ViewInv ==
  /\ Unbound
  /\ dpc = "idle" => fresh
  /\ dpc # "idle" => view # None
  /\ dpc # "idle" /\ fresh => view = meta
  /\ dpc = "applied" /\ fresh => Current
  /\ ~fresh => metaPending

-----------------------------------------------------------------------------
(* Numbers.                                                                *)

Smaller == {pair \in Nat \X Nat : pair[1] < pair[2]}

\* A set of numbers that is not empty has a least member.
LEMMA Least ==
  ASSUME NEW S, S \subseteq Nat, S # {}
  PROVE  \E n \in S : \A k \in S : n <= k
<1>1. IsWellFoundedOn(Smaller, Nat)
  BY NatLessThanWellFounded DEF OpToRel, Smaller
<1>2. PICK n \in S : \A k \in S : ~(<<k, n>> \in Smaller)
  BY <1>1, WFMin, Zenon
<1>3. ASSUME NEW k \in S PROVE n <= k
  <2>1. k \in Nat /\ n \in Nat
    OBVIOUS
  <2>2. ~(k < n)
    <3>1. k < n => <<k, n>> \in Smaller
      BY <2>1 DEF Smaller
    <3> QED
      BY <1>2, <3>1
  <2> QED
    BY <2>1, <2>2
<1> QED
  BY <1>3

\* A set of numbers that has zero, and with a number the next one, has them all.
LEMMA AllNumbers ==
  ASSUME NEW S, S \subseteq Nat, 0 \in S, \A n \in S : n + 1 \in S
  PROVE  S = Nat
<1>1. SUFFICES ASSUME Nat \ S # {} PROVE FALSE
  OBVIOUS
<1>2. PICK n \in Nat \ S : \A k \in Nat \ S : n <= k
  BY <1>1, Least
<1>3. n - 1 \in S
  BY <1>2
<1> QED
  BY <1>2, <1>3

\* A bounded set of numbers that is not empty has a greatest member.
LEMMA Greatest ==
  ASSUME NEW S, NEW b \in Nat, S \subseteq 1..b, S # {}
  PROVE  Max(S) \in S /\ \A k \in S : k <= Max(S)
<1> DEFINE T == {n \in Nat : b - n \in S}
<1>1. T # {}
  <2>1. PICK s \in S : TRUE
    OBVIOUS
  <2>2. b - s \in T
    BY <2>1
  <2> QED
    BY <2>2
<1>2. PICK n \in T : \A k \in T : n <= k
  BY <1>1, Least
<1>3. ASSUME NEW k \in S PROVE b - n >= k
  <2>1. b - k \in T
    OBVIOUS
  <2> QED
    BY <1>2, <2>1
<1>4. \E x \in S : \A y \in S : x >= y
  BY <1>2, <1>3
<1>5. Max(S) \in S /\ \A y \in S : Max(S) >= y
  BY <1>4, Zenon DEF Max
<1> QED
  BY <1>5

-----------------------------------------------------------------------------
(* The outcome of a log.                                                   *)

Occurs(m, log) == \E i \in DOMAIN log : log[i][1] = m
LastAt(m, log, i) ==
  /\ i \in DOMAIN log /\ log[i][1] = m
  /\ \A j \in DOMAIN log : i < j => log[j][1] # m

LEMMA OutcomeNone ==
  ASSUME NEW m, NEW was, NEW log, ~Occurs(m, log)
  PROVE  Outcome(m, was, log) = was
BY DEF Outcome, Occurs

LEMMA OutcomeLast ==
  ASSUME NEW T, NEW m, NEW was, NEW log \in Seq(T), NEW i, LastAt(m, log, i)
  PROVE  Outcome(m, was, log) = log[i][2]
<1> DEFINE mine == {j \in DOMAIN log : log[j][1] = m}
<1>1. DOMAIN log = 1..Len(log) /\ Len(log) \in Nat
  BY LenProperties
<1>2. i \in mine /\ mine \subseteq 1..Len(log) /\ \A j \in mine : j <= i
  BY <1>1 DEF LastAt
<1>3. Max(mine) \in mine /\ \A j \in mine : j <= Max(mine)
  BY <1>1, <1>2, Greatest
<1>4. Max(mine) = i
  <2>1. Max(mine) <= i /\ i <= Max(mine) /\ i \in Nat /\ Max(mine) \in Nat
    BY <1>1, <1>2, <1>3
  <2> QED
    BY <2>1
<1> HIDE DEF mine
<1>5. Outcome(m, was, log) = log[Max(mine)][2]
  BY <1>2 DEF Outcome, mine
<1> QED
  BY <1>4, <1>5

LEMMA OccursLast ==
  ASSUME NEW T, NEW m, NEW log \in Seq(T), Occurs(m, log)
  PROVE  \E i \in DOMAIN log : LastAt(m, log, i)
<1> DEFINE mine == {j \in DOMAIN log : log[j][1] = m}
<1>1. DOMAIN log = 1..Len(log) /\ Len(log) \in Nat
  BY LenProperties
<1>2. mine # {} /\ mine \subseteq 1..Len(log)
  BY <1>1 DEF Occurs
<1>3. Max(mine) \in mine /\ \A j \in mine : j <= Max(mine)
  BY <1>1, <1>2, Greatest
<1>4. LastAt(m, log, Max(mine))
  <2>1. ASSUME NEW j \in DOMAIN log, Max(mine) < j PROVE log[j][1] # m
    <3>1. j \in Nat /\ Max(mine) \in Nat
      BY <1>1, <1>2, <1>3
    <3>2. j \in mine => j <= Max(mine)
      BY <1>3
    <3>3. j \notin mine
      BY <2>1, <3>1, <3>2
    <3> QED
      BY <3>3
  <2> QED
    BY <1>3, <2>1 DEF LastAt
<1> QED
  BY <1>3, <1>4

\* What a change makes of a message.
LEMMA OutcomeOne ==
  ASSUME NEW T, NEW m, NEW was, NEW r \in T
  PROVE  Outcome(m, was, <<r>>) = IF r[1] = m THEN r[2] ELSE was
<1> DEFINE one == <<r>>
<1>1. one \in Seq(T) /\ DOMAIN one = {1} /\ one[1] = r
  OBVIOUS
<1> HIDE DEF one
<1>2. CASE r[1] = m
  <2>1. LastAt(m, one, 1)
    BY <1>1, <1>2 DEF LastAt
  <2>2. Outcome(m, was, one) = one[1][2]
    BY <1>1, <2>1, OutcomeLast
  <2> QED
    BY <1>1, <1>2, <2>2 DEF one
<1>3. CASE r[1] # m
  <2>1. ~Occurs(m, one)
    BY <1>1, <1>3 DEF Occurs
  <2>2. Outcome(m, was, one) = was
    BY <2>1, OutcomeNone
  <2> QED
    BY <1>3, <2>2 DEF one
<1> QED
  BY <1>2, <1>3

\* Logs that follow each other.
LEMMA OutcomeBoth ==
  ASSUME NEW T, NEW m, NEW was, NEW s \in Seq(T), NEW t \in Seq(T)
  PROVE  Outcome(m, was, s \o t) = Outcome(m, Outcome(m, was, s), t)
<1> DEFINE st == s \o t
<1>1. /\ st \in Seq(T) /\ Len(st) = Len(s) + Len(t)
      /\ DOMAIN st = 1..(Len(s) + Len(t)) /\ DOMAIN s = 1..Len(s) /\ DOMAIN t = 1..Len(t)
      /\ Len(s) \in Nat /\ Len(t) \in Nat
      /\ \A i \in 1..Len(st) : st[i] = IF i <= Len(s) THEN s[i] ELSE t[i - Len(s)]
  BY ConcatProperties, LenProperties
<1> HIDE DEF st
<1>2. CASE Occurs(m, t)
  <2>1. PICK i \in DOMAIN t : LastAt(m, t, i)
    BY <1>2, OccursLast
  <2>2. LastAt(m, st, Len(s) + i)
    <3>1. /\ Len(s) + i \in DOMAIN st /\ st[Len(s) + i] = t[i]
      BY <1>1
    <3>2. ASSUME NEW j \in DOMAIN st, Len(s) + i < j PROVE st[j][1] # m
      <4>1. j - Len(s) \in DOMAIN t /\ i < j - Len(s) /\ st[j] = t[j - Len(s)]
        BY <1>1, <3>2
      <4> QED
        BY <2>1, <4>1 DEF LastAt
    <3> QED
      BY <2>1, <3>1, <3>2 DEF LastAt
  <2>3. st[Len(s) + i] = t[i]
    BY <1>1
  <2>4. Outcome(m, was, st) = st[Len(s) + i][2]
    BY <1>1, <2>2, OutcomeLast
  <2>5. Outcome(m, Outcome(m, was, s), t) = t[i][2]
    BY <2>1, OutcomeLast
  <2> QED
    BY <2>3, <2>4, <2>5 DEF st
<1>3. CASE ~Occurs(m, t) /\ Occurs(m, s)
  <2>1. PICK i \in DOMAIN s : LastAt(m, s, i)
    BY <1>3, OccursLast
  <2>2. LastAt(m, st, i)
    <3>1. i \in DOMAIN st /\ st[i] = s[i]
      BY <1>1
    <3>2. ASSUME NEW j \in DOMAIN st, i < j PROVE st[j][1] # m
      <4>1. CASE j <= Len(s)
        BY <1>1, <2>1, <3>2, <4>1 DEF LastAt
      <4>2. CASE ~(j <= Len(s))
        <5>1. j - Len(s) \in DOMAIN t /\ st[j] = t[j - Len(s)]
          BY <1>1, <4>2
        <5> QED
          BY <1>3, <5>1 DEF Occurs
      <4> QED
        BY <4>1, <4>2
    <3> QED
      BY <2>1, <3>1, <3>2 DEF LastAt
  <2>3. Outcome(m, was, st) = st[i][2] /\ Outcome(m, was, s) = s[i][2] /\ st[i] = s[i]
    BY <1>1, <2>1, <2>2, OutcomeLast
  <2>4. Outcome(m, Outcome(m, was, s), t) = Outcome(m, was, s)
    BY <1>3, OutcomeNone
  <2> QED
    BY <2>3, <2>4 DEF st
<1>4. CASE ~Occurs(m, t) /\ ~Occurs(m, s)
  <2>1. ~Occurs(m, st)
    <3>1. SUFFICES ASSUME NEW j \in DOMAIN st PROVE st[j][1] # m
      BY DEF Occurs
    <3>2. CASE j <= Len(s)
      BY <1>1, <1>4, <3>2 DEF Occurs
    <3>3. CASE ~(j <= Len(s))
      <4>1. j - Len(s) \in DOMAIN t /\ st[j] = t[j - Len(s)]
        BY <1>1, <3>3
      <4> QED
        BY <1>4, <4>1 DEF Occurs
    <3> QED
      BY <3>2, <3>3
  <2> QED
    BY <1>4, <2>1, OutcomeNone DEF st
<1> QED
  BY <1>2, <1>3, <1>4

\* What they hold.
LEMMA ConcatEntries ==
  ASSUME NEW T, NEW s \in Seq(T), NEW t \in Seq(T)
  PROVE  \A i \in DOMAIN (s \o t) : \/ i \in DOMAIN s /\ (s \o t)[i] = s[i]
                                    \/ \E j \in DOMAIN t : (s \o t)[i] = t[j]
<1> DEFINE st == s \o t
<1>1. /\ Len(st) = Len(s) + Len(t) /\ DOMAIN st = 1..Len(st)
      /\ DOMAIN s = 1..Len(s) /\ DOMAIN t = 1..Len(t) /\ Len(s) \in Nat /\ Len(t) \in Nat
      /\ \A i \in 1..Len(st) : st[i] = IF i <= Len(s) THEN s[i] ELSE t[i - Len(s)]
  BY ConcatProperties, LenProperties
<1> HIDE DEF st
<1>2. ASSUME NEW i \in DOMAIN st
      PROVE  (i \in DOMAIN s /\ st[i] = s[i]) \/ \E j \in DOMAIN t : st[i] = t[j]
  <2>1. CASE i <= Len(s)
    BY <1>1, <2>1
  <2>2. CASE ~(i <= Len(s))
    <3>1. i - Len(s) \in DOMAIN t /\ st[i] = t[i - Len(s)]
      BY <1>1, <2>2
    <3> QED
      BY <3>1
  <2> QED
    BY <2>1, <2>2
<1> QED
  BY <1>2 DEF st

\* A change is put behind the others.
LEMMA OutcomeAppend ==
  ASSUME NEW T, NEW m, NEW was, NEW s \in Seq(T), NEW r \in T
  PROVE  Outcome(m, was, Append(s, r)) = IF r[1] = m THEN r[2] ELSE Outcome(m, was, s)
<1> DEFINE one == <<r>>
<1>1. Append(s, r) = s \o one /\ one \in Seq(T)
  BY AppendIsConcat
<1>2. \A w : Outcome(m, w, one) = IF r[1] = m THEN r[2] ELSE w
  BY OutcomeOne
<1> HIDE DEF one
<1>3. Outcome(m, was, s \o one) = Outcome(m, Outcome(m, was, s), one)
  BY <1>1, OutcomeBoth
<1> QED
  BY <1>1, <1>2, <1>3

\* The first change is taken off.
LEMMA OutcomeTail ==
  ASSUME NEW T, NEW m, NEW was, NEW s \in Seq(T), s # <<>>
  PROVE  Outcome(m, was, s) =
           Outcome(m, IF Head(s)[1] = m THEN Head(s)[2] ELSE was, Tail(s))
<1> DEFINE one == <<Head(s)>>
           rest == Tail(s)
<1>1. Head(s) \in T /\ rest \in Seq(T) /\ one \in Seq(T)
  BY HeadTailProperties
<1>2. s = one \o rest
  BY <1>1, HeadTailProperties, ConcatProperties, SeqEqual
<1>3. Outcome(m, was, one) = IF Head(s)[1] = m THEN Head(s)[2] ELSE was
  BY <1>1, OutcomeOne
<1> HIDE DEF one, rest
<1>4. Outcome(m, was, one \o rest) = Outcome(m, Outcome(m, was, one), rest)
  BY <1>1, OutcomeBoth
<1>5. Outcome(m, was, s) = Outcome(m, IF Head(s)[1] = m THEN Head(s)[2] ELSE was, rest)
  BY <1>2, <1>3, <1>4
<1> QED
  BY <1>5 DEF rest

\* A message that a log has does not depend on what it was.
LEMMA OutcomeOccurs ==
  ASSUME NEW T, NEW m, NEW a, NEW b, NEW s \in Seq(T), Occurs(m, s)
  PROVE  Outcome(m, a, s) = Outcome(m, b, s)
<1>1. PICK i \in DOMAIN s : LastAt(m, s, i)
  BY OccursLast
<1>2. Outcome(m, a, s) = s[i][2] /\ Outcome(m, b, s) = s[i][2]
  BY <1>1, OutcomeLast
<1> QED
  BY <1>2

-----------------------------------------------------------------------------
(* The journal.                                                            *)

Journals == [latest: [Messages -> Contents \cup {0}], changes: Seq(Recorded)]

\* What a journal makes of an earlier one: the changes it lists still lead to what it
\* recorded last, and its first change is the same.
Extends(new, old) ==
  /\ \A m \in Messages : \A was \in Contents \cup {0} :
       Outcome(m, was, old.changes) = old.latest[m] =>
         Outcome(m, was, new.changes) = new.latest[m]
  /\ old.changes # <<>> => new.changes # <<>> /\ Head(new.changes) = Head(old.changes)

\* A change is recorded, and listed unless it is recorded already.
LEMMA UpsertedOne ==
  ASSUME NEW journal \in Journals, NEW change \in Recorded
  PROVE  /\ Upserted(journal, change) \in Journals
         /\ Extends(Upserted(journal, change), journal)
         /\ \A m \in Messages : Upserted(journal, change).latest[m] =
                                  IF m = change[1] THEN change[2] ELSE journal.latest[m]
<1> DEFINE new == Upserted(journal, change)
<1>1. /\ journal.latest \in [Messages -> Contents \cup {0}] /\ journal.changes \in Seq(Recorded)
      /\ change[1] \in Messages /\ change[2] \in Contents
  BY DEF Journals, Recorded
<1>2. CASE journal.latest[change[1]] = change[2]
  <2>1. new = journal
    BY <1>2 DEF Upserted
  <2>2. Extends(journal, journal)
    BY DEF Extends
  <2>3. \A m \in Messages : journal.latest[m] =
                              IF m = change[1] THEN change[2] ELSE journal.latest[m]
    BY <1>2
  <2> QED
    BY <2>1, <2>2, <2>3
<1>3. CASE journal.latest[change[1]] # change[2]
  <2>1. /\ new = [latest |-> [journal.latest EXCEPT ![change[1]] = change[2]],
                  changes |-> Append(journal.changes, change)]
    BY <1>3 DEF Upserted
  <2> HIDE DEF new
  <2>2. /\ new.latest = [journal.latest EXCEPT ![change[1]] = change[2]]
        /\ new.changes = Append(journal.changes, change)
    BY <2>1
  <2>3. new \in Journals
    <3>1. /\ [journal.latest EXCEPT ![change[1]] = change[2]] \in [Messages -> Contents \cup {0}]
          /\ Append(journal.changes, change) \in Seq(Recorded)
      BY <1>1
    <3> QED
      BY <2>1, <3>1 DEF Journals
  <2>4. \A m \in Messages : new.latest[m] =
                              IF m = change[1] THEN change[2] ELSE journal.latest[m]
    BY <1>1, <2>2
  <2>5. Extends(new, journal)
    <3>1. ASSUME NEW m \in Messages, NEW was \in Contents \cup {0},
                 Outcome(m, was, journal.changes) = journal.latest[m]
          PROVE  Outcome(m, was, new.changes) = new.latest[m]
      <4>1. Outcome(m, was, new.changes) =
              IF change[1] = m THEN change[2] ELSE Outcome(m, was, journal.changes)
        <5>1. \A s \in Seq(Recorded) :
                Outcome(m, was, Append(s, change)) =
                  IF change[1] = m THEN change[2] ELSE Outcome(m, was, s)
          BY OutcomeAppend
        <5> QED
          BY <1>1, <2>2, <5>1
      <4> QED
        BY <2>4, <3>1, <4>1
    <3>2. ASSUME journal.changes # <<>>
          PROVE  new.changes # <<>> /\ Head(new.changes) = Head(journal.changes)
      BY <1>1, <2>2, <3>2
    <3> QED
      BY <3>1, <3>2 DEF Extends
  <2> QED
    BY <2>3, <2>4, <2>5 DEF new
<1> QED
  BY <1>2, <1>3

\* The recursion of Replayed has a solution.
Replays(upTo, journal, log, n) ==
  upTo = [k \in 0..n |-> IF k = 0 THEN journal ELSE Upserted(upTo[k - 1], log[k])]

LEMMA ReplaysExist ==
  ASSUME NEW journal, NEW log
  PROVE  \A n \in Nat : \E upTo : Replays(upTo, journal, log, n)
<1> DEFINE S == {n \in Nat : \E upTo : Replays(upTo, journal, log, n)}
<1>1. 0 \in S
  <2> DEFINE first == [k \in 0..0 |-> journal]
  <2>1. first = [k \in 0..0 |-> IF k = 0 THEN journal ELSE Upserted(first[k - 1], log[k])]
    OBVIOUS
  <2> QED
    BY <2>1, Zenon DEF Replays
<1>2. ASSUME NEW n \in S PROVE n + 1 \in S
  <2>1. PICK upTo : Replays(upTo, journal, log, n)
    OBVIOUS
  <2> DEFINE more == [k \in 0..(n + 1) |->
                        IF k = n + 1 THEN Upserted(upTo[n], log[n + 1]) ELSE upTo[k]]
  <2>2. ASSUME NEW k \in 0..(n + 1)
        PROVE  more[k] = IF k = 0 THEN journal ELSE Upserted(more[k - 1], log[k])
    BY <2>1 DEF Replays
  <2>3. more = [k \in 0..(n + 1) |-> IF k = 0 THEN journal ELSE Upserted(more[k - 1], log[k])]
    BY <2>2
  <2> HIDE DEF more
  <2>4. Replays(more, journal, log, n + 1)
    BY <2>3 DEF Replays
  <2>5. n + 1 \in Nat /\ \E f : Replays(f, journal, log, n + 1)
    BY <2>4
  <2> QED
    BY <2>5
<1>3. S = Nat
  BY <1>1, <1>2, AllNumbers
<1> QED
  BY <1>3

LEMMA ReplayedSolves ==
  ASSUME NEW journal, NEW log \in Seq(Recorded)
  PROVE  \E upTo : /\ Replays(upTo, journal, log, Len(log))
                   /\ Replayed(journal, log) = upTo[Len(log)]
<1> DEFINE upTo == CHOOSE f : f = [n \in 0..Len(log) |->
                                     IF n = 0 THEN journal ELSE Upserted(f[n - 1], log[n])]
<1>1. Len(log) \in Nat
  BY LenProperties
<1>2. \E f : Replays(f, journal, log, Len(log))
  BY <1>1, ReplaysExist
<1>3. \E f : f = [n \in 0..Len(log) |-> IF n = 0 THEN journal ELSE Upserted(f[n - 1], log[n])]
  BY <1>2, Zenon DEF Replays
<1>4. upTo = [n \in 0..Len(log) |-> IF n = 0 THEN journal ELSE Upserted(upTo[n - 1], log[n])]
  BY <1>3, Zenon
<1>5. Replayed(journal, log) = upTo[Len(log)]
  BY DEF Replayed
<1>6. Replays(upTo, journal, log, Len(log))
  BY <1>4, Zenon DEF Replays
<1> QED
  BY <1>5, <1>6, Zenon

\* A log is replayed: of every message the journal has the outcome.
LEMMA ReplayedAll ==
  ASSUME NEW journal \in Journals, NEW log \in Seq(Recorded)
  PROVE  /\ Replayed(journal, log) \in Journals
         /\ Extends(Replayed(journal, log), journal)
         /\ \A m \in Messages : Replayed(journal, log).latest[m] =
                                  Outcome(m, journal.latest[m], log)
<1> DEFINE N == Len(log)
           Begin(n) == [i \in 1..n |-> log[i]]
<1>1. N \in Nat /\ DOMAIN log = 1..N /\ \A i \in 1..N : log[i] \in Recorded
  BY LenProperties, ElementOfSeq
<1>2. PICK upTo : Replays(upTo, journal, log, N) /\ Replayed(journal, log) = upTo[N]
  BY ReplayedSolves
<1>3. \A n \in 0..N : upTo[n] = IF n = 0 THEN journal ELSE Upserted(upTo[n - 1], log[n])
  BY <1>2 DEF Replays
<1> DEFINE Good(n) == /\ upTo[n] \in Journals /\ Extends(upTo[n], journal)
                      /\ \A m \in Messages : upTo[n].latest[m] =
                                               Outcome(m, journal.latest[m], Begin(n))
           S == {n \in Nat : n <= N => Good(n)}
<1>4. 0 \in S
  <2>1. upTo[0] = journal
    BY <1>1, <1>3
  <2>2. Extends(journal, journal)
    BY DEF Extends
  <2>3. ASSUME NEW m \in Messages PROVE Outcome(m, journal.latest[m], Begin(0)) = journal.latest[m]
    <3>1. ~Occurs(m, Begin(0))
      BY DEF Occurs
    <3> QED
      BY <3>1, OutcomeNone
  <2> QED
    BY <2>1, <2>2, <2>3
<1>5. ASSUME NEW n \in S PROVE n + 1 \in S
  <2>1. SUFFICES ASSUME n + 1 <= N PROVE Good(n + 1)
    OBVIOUS
  <2>2. n \in Nat /\ n + 1 \in 1..N /\ Good(n)
    BY <1>1, <2>1
  <2> DEFINE old == upTo[n]
             new == upTo[n + 1]
             r == log[n + 1]
  <2>3. new = Upserted(old, r) /\ r \in Recorded
    BY <1>1, <1>3, <2>2
  <2> HIDE DEF new, r, old, Good
  <2>4. old \in Journals /\ Extends(old, journal)
    BY <2>2 DEF Good, old
  <2>5. /\ new \in Journals /\ Extends(new, old)
        /\ \A m \in Messages : new.latest[m] = IF m = r[1] THEN r[2] ELSE old.latest[m]
    BY <2>3, <2>4, UpsertedOne
  <2>6. Extends(new, journal)
    BY <2>4, <2>5 DEF Extends
  <2>7. ASSUME NEW m \in Messages
        PROVE  new.latest[m] = Outcome(m, journal.latest[m], Begin(n + 1))
    <3> DEFINE front == Begin(n)
    <3>1. front \in Seq(Recorded)
      BY <1>1, <2>2
    <3>2. Begin(n + 1) = Append(front, r)
      BY <2>2 DEF r
    <3>3. old.latest[m] = Outcome(m, journal.latest[m], front)
      BY <2>2 DEF Good, old
    <3> HIDE DEF front
    <3> DEFINE was == journal.latest[m]
    <3>4. Outcome(m, was, Append(front, r)) = IF r[1] = m THEN r[2] ELSE Outcome(m, was, front)
      <4> HIDE DEF was
      <4>1. \A s \in Seq(Recorded) :
              Outcome(m, was, Append(s, r)) = IF r[1] = m THEN r[2] ELSE Outcome(m, was, s)
        BY <2>3, OutcomeAppend
      <4> QED
        BY <3>1, <4>1
    <3>5. new.latest[m] = IF r[1] = m THEN r[2] ELSE old.latest[m]
      BY <2>5
    <3>6. Outcome(m, was, Begin(n + 1)) = Outcome(m, was, Append(front, r))
      BY <3>2
    <3> QED
      BY <3>3, <3>4, <3>5, <3>6
  <2> QED
    BY <2>5, <2>6, <2>7 DEF Good, new
<1> HIDE DEF Good
<1>6. S = Nat
  BY <1>4, <1>5, AllNumbers
<1>7. Good(N)
  BY <1>1, <1>6
<1>8. Begin(N) = log
  BY <1>1, SeqEqual
<1> QED
  BY <1>2, <1>7, <1>8 DEF Good

-----------------------------------------------------------------------------
(* Sets of numbers in ascending order.                                     *)

Lower(S, n) == {k \in S : k < n}
Rank(S, n) == Cardinality(Lower(S, n))

LEMMA RankOfMember ==
  ASSUME NEW S, S \subseteq Nat, IsFiniteSet(S), NEW n \in S
  PROVE  /\ Rank(S, n) \in Nat /\ Rank(S, n) < Cardinality(S) /\ Cardinality(S) \in Nat
         /\ \A m \in S : m < n => Rank(S, m) < Rank(S, n)
<1>1. ASSUME NEW m \in S
      PROVE  IsFiniteSet(Lower(S, m)) /\ Rank(S, m) \in Nat /\ m \notin Lower(S, m)
  <2>1. Lower(S, m) \in SUBSET S /\ m \notin Lower(S, m)
    BY DEF Lower
  <2>2. IsFiniteSet(Lower(S, m))
    BY <2>1, FS_Subset
  <2> QED
    BY <2>1, <2>2, FS_CardinalityType DEF Rank
<1>2. ASSUME NEW m \in S, NEW T \in SUBSET S, IsFiniteSet(T), Lower(S, m) \cup {m} \subseteq T
      PROVE  Rank(S, m) < Cardinality(T)
  <2> DEFINE U == Lower(S, m) \cup {m}
  <2>1. IsFiniteSet(U) /\ Cardinality(U) = Rank(S, m) + 1
    BY <1>1, FS_AddElement DEF Rank
  <2>2. Cardinality(U) <= Cardinality(T) /\ Cardinality(T) \in Nat
    <3>1. U \in SUBSET T
      BY <1>2
    <3> QED
      BY <1>2, <3>1, FS_Subset, FS_CardinalityType
  <2> QED
    BY <1>1, <2>1, <2>2
<1>3. Rank(S, n) < Cardinality(S) /\ Cardinality(S) \in Nat
  <2>1. Lower(S, n) \cup {n} \subseteq S /\ S \in SUBSET S
    BY DEF Lower
  <2> QED
    BY <1>2, <2>1, FS_CardinalityType
<1>4. ASSUME NEW m \in S, m < n PROVE Rank(S, m) < Rank(S, n)
  <2>1. Lower(S, m) \cup {m} \subseteq Lower(S, n)
    <3>1. \A k \in S : k < m => k < n
      BY <1>4
    <3> QED
      BY <1>4, <3>1 DEF Lower
  <2>2. Lower(S, n) \in SUBSET S
    BY DEF Lower
  <2>3. Rank(S, m) < Cardinality(Lower(S, n))
    BY <1>1, <1>2, <2>1, <2>2
  <2> QED
    BY <2>3 DEF Rank
<1> QED
  BY <1>1, <1>3, <1>4

LEMMA SameRank ==
  ASSUME NEW S, S \subseteq Nat, IsFiniteSet(S), NEW m \in S, NEW n \in S
  PROVE  /\ Rank(S, m) = Rank(S, n) => m = n
         /\ Rank(S, m) < Rank(S, n) => m < n
<1>1. m < n => Rank(S, m) < Rank(S, n)
  BY RankOfMember
<1>2. n < m => Rank(S, n) < Rank(S, m)
  BY RankOfMember
<1>3. m \in Nat /\ n \in Nat /\ Rank(S, m) \in Nat /\ Rank(S, n) \in Nat
  BY RankOfMember
<1> QED
  BY <1>1, <1>2, <1>3

LEMMA EveryRank ==
  ASSUME NEW S, S \subseteq Nat, IsFiniteSet(S)
  PROVE  \A r \in Nat : r < Cardinality(S) => \E n \in S : Rank(S, n) = r
<1> DEFINE T == {r \in Nat : r < Cardinality(S) => \E n \in S : Rank(S, n) = r}
<1>1. Cardinality(S) \in Nat
  BY FS_CardinalityType
<1>2. 0 \in T
  <2>1. SUFFICES ASSUME 0 < Cardinality(S) PROVE \E n \in S : Rank(S, n) = 0
    OBVIOUS
  <2>2. S # {}
    BY <2>1, FS_EmptySet
  <2>3. PICK n \in S : \A k \in S : n <= k
    BY <2>2, Least
  <2>4. Lower(S, n) = {}
    <3>1. ASSUME NEW k \in S PROVE ~(k < n)
      <4>1. k \in Nat /\ n \in Nat /\ n <= k
        BY <2>3
      <4> QED
        BY <4>1
    <3> QED
      BY <3>1 DEF Lower
  <2>5. Rank(S, n) = 0
    BY <2>4, FS_EmptySet DEF Rank
  <2> QED
    BY <2>5
<1>3. ASSUME NEW r \in T PROVE r + 1 \in T
  <2>1. SUFFICES ASSUME r + 1 < Cardinality(S) PROVE \E n \in S : Rank(S, n) = r + 1
    OBVIOUS
  <2>2. PICK n \in S : Rank(S, n) = r
    BY <1>1, <2>1
  <2> DEFINE upper == {k \in S : n < k}
             U == Lower(S, n) \cup {n}
  <2>3. IsFiniteSet(Lower(S, n)) /\ n \notin Lower(S, n) /\ Lower(S, n) \in SUBSET S
    BY FS_Subset DEF Lower
  <2>4. IsFiniteSet(U) /\ Cardinality(U) = r + 1
    BY <2>2, <2>3, FS_AddElement DEF Rank
  <2>5. upper # {}
    <3>1. SUFFICES ASSUME upper = {} PROVE U = S
      BY <1>1, <2>1, <2>4
    <3>2. ASSUME NEW k \in S PROVE k \in U
      <4>1. k \in Nat /\ n \in Nat /\ ~(n < k)
        BY <3>1
      <4>2. k < n \/ k = n
        BY <4>1
      <4> QED
        BY <4>2 DEF Lower
    <3> QED
      BY <2>3, <3>2
  <2>6. PICK next \in upper : \A k \in upper : next <= k
    BY <2>5, Least
  <2>7. Lower(S, next) = U
    <3>1. ASSUME NEW k \in S PROVE k < next <=> k < n \/ k = n
      <4>1. k \in Nat /\ n \in Nat /\ next \in Nat /\ n < next
        BY <2>6
      <4>2. n < k => next <= k
        BY <2>6
      <4> QED
        BY <4>1, <4>2
    <3> QED
      BY <3>1 DEF Lower
  <2>8. next \in S /\ Rank(S, next) = r + 1
    BY <2>4, <2>6, <2>7 DEF Rank
  <2> QED
    BY <2>8
<1> HIDE DEF T
<1>4. T = Nat
  <2>1. T \subseteq Nat
    BY DEF T
  <2> QED
    BY <1>2, <1>3, <2>1, AllNumbers
<1> QED
  BY <1>4 DEF T

LEMMA AscendingOrder ==
  ASSUME NEW S, S \subseteq Nat, IsFiniteSet(S)
  PROVE  /\ Ascending(S) \in Seq(S) /\ Len(Ascending(S)) = Cardinality(S)
         /\ DOMAIN Ascending(S) = 1..Cardinality(S) /\ Cardinality(S) \in Nat
         /\ \A n \in S : \E i \in DOMAIN Ascending(S) : Ascending(S)[i] = n
         /\ \A i, j \in DOMAIN Ascending(S) : i < j => Ascending(S)[i] < Ascending(S)[j]
<1> DEFINE N == Cardinality(S)
           order == Ascending(S)
           At(i) == CHOOSE n \in S : Rank(S, n) = i - 1
<1>1. N \in Nat
  BY FS_CardinalityType
<1>2. order = [i \in 1..N |-> At(i)]
  BY Zenon DEF Ascending, Rank, Lower
<1>3. ASSUME NEW i \in 1..N PROVE At(i) \in S /\ Rank(S, At(i)) = i - 1
  <2>1. i - 1 \in Nat /\ i - 1 < N
    BY <1>1
  <2>2. \E n \in S : Rank(S, n) = i - 1
    BY <2>1, EveryRank
  <2> QED
    BY <2>2, Zenon
<1> HIDE DEF At, order
<1>4. order \in Seq(S) /\ Len(order) = N /\ DOMAIN order = 1..N
  <2>1. order \in [1..N -> S]
    BY <1>2, <1>3
  <2> QED
    BY <1>1, <2>1, LenProperties
<1>5. ASSUME NEW i \in 1..N PROVE order[i] \in S /\ Rank(S, order[i]) = i - 1
  BY <1>2, <1>3
<1>6. ASSUME NEW n \in S PROVE \E i \in 1..N : order[i] = n
  <2>1. Rank(S, n) \in Nat /\ Rank(S, n) < N
    BY RankOfMember
  <2>2. Rank(S, n) + 1 \in 1..N
    BY <1>1, <2>1
  <2>3. /\ order[Rank(S, n) + 1] \in S
        /\ Rank(S, order[Rank(S, n) + 1]) = Rank(S, n)
    BY <1>5, <2>1, <2>2
  <2>4. order[Rank(S, n) + 1] = n
    BY <2>3, SameRank
  <2> QED
    BY <2>2, <2>4
<1>7. ASSUME NEW i \in 1..N, NEW j \in 1..N, i < j PROVE order[i] < order[j]
  <2>1. /\ order[i] \in S /\ order[j] \in S
        /\ Rank(S, order[i]) = i - 1 /\ Rank(S, order[j]) = j - 1
    BY <1>5
  <2>2. Rank(S, order[i]) < Rank(S, order[j])
    BY <1>1, <1>7, <2>1
  <2> QED
    BY <2>1, <2>2, SameRank
<1> QED
  BY <1>1, <1>4, <1>6, <1>7 DEF order

LEMMA NumbersFinite ==
  ASSUME NEW n \in Nat, NEW S \in SUBSET (1..n)
  PROVE  S \subseteq Nat /\ IsFiniteSet(S)
<1>1. IsFiniteSet(1..n) /\ 1..n \subseteq Nat
  BY FS_Interval
<1>2. IsFiniteSet(S)
  BY <1>1, FS_Subset
<1> QED
  BY <1>1, <1>2

LEMMA WithoutSome ==
  ASSUME NEW log \in Seq(Recorded), NEW chats
  PROVE  /\ Without(log, chats) \in Seq(Recorded)
         /\ (\A i \in DOMAIN log : ChatOf[log[i][1]] \in chats) => Without(log, chats) = <<>>
<1> DEFINE S == {i \in DOMAIN log : ChatOf[log[i][1]] \notin chats}
           kept == Ascending(S)
           out == [n \in DOMAIN kept |-> log[kept[n]]]
<1>1. Len(log) \in Nat /\ DOMAIN log = 1..Len(log) /\ \A i \in DOMAIN log : log[i] \in Recorded
  BY LenProperties, ElementOfSeq
<1>2. S \subseteq Nat /\ IsFiniteSet(S)
  <2>1. S \in SUBSET (1..Len(log))
    BY <1>1
  <2> QED
    BY <1>1, <2>1, NumbersFinite
<1>3. Without(log, chats) = out
  BY DEF Without
<1>4. S \subseteq DOMAIN log
  OBVIOUS
<1>5. (\A i \in DOMAIN log : ChatOf[log[i][1]] \in chats) => S = {}
  OBVIOUS
<1> HIDE DEF S
<1>6. kept \in Seq(S) /\ DOMAIN kept = 1..Cardinality(S) /\ Cardinality(S) \in Nat
  BY <1>2, AscendingOrder
<1>7. \A n \in DOMAIN kept : kept[n] \in S
  BY <1>6, ElementOfSeq, LenProperties
<1> HIDE DEF kept
<1>8. out \in [1..Cardinality(S) -> Recorded]
  BY <1>1, <1>4, <1>6, <1>7
<1>9. out \in Seq(Recorded)
  BY <1>6, <1>8
<1>10. S = {} => out = <<>>
  <2>1. S = {} => Cardinality(S) = 0
    BY FS_EmptySet
  <2>2. S = {} => DOMAIN out = 1..0
    BY <1>6, <2>1
  <2> QED
    BY <1>9, <2>2, EmptySeq, LenProperties
<1> QED
  BY <1>3, <1>5, <1>9, <1>10

-----------------------------------------------------------------------------
(* Pages of history.                                                       *)

UpTo(answer) == IF answer.more THEN Last(answer.messages)[1] ELSE NumMessages + 1

\* A page has the messages after the cursor, in their order and as they are, up to where
\* it reaches.
LEMMA PageIs ==
  ASSUME Types, NEW c \in Chats
  PROVE  LET answer == PageAfter(c)
         IN /\ answer \in Pages
            /\ answer.chat = c /\ (answer.more => answer.messages # <<>>)
            /\ \A i \in DOMAIN answer.messages :
                 /\ answer.messages[i][1] \in After(c)
                 /\ answer.messages[i][1] <= UpTo(answer)
            /\ \A m \in After(c) : m <= UpTo(answer) =>
                 \E i \in DOMAIN answer.messages : answer.messages[i][1] = m
            /\ \A i \in DOMAIN answer.messages :
                 answer.messages[i][2] = native[answer.messages[i][1]]
<1> DEFINE all == After(c)
           found == {m \in all : Cardinality({k \in all : k < m}) < PageSize}
           order == Ascending(found)
           list == [i \in DOMAIN order |-> <<order[i], native[order[i]]>>]
           answer == [chat |-> c, messages |-> list, more |-> found # all]
<1>1. PageAfter(c) = answer
  BY DEF PageAfter
<1>2. /\ NumMessages \in Nat /\ PageSize \in Nat \ {0}
      /\ all \in SUBSET (1..NumMessages) /\ \A m \in all : <<m, native[m]>> \in Recorded
  BY SyncAssumption DEF Types, ThreemaTypes, After, Recorded, Messages
<1>3. all \subseteq Nat /\ IsFiniteSet(all) /\ found \subseteq all
  BY <1>2, NumbersFinite
<1> HIDE DEF all
<1>4. found = {m \in all : Rank(all, m) < PageSize}
  BY DEF Rank, Lower
<1>5. found \subseteq Nat /\ IsFiniteSet(found)
  <2>1. found \in SUBSET (1..NumMessages)
    BY <1>2
  <2> QED
    BY <1>2, <2>1, NumbersFinite
<1> HIDE DEF found
<1>6. /\ order \in Seq(found) /\ Len(order) = Cardinality(found)
      /\ DOMAIN order = 1..Cardinality(found) /\ Cardinality(found) \in Nat
      /\ \A n \in found : \E i \in DOMAIN order : order[i] = n
      /\ \A i, j \in DOMAIN order : i < j => order[i] < order[j]
  BY <1>5, AscendingOrder
<1> HIDE DEF order
<1>7. \A i \in DOMAIN order : order[i] \in found
  BY <1>6, ElementOfSeq
<1>8. /\ list \in Seq(Recorded) /\ DOMAIN list = 1..Cardinality(found)
      /\ \A i \in DOMAIN list : list[i][1] = order[i] /\ list[i][2] = native[order[i]]
  <2>1. list \in [1..Cardinality(found) -> Recorded]
    BY <1>2, <1>3, <1>6, <1>7
  <2>2. \A i \in DOMAIN order : list[i] = <<order[i], native[order[i]]>>
    BY Zenon
  <2> HIDE DEF list
  <2>3. list \in Seq(Recorded) /\ DOMAIN list = 1..Cardinality(found)
    BY <1>6, <2>1
  <2>4. ASSUME NEW i \in DOMAIN list PROVE list[i][1] = order[i] /\ list[i][2] = native[order[i]]
    BY <1>6, <2>2, <2>3
  <2> QED
    BY <2>3, <2>4
<1>9. found # all => list # <<>>
  <2>1. SUFFICES ASSUME found # all PROVE list # <<>>
    OBVIOUS
  <2>2. PICK n \in all : \A k \in all : n <= k
    <3>1. all # {}
      BY <1>3, <2>1
    <3> QED
      BY <1>3, <3>1, Least
  <2>3. Lower(all, n) = {}
    <3>1. ASSUME NEW k \in all PROVE ~(k < n)
      <4>1. k \in Nat /\ n \in Nat /\ n <= k
        BY <1>3, <2>2
      <4> QED
        BY <4>1
    <3> QED
      BY <3>1 DEF Lower
  <2>4. Rank(all, n) = 0
    BY <2>3, FS_EmptySet DEF Rank
  <2>5. n \in found
    BY <1>2, <1>4, <2>4
  <2>6. DOMAIN list # {}
    BY <1>6, <1>8, <2>5
  <2> QED
    BY <2>6
<1>10. ASSUME NEW i \in DOMAIN list
       PROVE  list[i][1] \in all /\ list[i][1] <= UpTo(answer)
  <2>1. list[i][1] \in found /\ list[i][1] \in all /\ i \in DOMAIN order
    BY <1>3, <1>6, <1>7, <1>8
  <2>2. CASE found = all
    <3>1. UpTo(answer) = NumMessages + 1
      BY <2>2 DEF UpTo
    <3>2. list[i][1] \in 1..NumMessages
      BY <1>2, <2>1
    <3> QED
      BY <1>2, <2>1, <3>1, <3>2
  <2>3. CASE found # all
    <3>1. Len(list) = Cardinality(found) /\ Len(list) \in DOMAIN list
      <4>1. Len(list) = Cardinality(found)
        BY <1>6, <1>8, LenProperties
      <4> QED
        BY <1>6, <1>8, <4>1
    <3>2. UpTo(answer) = order[Len(list)]
      <4>1. UpTo(answer) = list[Len(list)][1]
        BY <2>3 DEF UpTo, Last
      <4> HIDE DEF list
      <4> QED
        BY <1>8, <3>1, <4>1
    <3>3. i <= Len(list) /\ i \in Nat /\ Len(list) \in Nat
      BY <1>6, <1>8, <3>1
    <3>4. i < Len(list) => order[i] < order[Len(list)]
      BY <1>6, <1>8, <3>1
    <3>5. order[i] \in Nat /\ order[Len(list)] \in Nat
      BY <1>5, <1>6, <1>7, <1>8, <3>1
    <3>6. order[i] <= order[Len(list)]
      BY <3>3, <3>4, <3>5
    <3> QED
      BY <1>8, <2>1, <3>2, <3>6
  <2> QED
    BY <2>2, <2>3
<1>11. ASSUME NEW m \in all, m <= UpTo(answer)
       PROVE  \E i \in DOMAIN list : list[i][1] = m
  <2>1. m \in found
    <3>1. CASE found = all
      BY <3>1
    <3>2. CASE found # all
      <4>1. /\ Len(list) = Cardinality(found) /\ Len(list) \in DOMAIN list
        <5>1. Len(list) = Cardinality(found) /\ list # <<>>
          BY <1>6, <1>8, <1>9, <3>2, LenProperties
        <5>2. Len(list) # 0
          BY <1>8, <5>1, EmptySeq
        <5> QED
          BY <1>6, <1>8, <5>1, <5>2
      <4> DEFINE last == order[Len(list)]
      <4>2. last \in found /\ last \in all /\ last \in Nat /\ m \in Nat
        BY <1>3, <1>6, <1>7, <1>8, <4>1
      <4>3. UpTo(answer) = last
        <5>1. UpTo(answer) = list[Len(list)][1]
          BY <3>2 DEF UpTo, Last
        <5> HIDE DEF list
        <5> QED
          BY <1>8, <4>1, <5>1
      <4> HIDE DEF last
      <4>4. m = last \/ m < last
        BY <1>11, <4>2, <4>3
      <4>5. m < last => Rank(all, m) < Rank(all, last)
        BY <1>3, <4>2, RankOfMember
      <4>6. Rank(all, m) \in Nat /\ Rank(all, last) \in Nat /\ Rank(all, last) < PageSize
        BY <1>3, <1>4, <4>2, RankOfMember
      <4>7. Rank(all, m) < PageSize
        BY <1>2, <4>4, <4>5, <4>6
      <4> QED
        BY <1>4, <4>7
    <3> QED
      BY <3>1, <3>2
  <2> QED
    BY <1>6, <1>8, <2>1
<1>12. ASSUME NEW i \in DOMAIN list PROVE list[i][2] = native[list[i][1]]
  BY <1>8
<1> HIDE DEF list
<1>13. /\ answer.messages = list /\ answer.chat = c /\ answer.more = (found # all)
       /\ answer \in Pages
  BY <1>8 DEF Pages
<1> HIDE DEF answer
<1> QED
  BY <1>1, <1>9, <1>10, <1>11, <1>12, <1>13 DEF all

-----------------------------------------------------------------------------
(* Types.                                                                  *)

LEMMA TypesSplit ==
  Types <=> SyncTypeOK
BY DEF SyncTypeOK, Types, ThreemaTypes, WatchTypes, RunTypes, StageTypes, JournalTypes, DeliveryTypes,
       MatrixTypes, Pages

LEMMA TypesKept ==
  /\ ThreemaTypes /\ UNCHANGED threemaVars => ThreemaTypes'
  /\ WatchTypes /\ UNCHANGED watchVars => WatchTypes'
  /\ RunTypes /\ UNCHANGED runVars => RunTypes'
  /\ StageTypes /\ UNCHANGED stageVars => StageTypes'
  /\ JournalTypes /\ UNCHANGED journalVars => JournalTypes'
  /\ DeliveryTypes /\ UNCHANGED deliveryVars => DeliveryTypes'
  /\ MatrixTypes /\ UNCHANGED matrixVars => MatrixTypes'
<1>1. ThreemaTypes /\ UNCHANGED threemaVars => ThreemaTypes'
  BY DEF ThreemaTypes, threemaVars
<1>2. WatchTypes /\ UNCHANGED watchVars => WatchTypes'
  BY DEF WatchTypes, watchVars
<1>3. RunTypes /\ UNCHANGED runVars => RunTypes'
  BY DEF RunTypes, runVars
<1>4. StageTypes /\ UNCHANGED stageVars => StageTypes'
  BY DEF StageTypes, stageVars
<1>5. JournalTypes /\ UNCHANGED journalVars => JournalTypes'
  BY DEF JournalTypes, journalVars
<1>6. DeliveryTypes /\ UNCHANGED deliveryVars => DeliveryTypes'
  BY DEF DeliveryTypes, deliveryVars
<1>7. MatrixTypes /\ UNCHANGED matrixVars => MatrixTypes'
  BY DEF MatrixTypes, matrixVars
<1> QED
  BY <1>1, <1>2, <1>3, <1>4, <1>5, <1>6, <1>7

\* The epochs: their state, and what is staged.
LEMMA TypesEpoch ==
  ASSUME Types, HistoryInv,
         \/ Start \/ Crash \/ EpochStep \/ Resync \/ PeriodOver \/ EpochFails
  PROVE  Types'
<1>1. Empty \in Topology /\ Empty \in [Chats -> 0..(NumMessages + 1)] /\ 0 \in 0..BufferLimit
  BY SyncAssumption DEF Empty, Topology, Kinds
<1>2. /\ ThreemaTypes /\ WatchTypes /\ RunTypes /\ StageTypes /\ JournalTypes /\ DeliveryTypes
      /\ MatrixTypes
  BY DEF Types
<1>3. CASE Start
  <2>1. /\ RunTypes' /\ StageTypes'
        /\ UNCHANGED <<threemaVars, watchVars, journalVars, deliveryVars, matrixVars>>
    BY <1>2, <1>3 DEF Start, RunTypes, StageTypes, Discarded
  <2> QED
    BY <1>2, <2>1, TypesKept DEF Types
<1>4. CASE Crash
  <2>1. WatchTypes'
    BY <1>2, <1>4 DEF Crash, WatchTypes, AllOff, NoEvents
  <2>2. RunTypes'
    BY <1>1, <1>2, <1>4 DEF Crash, RunTypes
  <2>3. DeliveryTypes'
    BY <1>2, <1>4 DEF Crash, DeliveryTypes
  <2>4. UNCHANGED <<threemaVars, stageVars, journalVars, matrixVars>>
    BY <1>4 DEF Crash
  <2> QED
    BY <1>2, <2>1, <2>2, <2>3, <2>4, TypesKept DEF Types
<1>5. CASE WatchTopology
  <2>1. /\ WatchTypes' /\ RunTypes'
        /\ UNCHANGED <<threemaVars, stageVars, journalVars, deliveryVars, matrixVars>>
    BY <1>2, <1>5 DEF WatchTopology, WatchTypes, RunTypes
  <2> QED
    BY <1>2, <2>1, TypesKept DEF Types
<1>6. CASE ListChats \/ ReadDirectory
  <2>1. RunTypes'
    BY <1>2, <1>6 DEF ListChats, Filled, ReadDirectory, RunTypes, ThreemaTypes
  <2>2. UNCHANGED <<threemaVars, watchVars, stageVars, journalVars, deliveryVars, matrixVars>>
    BY <1>6 DEF ListChats, ReadDirectory
  <2> QED
    BY <1>2, <2>1, <2>2, TypesKept DEF Types
<1>7. CASE AttachedAll \/ GoLive \/ ResetArrives \/ Resync
  <2>1. RunTypes'
    BY <1>2, <1>7 DEF AttachedAll, GoLive, ResetArrives, Resync, RunTypes
  <2>2. UNCHANGED <<threemaVars, watchVars, stageVars, journalVars, deliveryVars, matrixVars>>
    BY <1>7 DEF AttachedAll, GoLive, ResetArrives, Resync
  <2> QED
    BY <1>2, <2>1, <2>2, TypesKept DEF Types
<1>8. CASE EpochAborted \/ PeriodOver \/ EpochFails
  <2>1. Leave
    BY <1>8 DEF EpochAborted, PeriodOver, EpochFails
  <2>2. RunTypes'
    BY <1>1, <1>2, <2>1 DEF Leave, RunTypes
  <2>3. UNCHANGED <<threemaVars, watchVars, stageVars, journalVars, deliveryVars, matrixVars>>
    BY <2>1 DEF Leave
  <2> QED
    BY <1>2, <2>2, <2>3, TypesKept DEF Types
<1>9. ASSUME NEW c \in Chats, Attach(c) PROVE Types'
  <2>1. WatchTypes' /\ RunTypes' /\ StageTypes'
    BY <1>2, <1>9 DEF Attach, WatchTypes, RunTypes, StageTypes
  <2>2. UNCHANGED <<threemaVars, journalVars, deliveryVars, matrixVars>>
    BY <1>9 DEF Attach
  <2> QED
    BY <1>2, <2>1, <2>2, TypesKept DEF Types
<1>10. ASSUME NEW c \in Chats, ReadPage(c) PROVE Types'
  <2>1. page' \in Pages
    BY <1>10, PageIs DEF ReadPage
  <2>2. RunTypes'
    BY <1>2, <1>10, <2>1 DEF ReadPage, RunTypes
  <2>3. UNCHANGED <<threemaVars, watchVars, stageVars, journalVars, deliveryVars, matrixVars>>
    BY <1>10 DEF ReadPage
  <2> QED
    BY <1>2, <2>2, <2>3, TypesKept DEF Types
<1>11. CASE StagePage
  <2>1. page \in Pages /\ page.chat \in Chats /\ page.messages \in Seq(Recorded)
    BY <1>2, <1>11 DEF StagePage, RunTypes, Pages
  <2>2. snap' \in Seq(Recorded) /\ StageTypes'
    BY <1>2, <1>11, <2>1, ConcatProperties DEF StagePage, StageTypes
  <2>3. page.more => Last(page.messages)[1] \in Messages
    <3>1. page.more => page.messages # <<>>
      BY <1>11 DEF StagePage, HistoryInv
    <3>2. page.more => Last(page.messages) \in Recorded
      BY <2>1, <3>1, LenProperties, ElementOfSeq, EmptySeq DEF Last
    <3> QED
      BY <3>2 DEF Recorded
  <2>4. cursor' \in [Chats -> 0..(NumMessages + 1)]
    <3>1. NumMessages \in Nat /\ Messages \subseteq 0..(NumMessages + 1)
      BY SyncAssumption DEF Messages
    <3> DEFINE next == IF page.more THEN Last(page.messages)[1] ELSE NumMessages + 1
    <3>2. next \in 0..(NumMessages + 1)
      <4>1. CASE page.more
        BY <2>3, <3>1, <4>1
      <4>2. CASE ~page.more
        BY <3>1, <4>2
      <4> QED
        BY <4>1, <4>2
    <3>3. cursor' = [cursor EXCEPT ![page.chat] = next]
      BY <1>11 DEF StagePage
    <3> HIDE DEF next
    <3> QED
      BY <1>2, <3>2, <3>3 DEF RunTypes
  <2>5. RunTypes'
    BY <1>2, <1>11, <2>4 DEF StagePage, RunTypes
  <2>6. UNCHANGED <<threemaVars, watchVars, journalVars, deliveryVars, matrixVars>>
    BY <1>11 DEF StagePage
  <2> QED
    BY <1>2, <2>2, <2>5, <2>6, TypesKept DEF Types
<1>12. CASE Commit
  <2> DEFINE old == [latest |-> latest, changes |-> changes]
             new == Replayed(old, Ordered)
  <2>1. old \in Journals /\ Ordered \in Seq(Recorded)
    BY <1>2, ConcatProperties DEF Journals, JournalTypes, Ordered, StageTypes
  <2> HIDE DEF old
  <2>2. new \in Journals
    BY <2>1, ReplayedAll
  <2>3. latest' = new.latest /\ changes' = new.changes
    BY <1>12 DEF Commit, old
  <2> HIDE DEF new
  <2>4. JournalTypes'
    <3>1. meta' \in Metadata /\ metaPending' = TRUE
      BY <1>2, <1>12 DEF Commit, Metadata, RunTypes
    <3> QED
      BY <2>2, <2>3, <3>1 DEF Journals, JournalTypes
  <2>5. RunTypes' /\ StageTypes'
    <3>1. /\ pc' = "reconciled" /\ staging' = FALSE
          /\ UNCHANGED <<aborted, listed, dir, filled, attached, cursor, page, buffered>>
      BY <1>12 DEF Commit
    <3>2. tokens' = tokens \ attached /\ snap' = <<>> /\ lives' = <<>>
      BY <1>12 DEF Commit
    <3>3. RunTypes'
      BY <1>2, <3>1 DEF RunTypes
    <3>4. StageTypes'
      BY <1>2, <3>2, EmptySeq DEF StageTypes
    <3> QED
      BY <3>3, <3>4
  <2>6. DeliveryTypes'
    <3>1. UNCHANGED <<dpc, view>>
      BY <1>12 DEF Commit
    <3>2. fresh' = (dpc = "idle")
      BY <1>12 DEF Commit
    <3>3. (dpc = "idle") \in BOOLEAN
      OBVIOUS
    <3>4. fresh' \in BOOLEAN
      BY <3>2, <3>3, Zenon
    <3> QED
      BY <1>2, <3>1, <3>4 DEF DeliveryTypes
  <2>7. UNCHANGED <<threemaVars, watchVars, matrixVars>>
    BY <1>12 DEF Commit
  <2> QED
    BY <1>2, <2>4, <2>5, <2>6, <2>7, TypesKept DEF Types
<1>13. CASE Cleanup
  <2>1. snap' \in Seq(Recorded) /\ lives' \in Seq(Recorded) /\ StageTypes'
    BY <1>2, <1>13, WithoutSome DEF Cleanup, StageTypes
  <2>2. RunTypes'
    BY <1>2, <1>13 DEF Cleanup, RunTypes
  <2>3. WatchTypes'
    BY <1>2, <1>13 DEF Cleanup, WatchTypes, AllOff, NoEvents
  <2>4. UNCHANGED <<threemaVars, journalVars, deliveryVars, matrixVars>>
    BY <1>13 DEF Cleanup
  <2> QED
    BY <1>2, <2>1, <2>2, <2>3, <2>4, TypesKept DEF Types
<1> QED
  BY <1>3, <1>4, <1>5, <1>6, <1>7, <1>8, <1>9, <1>10, <1>11, <1>12, <1>13 DEF EpochStep

\* What a message does to the rooms, completed or not: nobody is in a room before it is
\* bound, and one that has the stored metadata goes on to have it.
LEMMA MessageRooms ==
  ASSUME Types, HeadInv, ViewInv, dpc = "message", Ensure(ChatOf[Here]), Peopled(ChatOf[Here])
  PROVE  /\ rooms' \in [Chats -> Kinds \X Kinds]
         /\ portals' \in SUBSET Chats /\ misnamed' \in SUBSET Chats
         /\ Unbound'
         /\ fresh /\ Current /\ UNCHANGED meta => Current'
<1> DEFINE c == ChatOf[Here]
<1>1. /\ rooms \in [Chats -> Kinds \X Kinds] /\ portals \in SUBSET Chats
      /\ misnamed \in SUBSET Chats /\ changes \in Seq(Recorded)
  BY DEF Types, MatrixTypes, JournalTypes
<1>2. c \in Chats
  <2>1. Here \in Messages
    BY <1>1, HeadTailProperties DEF HeadInv, Here, Recorded
  <2> QED
    BY <2>1, SyncAssumption
<1>3. view \in Metadata /\ (fresh => view = meta)
  BY DEF ViewInv, Types, DeliveryTypes
<1>4. /\ portals' = portals \cup {c}
      /\ misnamed' = IF c \in portals \/ Named(c) = view.list[c] THEN misnamed
                     ELSE misnamed \cup {c}
  BY DEF Ensure
<1>5. PICK members \in {rooms[c][2], view.dir[c]} :
        rooms' = [rooms EXCEPT ![c] = <<Named(c), members>>]
  BY DEF Peopled
<1> HIDE DEF c
<1>6. Named(c) \in Kinds /\ members \in Kinds
  <2>1. view.list[c] \in Kinds /\ view.dir[c] \in Kinds
    BY <1>2, <1>3 DEF Metadata, Topology
  <2>2. rooms[c] \in Kinds \X Kinds
    BY <1>1, <1>2
  <2>3. rooms[c][1] \in Kinds /\ rooms[c][2] \in Kinds
    BY <2>2
  <2> QED
    BY <1>5, <2>1, <2>3 DEF Named
<1>7. rooms' \in [Chats -> Kinds \X Kinds]
  BY <1>1, <1>5, <1>6
<1>8. /\ rooms'[c] = <<Named(c), members>>
      /\ \A d \in Chats \ {c} : rooms'[d] = rooms[d]
  BY <1>1, <1>2, <1>5
<1>9. Unbound'
  BY <1>4, <1>8 DEF Unbound, ViewInv
<1>10. ASSUME fresh, Current, UNCHANGED meta PROVE Current'
  <2>1. view = meta
    BY <1>3, <1>10
  <2>2. ASSUME NEW d \in meta.active \cap portals'
        PROVE  /\ d \notin misnamed' => rooms'[d][1] = meta.list[d]
               /\ rooms'[d][2] \in {0, meta.dir[d]}
    <3>1. d \in Chats
      BY <1>1, <1>2, <1>4
    <3>2. CASE d # c
      <4>1. d \in portals /\ rooms'[d] = rooms[d] /\ (d \notin misnamed' => d \notin misnamed)
        BY <1>4, <1>8, <3>1, <3>2
      <4> QED
        BY <1>10, <4>1 DEF Current
    <3>3. CASE d = c /\ c \in portals
      <4>1. misnamed' = misnamed
        BY <1>4, <3>3
      <4>2. /\ c \notin misnamed => rooms[c][1] = meta.list[c]
            /\ rooms[c][2] \in {0, meta.dir[c]}
        BY <1>10, <3>3 DEF Current
      <4>3. Named(c) = meta.list[c] \/ Named(c) = rooms[c][1]
        BY <2>1 DEF Named
      <4>4. members \in {0, meta.dir[c]}
        BY <1>5, <2>1, <4>2
      <4> QED
        BY <1>8, <3>3, <4>1, <4>2, <4>3, <4>4
    <3>4. CASE d = c /\ c \notin portals
      <4>1. c \notin misnamed' => Named(c) = meta.list[c]
        BY <1>4, <2>1, <3>4
      <4>2. rooms[c][2] = 0
        BY <1>2, <3>4 DEF ViewInv, Unbound
      <4>3. members \in {0, meta.dir[c]}
        BY <1>5, <2>1, <4>2
      <4> QED
        BY <1>8, <3>4, <4>1, <4>3
    <3> QED
      BY <3>2, <3>3, <3>4
  <2> QED
    BY <1>10, <2>2 DEF Current
<1> QED
  BY <1>1, <1>2, <1>4, <1>7, <1>9, <1>10

LEMMA HalfWayRooms ==
  ASSUME Types, HeadInv, ViewInv, HalfWay
  PROVE  /\ rooms' \in [Chats -> Kinds \X Kinds]
         /\ portals' \in SUBSET Chats /\ misnamed' \in SUBSET Chats
         /\ Unbound'
         /\ fresh /\ Current => Current'
<1> DEFINE c == ChatOf[Here]
<1>1. dpc = "message" /\ UNCHANGED meta
  BY DEF HalfWay, journalVars
<1>2. CASE Ensure(c) /\ Peopled(c)
  BY <1>1, <1>2, MessageRooms
<1>3. CASE /\ rooms[c] = <<0, 0>> /\ rooms' = [rooms EXCEPT ![c] = <<Named(c), 0>>]
           /\ UNCHANGED <<portals, misnamed>>
  <2>1. /\ rooms \in [Chats -> Kinds \X Kinds] /\ portals \in SUBSET Chats
        /\ misnamed \in SUBSET Chats /\ changes \in Seq(Recorded) /\ 0 \in Kinds
    BY DEF Types, MatrixTypes, JournalTypes, Kinds
  <2>2. c \in Chats
    <3>1. Here \in Messages
      BY <1>1, <2>1, HeadTailProperties DEF HeadInv, Here, Recorded
    <3> QED
      BY <3>1, SyncAssumption
  <2>3. view \in Metadata /\ (fresh => view = meta)
    BY <1>1 DEF ViewInv, Types, DeliveryTypes
  <2> HIDE DEF c
  <2>4. Named(c) = view.list[c] /\ view.list[c] \in Kinds
    BY <1>3, <2>2, <2>3 DEF Named, Metadata, Topology
  <2>5. rooms' \in [Chats -> Kinds \X Kinds]
    BY <1>3, <2>1, <2>4
  <2>6. /\ rooms'[c] = <<view.list[c], 0>>
        /\ \A d \in Chats \ {c} : rooms'[d] = rooms[d]
    BY <1>3, <2>1, <2>2, <2>4
  <2>7. Unbound'
    BY <1>3, <2>6 DEF Unbound, ViewInv
  <2>8. ASSUME fresh, Current PROVE Current'
    <3>1. view = meta /\ UNCHANGED <<portals, misnamed, meta>>
      BY <1>1, <1>3, <2>3, <2>8
    <3>2. ASSUME NEW d \in meta.active \cap portals
          PROVE  /\ d \notin misnamed => rooms'[d][1] = meta.list[d]
                 /\ rooms'[d][2] \in {0, meta.dir[d]}
      BY <2>1, <2>6, <2>8, <3>1, <3>2 DEF Current
    <3> QED
      BY <3>1, <3>2 DEF Current
  <2> QED
    BY <1>3, <2>1, <2>5, <2>7, <2>8
<1> QED
  BY <1>2, <1>3 DEF HalfWay

\* Threema, the watches, the live messages and the delivery.
LEMMA TypesLive ==
  ASSUME Types, HeadInv, ViewInv,
         \/ ThreemaStep \/ DeliveryProgress \/ DeliveryFails \/ HalfWay
         \/ \E c \in Chats : LiveStep(c)
  PROVE  Types'
<1>1. /\ ThreemaTypes /\ WatchTypes /\ RunTypes /\ StageTypes /\ JournalTypes /\ DeliveryTypes
      /\ MatrixTypes
  BY DEF Types
<1>2. Move /\ MaxMoves \in Nat => moves' \in 0..MaxMoves
  BY <1>1 DEF Move, ThreemaTypes
<1>3. ASSUME NEW c \in Chats, Tripped(c), UNCHANGED topoWatch PROVE WatchTypes'
  <2>1. <<>> \in Seq(Recorded)
    BY EmptySeq
  <2>2. events' \in [Chats -> Seq(Recorded)]
    BY <1>1, <1>3, <2>1 DEF Tripped, WatchTypes
  <2>3. watch' \in [Chats -> {"off", "on", "tripped"}]
    BY <1>1, <1>3 DEF Tripped, WatchTypes
  <2> QED
    BY <1>1, <1>3, <2>2, <2>3 DEF WatchTypes
<1>4. ASSUME NEW m \in Messages, NEW content \in Contents, Change(m, content)
      PROVE  Types'
  <2> DEFINE c == ChatOf[m]
             r == <<m, content>>
  <2>1. c \in Chats /\ r \in Recorded /\ MaxMoves \in Nat
    BY SyncAssumption DEF Recorded
  <2>2. Notified(c, r)
    BY <1>4 DEF Change
  <2> HIDE DEF c, r
  <2>3. WatchTypes'
    <3>1. UNCHANGED topoWatch
      BY <1>4 DEF Change
    <3>2. CASE watch[c] # "on"
      <4>1. UNCHANGED <<watch, events>>
        BY <2>2, <3>2 DEF Notified
      <4> QED
        BY <1>1, <3>1, <4>1 DEF WatchTypes
    <3>3. CASE watch[c] = "on" /\ Len(events[c]) < QueueLimit
      <4>1. events' = [events EXCEPT ![c] = Append(@, r)] /\ UNCHANGED watch
        BY <2>2, <3>3 DEF Notified
      <4>2. events' \in [Chats -> Seq(Recorded)]
        BY <1>1, <2>1, <4>1 DEF WatchTypes
      <4> QED
        BY <1>1, <3>1, <4>1, <4>2 DEF WatchTypes
    <3>4. CASE watch[c] = "on" /\ ~(Len(events[c]) < QueueLimit)
      <4>1. /\ watch' = [watch EXCEPT ![c] = "tripped"]
            /\ events' = [events EXCEPT ![c] = <<>>]
        BY <2>2, <3>4 DEF Notified
      <4>2. <<>> \in Seq(Recorded)
        BY EmptySeq
      <4>3. events' \in [Chats -> Seq(Recorded)]
        BY <1>1, <4>1, <4>2 DEF WatchTypes
      <4> QED
        BY <1>1, <3>1, <4>1, <4>3 DEF WatchTypes
    <3> QED
      BY <3>2, <3>3, <3>4
  <2>4. ThreemaTypes'
    BY <1>1, <1>2, <1>4, <2>1 DEF Change, ThreemaTypes
  <2>5. UNCHANGED <<runVars, stageVars, journalVars, deliveryVars, matrixVars>>
    BY <1>4 DEF Change
  <2> QED
    BY <1>1, <2>3, <2>4, <2>5, TypesKept DEF Types
<1>5. ASSUME NEW m \in Messages, RemoveRecord(m) PROVE Types'
  <2>1. ThreemaTypes'
    BY <1>1, <1>2, <1>5, SyncAssumption DEF RemoveRecord, ThreemaTypes
  <2>2. WatchTypes'
    <3>1. ChatOf[m] \in Chats /\ Tripped(ChatOf[m]) /\ UNCHANGED topoWatch
      BY <1>5, SyncAssumption DEF RemoveRecord
    <3> QED
      BY <1>3, <3>1
  <2>3. UNCHANGED <<runVars, stageVars, journalVars, deliveryVars, matrixVars>>
    BY <1>5 DEF RemoveRecord
  <2> QED
    BY <1>1, <2>1, <2>2, <2>3, TypesKept DEF Types
<1>6. ASSUME NEW c \in Chats, NEW kind \in Kinds, Reshape(c, kind) PROVE Types'
  <2>1. ThreemaTypes'
    BY <1>1, <1>2, <1>6, SyncAssumption DEF Reshape, ThreemaTypes, Topology
  <2>2. WatchTypes'
    BY <1>1, <1>6 DEF Reshape, WatchTypes
  <2>3. UNCHANGED <<runVars, stageVars, journalVars, deliveryVars, matrixVars>>
    BY <1>6 DEF Reshape
  <2> QED
    BY <1>1, <2>1, <2>2, <2>3, TypesKept DEF Types
<1>7. ASSUME NEW c \in Chats, WatchFails(c) \/ Overflow(c) PROVE Types'
  <2>1. WatchTypes'
    <3>1. Tripped(c) /\ UNCHANGED topoWatch
      BY <1>7 DEF WatchFails, Overflow
    <3> QED
      BY <1>3, <3>1
  <2>2. RunTypes'
    BY <1>1, <1>7 DEF WatchFails, Overflow, RunTypes, runVars
  <2>3. UNCHANGED <<threemaVars, stageVars, journalVars, deliveryVars, matrixVars>>
    BY <1>7 DEF WatchFails, Overflow
  <2> QED
    BY <1>1, <2>1, <2>2, <2>3, TypesKept DEF Types
<1>8. ASSUME NEW c \in Chats, Consume(c) PROVE Types'
  <2>1. /\ events[c] \in Seq(Recorded) /\ Head(events[c]) \in Recorded
        /\ Tail(events[c]) \in Seq(Recorded)
    BY <1>1, <1>8, HeadTailProperties DEF Consume, WatchTypes
  <2>2. WatchTypes'
    BY <1>1, <1>8, <2>1 DEF Consume, WatchTypes
  <2>3. StageTypes'
    <3>1. lives' = Append(lives, Head(events[c])) \/ UNCHANGED lives
      BY <1>8 DEF Consume
    <3>2. UNCHANGED <<tokens, snap>>
      BY <1>8 DEF Consume
    <3>3. lives' \in Seq(Recorded)
      BY <1>1, <2>1, <3>1, AppendProperties DEF StageTypes
    <3> QED
      BY <1>1, <3>2, <3>3 DEF StageTypes
  <2>4. RunTypes'
    <3>1. buffered' = buffered \/ (buffered < BufferLimit /\ buffered' = buffered + 1)
      BY <1>8 DEF Consume, MayStage
    <3>2. buffered' \in 0..BufferLimit
      BY <1>1, <3>1, SyncAssumption DEF RunTypes
    <3> QED
      BY <1>1, <1>8, <3>2 DEF Consume, RunTypes
  <2>5. JournalTypes'
    <3>1. CASE staging
      BY <1>1, <1>8, <3>1 DEF Consume, JournalTypes
    <3>2. CASE ~staging
      <4> DEFINE old == [latest |-> latest, changes |-> changes]
                 new == Upserted(old, Head(events[c]))
      <4>1. old \in Journals
        BY <1>1 DEF Journals, JournalTypes
      <4> HIDE DEF old
      <4>2. new \in Journals
        BY <2>1, <4>1, UpsertedOne
      <4>3. latest' = new.latest /\ changes' = new.changes /\ UNCHANGED <<meta, metaPending>>
        BY <1>8, <3>2 DEF Consume, old
      <4> HIDE DEF new
      <4> QED
        BY <1>1, <4>2, <4>3 DEF Journals, JournalTypes
    <3> QED
      BY <3>1, <3>2
  <2>6. UNCHANGED <<threemaVars, deliveryVars, matrixVars>>
    BY <1>8 DEF Consume
  <2> QED
    BY <1>1, <2>2, <2>3, <2>4, <2>5, <2>6, TypesKept DEF Types
<1>9. CASE BeginMetadata \/ BeginMessage
  <2>1. /\ DeliveryTypes'
        /\ UNCHANGED <<threemaVars, watchVars, runVars, stageVars, journalVars, matrixVars>>
    BY <1>1, <1>9 DEF BeginMetadata, BeginMessage, Taken, DeliveryTypes, JournalTypes
  <2> QED
    BY <1>1, <2>1, TypesKept DEF Types
<1>10. CASE ApplyMetadata
  <2>1. view \in Metadata
    BY <1>1, <1>10 DEF ApplyMetadata, ViewInv, DeliveryTypes
  <2>2. MatrixTypes'
    BY <1>1, <1>10, <2>1 DEF ApplyMetadata, Metadata, Topology, MatrixTypes
  <2>3. /\ DeliveryTypes'
        /\ UNCHANGED <<threemaVars, watchVars, runVars, stageVars, journalVars>>
    BY <1>1, <1>10 DEF ApplyMetadata, DeliveryTypes
  <2> QED
    BY <1>1, <2>2, <2>3, TypesKept DEF Types
<1>11. CASE AckMetadata
  <2>1. JournalTypes' /\ DeliveryTypes'
    BY <1>1, <1>11 DEF AckMetadata, StillPending, JournalTypes, DeliveryTypes
  <2>2. UNCHANGED <<threemaVars, watchVars, runVars, stageVars, matrixVars>>
    BY <1>11 DEF AckMetadata
  <2> QED
    BY <1>1, <2>1, <2>2, TypesKept DEF Types
<1>12. CASE DeliveryFails
  <2>1. /\ DeliveryTypes'
        /\ UNCHANGED <<threemaVars, watchVars, runVars, stageVars, journalVars, matrixVars>>
    BY <1>1, <1>12 DEF DeliveryFails, DeliveryTypes
  <2> QED
    BY <1>1, <2>1, TypesKept DEF Types
<1>13. CASE ApplyMessage
  <2>1. /\ dpc = "message" /\ Ensure(ChatOf[Here]) /\ Peopled(ChatOf[Here])
        /\ shown' = [shown EXCEPT ![Here] = Head(changes)[2]]
    BY <1>13 DEF ApplyMessage
  <2>2. Here \in Messages /\ Head(changes)[2] \in Contents
    BY <1>1, <2>1, HeadTailProperties DEF HeadInv, JournalTypes, Here, Recorded
  <2>3. MatrixTypes'
    <3>1. shown' \in [Messages -> Contents \cup {0}]
      BY <1>1, <2>1, <2>2 DEF MatrixTypes
    <3> QED
      BY <2>1, <3>1, MessageRooms DEF MatrixTypes
  <2>4. /\ DeliveryTypes'
        /\ UNCHANGED <<threemaVars, watchVars, runVars, stageVars, journalVars>>
    BY <1>1, <1>13 DEF ApplyMessage, DeliveryTypes
  <2> QED
    BY <1>1, <2>3, <2>4, TypesKept DEF Types
<1>14. CASE AckMessage
  <2>1. changes' \in Seq(Recorded)
    BY <1>1, <1>14, HeadTailProperties DEF AckMessage, HeadInv, JournalTypes
  <2>2. JournalTypes' /\ DeliveryTypes'
    BY <1>1, <1>14, <2>1 DEF AckMessage, JournalTypes, DeliveryTypes
  <2>3. UNCHANGED <<threemaVars, watchVars, runVars, stageVars, matrixVars>>
    BY <1>14 DEF AckMessage
  <2> QED
    BY <1>1, <2>2, <2>3, TypesKept DEF Types
<1>15. CASE HalfWay
  <2>1. MatrixTypes'
    <3>1. UNCHANGED shown
      BY <1>15 DEF HalfWay
    <3> QED
      BY <1>1, <1>15, <3>1, HalfWayRooms DEF MatrixTypes
  <2>2. /\ DeliveryTypes'
        /\ UNCHANGED <<threemaVars, watchVars, runVars, stageVars, journalVars>>
    BY <1>1, <1>15 DEF HalfWay, DeliveryTypes
  <2> QED
    BY <1>1, <2>1, <2>2, TypesKept DEF Types
<1> QED
  BY <1>4, <1>5, <1>6, <1>7, <1>8, <1>9, <1>10, <1>11, <1>12, <1>13, <1>14, <1>15
     DEF ThreemaStep, DeliveryProgress, LiveStep

-----------------------------------------------------------------------------
(* The watches.                                                            *)

\* Every step but these leaves the watches of the chats alone.
LEMMA WatchQuiet ==
  ASSUME Next, ~Crash, ~Cleanup, \A c \in Chats : ~Attach(c) /\ ~Consume(c) /\ ~Overflow(c),
         \A c \in Chats : ~WatchFails(c),
         \A m \in Messages : ~RemoveRecord(m) /\ \A content \in Contents : ~Change(m, content)
  PROVE  UNCHANGED <<watch, events, attached>>
<1>1. CASE Start \/ WatchTopology \/ ListChats \/ ReadDirectory \/ AttachedAll \/ StagePage
  BY <1>1 DEF Start, WatchTopology, ListChats, ReadDirectory, AttachedAll, StagePage, watchVars,
              runVars
<1>2. CASE Commit \/ GoLive \/ ResetArrives \/ Resync \/ EpochAborted \/ PeriodOver \/ EpochFails
  BY <1>2 DEF Commit, GoLive, ResetArrives, Resync, EpochAborted, PeriodOver, EpochFails, Leave,
              watchVars, runVars
<1>3. CASE DeliveryProgress \/ DeliveryFails \/ HalfWay
  BY <1>3 DEF DeliveryProgress, BeginMetadata, ApplyMetadata, AckMetadata, BeginMessage,
              ApplyMessage, AckMessage, Taken, DeliveryFails, HalfWay, watchVars, runVars
<1>4. ASSUME NEW c \in Chats, ReadPage(c) \/ \E kind \in Kinds : Reshape(c, kind)
      PROVE  UNCHANGED <<watch, events, attached>>
  BY <1>4 DEF ReadPage, Reshape, watchVars, runVars
<1> QED
  BY <1>1, <1>2, <1>3, <1>4 DEF Next, ThreemaStep, EpochStep, LiveStep

LEMMA TrippedKeeps ==
  ASSUME Types, WatchInv, NEW c \in Chats, Tripped(c), UNCHANGED attached
  PROVE  WatchInv'
<1>1. /\ watch \in [Chats -> {"off", "on", "tripped"}] /\ events \in [Chats -> Seq(Recorded)]
  BY DEF Types, WatchTypes
<1>2. ASSUME NEW d \in Chats
      PROVE  /\ d # c => watch'[d] = watch[d] /\ events'[d] = events[d]
             /\ d = c => watch'[d] # "on" /\ (watch'[d] # "off" => watch[d] # "off")
                         /\ events'[d] = <<>>
  BY <1>1 DEF Tripped
<1>3. \A i \in DOMAIN <<>> : FALSE
  OBVIOUS
<1> QED
  BY <1>2, <1>3 DEF WatchInv

LEMMA WatchStep ==
  ASSUME Types, WatchInv, Next
  PROVE  WatchInv'
<1>1. /\ watch \in [Chats -> {"off", "on", "tripped"}] /\ events \in [Chats -> Seq(Recorded)]
      /\ ChatOf \in [Messages -> Chats]
  BY SyncAssumption DEF Types, WatchTypes
<1>2. CASE Crash \/ Cleanup
  <2>1. watch' = AllOff /\ events' = NoEvents
    BY <1>2 DEF Crash, Cleanup
  <2> QED
    BY <2>1 DEF WatchInv, AllOff, NoEvents
<1>3. ASSUME NEW c \in Chats, Attach(c) PROVE WatchInv'
  <2>1. /\ watch' = [watch EXCEPT ![c] = "on"] /\ attached' = attached \cup {c}
        /\ UNCHANGED events /\ c \notin attached
    BY <1>3 DEF Attach
  <2> QED
    BY <1>1, <2>1 DEF WatchInv
<1>4. ASSUME NEW c \in Chats, Consume(c) PROVE WatchInv'
  <2> DEFINE rest == Tail(events[c])
  <2>1. /\ events' = [events EXCEPT ![c] = rest] /\ UNCHANGED <<watch, attached>>
        /\ watch[c] = "on" /\ events[c] # <<>> /\ events[c] \in Seq(Recorded)
    BY <1>1, <1>4 DEF Consume
  <2>2. \A i \in DOMAIN rest : i + 1 \in DOMAIN events[c] /\ rest[i] = events[c][i + 1]
    BY <2>1, HeadTailProperties, LenProperties
  <2> HIDE DEF rest
  <2>3. \A i \in DOMAIN rest : ChatOf[rest[i][1]] = c
    BY <2>2 DEF WatchInv
  <2> QED
    BY <1>1, <2>1, <2>3 DEF WatchInv
<1>5. ASSUME NEW c \in Chats, WatchFails(c) \/ Overflow(c) PROVE WatchInv'
  <2>1. Tripped(c) /\ UNCHANGED attached
    BY <1>5 DEF WatchFails, Overflow, runVars
  <2> QED
    BY <2>1, TrippedKeeps
<1>6. ASSUME NEW m \in Messages, RemoveRecord(m) PROVE WatchInv'
  <2>1. Tripped(ChatOf[m]) /\ UNCHANGED attached /\ ChatOf[m] \in Chats
    BY <1>1, <1>6 DEF RemoveRecord, runVars
  <2> QED
    BY <2>1, TrippedKeeps
<1>7. ASSUME NEW m \in Messages, NEW content \in Contents, Change(m, content) PROVE WatchInv'
  <2> DEFINE c == ChatOf[m]
             r == <<m, content>>
  <2>1. c \in Chats /\ r \in Recorded /\ ChatOf[r[1]] = c
    BY <1>1 DEF Recorded
  <2>2. Notified(c, r) /\ UNCHANGED attached
    BY <1>7 DEF Change, runVars
  <2> HIDE DEF c, r
  <2>3. CASE watch[c] # "on"
    <3>1. UNCHANGED <<watch, events>>
      BY <2>2, <2>3 DEF Notified
    <3> QED
      BY <2>2, <3>1 DEF WatchInv
  <2>4. CASE watch[c] = "on" /\ Len(events[c]) < QueueLimit
    <3>1. events' = [events EXCEPT ![c] = Append(@, r)] /\ UNCHANGED watch
      BY <2>2, <2>4 DEF Notified
    <3> DEFINE more == Append(events[c], r)
    <3>2. \A i \in DOMAIN more : more[i] = r \/ (i \in DOMAIN events[c] /\ more[i] = events[c][i])
      BY <1>1, <2>1, AppendProperties, LenProperties
    <3> HIDE DEF more
    <3>3. \A i \in DOMAIN more : ChatOf[more[i][1]] = c
      BY <2>1, <3>2 DEF WatchInv
    <3>4. events' = [events EXCEPT ![c] = more]
      BY <3>1 DEF more
    <3> QED
      BY <1>1, <2>1, <2>2, <2>4, <3>1, <3>3, <3>4 DEF WatchInv
  <2>5. CASE watch[c] = "on" /\ ~(Len(events[c]) < QueueLimit)
    <3>1. Tripped(c)
      <4>1. /\ watch' = [watch EXCEPT ![c] = "tripped"]
            /\ events' = [events EXCEPT ![c] = <<>>]
        BY <2>2, <2>5 DEF Notified
      <4> QED
        BY <2>5, <4>1 DEF Tripped
    <3> QED
      BY <2>1, <2>2, <3>1, TrippedKeeps
  <2> QED
    BY <2>3, <2>4, <2>5
<1> QED
  <2>1. CASE UNCHANGED <<watch, events, attached>>
    BY <2>1 DEF WatchInv
  <2> QED
    BY <1>2, <1>3, <1>4, <1>5, <1>6, <1>7, <2>1, WatchQuiet

-----------------------------------------------------------------------------
(* The phases of an epoch.                                                 *)

\* What neither begins nor ends a phase.
LEMMA PhaseQuiet ==
  ASSUME \/ ThreemaStep \/ DeliveryProgress \/ DeliveryFails \/ HalfWay \/ ResetArrives
         \/ Resync \/ \E c \in Chats : Overflow(c)
  PROVE  UNCHANGED <<pc, listed, dir, attached, cursor, page, staging, tokens, snap, lives>>
<1>1. CASE ThreemaStep
  BY <1>1 DEF ThreemaStep, RemoveRecord, Change, WatchFails, Reshape, runVars, stageVars
<1>2. CASE DeliveryProgress \/ DeliveryFails \/ HalfWay
  BY <1>2 DEF DeliveryProgress, BeginMetadata, ApplyMetadata, AckMetadata, BeginMessage,
              ApplyMessage, AckMessage, Taken, DeliveryFails, HalfWay, runVars, stageVars
<1>3. CASE ResetArrives \/ Resync \/ \E c \in Chats : Overflow(c)
  BY <1>3 DEF ResetArrives, Resync, Overflow, stageVars
<1> QED
  BY <1>1, <1>2, <1>3

LEMMA PhaseStep ==
  ASSUME Types, WatchInv, PhaseInv, HistoryInv, Next
  PROVE  PhaseInv'
<1>1. /\ pc \in {"stopped", "topology", "list", "directory", "attach", "history", "reconciled",
                 "live", "cleanup"}
      /\ attached \subseteq Chats /\ snap \in Seq(Recorded) /\ lives \in Seq(Recorded)
      /\ staging \in BOOLEAN /\ (page = None \/ page \in Pages)
  BY DEF Types, RunTypes, StageTypes
<1> USE DEF Early, Committed
<1>2. CASE Start
  <2>1. /\ pc' = "topology" /\ snap' = <<>> /\ lives' = <<>> /\ pc = "stopped"
        /\ UNCHANGED <<listed, attached, cursor, page, staging>>
    BY <1>2 DEF Start, Discarded
  <2> QED
    BY <1>1, <2>1 DEF PhaseInv, OfAttached
<1>3. CASE Crash
  <2>1. /\ pc' = "stopped" /\ attached' = {} /\ cursor' = Empty' /\ page' = None /\ staging' = TRUE
    BY <1>3 DEF Crash, Empty
  <2> QED
    BY <2>1 DEF PhaseInv
<1>4. CASE WatchTopology \/ ListChats \/ ReadDirectory
  <2>1. /\ pc \in Early /\ pc' \in Early /\ (pc' = "attach" => pc = "directory") /\ pc # "attach"
        /\ UNCHANGED <<attached, cursor, page, staging, snap, lives>>
    BY <1>4 DEF WatchTopology, ListChats, ReadDirectory, stageVars
  <2> QED
    BY <2>1 DEF PhaseInv, OfAttached, Empty
<1>5. ASSUME NEW c \in Chats, Attach(c) PROVE PhaseInv'
  <2>1. /\ pc = "attach" /\ attached' = attached \cup {c}
        /\ UNCHANGED <<pc, cursor, page, staging, snap, lives>>
    BY <1>5 DEF Attach
  <2> QED
    BY <2>1 DEF PhaseInv, OfAttached, Empty
<1>6. CASE AttachedAll \/ GoLive
  <2>1. /\ \/ pc = "attach" /\ pc' = "history" /\ attached = Expected
           \/ pc = "reconciled" /\ pc' = "live"
        /\ UNCHANGED <<listed, attached, cursor, page, staging, snap, lives>>
    BY <1>6 DEF AttachedAll, GoLive, stageVars
  <2> QED
    BY <2>1 DEF PhaseInv, OfAttached, Empty, Expected
<1>7. ASSUME NEW c \in Chats, ReadPage(c) PROVE PhaseInv'
  <2>1. /\ pc = "history"
        /\ UNCHANGED <<pc, listed, attached, cursor, staging, snap, lives>>
    BY <1>7 DEF ReadPage, stageVars
  <2> QED
    BY <2>1 DEF PhaseInv, OfAttached, Expected
<1>8. CASE StagePage
  <2>1. /\ pc = "history" /\ page \in Pages /\ snap' = snap \o page.messages
        /\ UNCHANGED <<pc, listed, attached, staging, lives>>
    BY <1>1, <1>8 DEF StagePage
  <2>2. \A i \in DOMAIN page.messages : ChatOf[page.messages[i][1]] \in attached
    BY <1>8, <2>1 DEF HistoryInv, PhaseInv, StagePage, Unread
  <2>3. \A i \in DOMAIN snap' : \/ i \in DOMAIN snap /\ snap'[i] = snap[i]
                                \/ \E j \in DOMAIN page.messages : snap'[i] = page.messages[j]
    <3>1. page.messages \in Seq(Recorded)
      BY <2>1 DEF Pages
    <3> QED
      BY <1>1, <2>1, <3>1, ConcatEntries
  <2>4. OfAttached(snap)'
    BY <2>1, <2>2, <2>3 DEF OfAttached, PhaseInv
  <2> QED
    BY <2>1, <2>4 DEF PhaseInv, OfAttached, Expected
<1>9. CASE Commit
  <2>1. /\ pc' = "reconciled" /\ pc = "history" /\ staging' = FALSE /\ page = None
        /\ attached = Expected /\ snap' = <<>> /\ lives' = <<>>
        /\ UNCHANGED <<listed, attached, cursor, page>>
    BY <1>9 DEF Commit
  <2> QED
    BY <2>1 DEF PhaseInv, OfAttached, Expected
<1>10. CASE EpochAborted \/ PeriodOver \/ EpochFails
  <2>1. /\ pc # "stopped" /\ pc' = "cleanup" /\ cursor' = Empty' /\ page' = None /\ staging' = TRUE
        /\ UNCHANGED <<attached, snap, lives>>
    BY <1>10 DEF EpochAborted, PeriodOver, EpochFails, Leave, Running, stageVars, Empty
  <2> QED
    BY <2>1 DEF PhaseInv, OfAttached
<1>11. CASE Cleanup
  <2>1. /\ pc = "cleanup" /\ pc' = "topology" /\ attached' = {}
        /\ snap' = Without(snap, attached) /\ lives' = Without(lives, attached)
        /\ UNCHANGED <<cursor, page, staging>>
    BY <1>11 DEF Cleanup
  <2>2. snap' = <<>> /\ lives' = <<>>
    BY <1>1, <2>1, WithoutSome DEF PhaseInv, OfAttached
  <2> QED
    BY <2>1, <2>2 DEF PhaseInv, OfAttached, Empty
<1>12. ASSUME NEW c \in Chats, Consume(c) PROVE PhaseInv'
  <2>1. UNCHANGED <<pc, listed, attached, cursor, page, staging, snap>>
    BY <1>12 DEF Consume
  <2>2. OfAttached(lives)'
    <3>1. CASE UNCHANGED lives
      <4>1. c \in attached
        BY <1>12 DEF WatchInv, Consume
      <4>2. pc # "stopped"
        BY <4>1 DEF PhaseInv
      <4> QED
        BY <2>1, <3>1, <4>2 DEF OfAttached, PhaseInv
    <3>2. CASE lives' = Append(lives, Head(events[c]))
      <4> DEFINE r == Head(events[c])
                 more == Append(lives, r)
      <4>1. /\ events[c] \in Seq(Recorded) /\ events[c] # <<>> /\ c \in attached
        BY <1>12 DEF WatchInv, Consume, Types, WatchTypes
      <4>2. r \in Recorded /\ ChatOf[r[1]] = c
        <5>1. 1 \in DOMAIN events[c] /\ r = events[c][1] /\ r \in Recorded
          BY <4>1, HeadTailProperties, LenProperties, EmptySeq
        <5> QED
          BY <5>1 DEF WatchInv
      <4> HIDE DEF r
      <4>3. \A i \in DOMAIN more : more[i] = r \/ (i \in DOMAIN lives /\ more[i] = lives[i])
        BY <1>1, <4>2, AppendProperties, LenProperties
      <4>4. pc # "stopped"
        BY <4>1 DEF PhaseInv
      <4> HIDE DEF more
      <4>5. \A i \in DOMAIN more : ChatOf[more[i][1]] \in attached
        BY <4>1, <4>2, <4>3, <4>4 DEF OfAttached, PhaseInv
      <4> QED
        BY <2>1, <3>2, <4>5 DEF OfAttached, more, r
    <3> QED
      BY <1>12, <3>1, <3>2 DEF Consume
  <2> QED
    BY <2>1, <2>2 DEF PhaseInv, OfAttached, Expected, Empty
<1>13. CASE UNCHANGED <<pc, listed, dir, attached, cursor, page, staging, tokens, snap, lives>>
  BY <1>13 DEF PhaseInv, OfAttached, Expected, Empty
<1> QED
  BY <1>2, <1>3, <1>4, <1>5, <1>6, <1>7, <1>8, <1>9, <1>10, <1>11, <1>12, <1>13, PhaseQuiet
     DEF Next, EpochStep, LiveStep

\* What has nothing to do with the topology.
LEMMA TopologyQuiet ==
  ASSUME \/ DeliveryProgress \/ DeliveryFails \/ HalfWay \/ ResetArrives \/ Resync \/ StagePage
         \/ \E c \in Chats : LiveStep(c) \/ Attach(c) \/ ReadPage(c) \/ WatchFails(c)
  PROVE  UNCHANGED <<native, topo, topoWatch, pc, listed, dir, meta>>
<1>1. CASE DeliveryProgress \/ DeliveryFails \/ HalfWay
  BY <1>1 DEF DeliveryProgress, BeginMetadata, ApplyMetadata, AckMetadata, BeginMessage,
              ApplyMessage, AckMessage, Taken, DeliveryFails, HalfWay, threemaVars, watchVars,
              runVars, journalVars
<1>2. CASE ResetArrives \/ Resync \/ StagePage
  BY <1>2 DEF ResetArrives, Resync, StagePage, threemaVars, watchVars, journalVars
<1>3. ASSUME NEW c \in Chats, LiveStep(c) \/ Attach(c) \/ ReadPage(c) \/ WatchFails(c)
      PROVE  UNCHANGED <<native, topo, topoWatch, pc, listed, dir, meta>>
  BY <1>3 DEF LiveStep, Consume, Overflow, Attach, ReadPage, WatchFails, threemaVars, watchVars,
              runVars, journalVars
<1> QED
  BY <1>1, <1>2, <1>3

LEMMA TopologyStep ==
  ASSUME Types, TopologyInv, Next
  PROVE  TopologyInv'
<1>1. native \in [Messages -> Contents \cup {0}] /\ topo \in Topology
  BY DEF Types, ThreemaTypes
<1> USE DEF Committed
<1>2. CASE Start \/ Crash \/ Cleanup \/ EpochAborted \/ PeriodOver \/ EpochFails \/ WatchTopology
  <2>1. UNCHANGED <<native, topo>>
    BY <1>2 DEF Start, Crash, Cleanup, EpochAborted, PeriodOver, EpochFails, Leave, WatchTopology,
                threemaVars
  <2>2. pc' \in {"topology", "stopped", "cleanup", "list"}
    BY <1>2 DEF Start, Crash, Cleanup, EpochAborted, PeriodOver, EpochFails, Leave, WatchTopology
  <2> QED
    BY <2>1, <2>2 DEF TopologyInv
<1>3. CASE ListChats \/ ReadDirectory
  <2>1. /\ UNCHANGED <<native, topo, topoWatch>>
        /\ \/ pc' = "directory" /\ listed' = topo
           \/ pc = "directory" /\ pc' = "attach" /\ dir' = topo /\ UNCHANGED listed
    BY <1>3 DEF ListChats, ReadDirectory, threemaVars, watchVars
  <2> QED
    BY <2>1 DEF TopologyInv
<1>4. CASE AttachedAll \/ GoLive
  <2>1. /\ UNCHANGED <<native, topo, topoWatch, listed, dir, meta>>
        /\ \/ pc = "attach" /\ pc' = "history"
           \/ pc = "reconciled" /\ pc' = "live"
    BY <1>4 DEF AttachedAll, GoLive, threemaVars, watchVars, journalVars
  <2> QED
    BY <2>1 DEF TopologyInv
<1>5. CASE Commit
  <2>1. /\ UNCHANGED <<native, topo, topoWatch, listed, dir>>
        /\ meta' = [list |-> listed, dir |-> dir, active |-> filled] /\ pc = "history"
    BY <1>5 DEF Commit, threemaVars, watchVars
  <2> QED
    BY <2>1 DEF TopologyInv
<1>6. ASSUME NEW m \in Messages, RemoveRecord(m) \/ \E content \in Contents : Change(m, content)
      PROVE  TopologyInv'
  <2>1. /\ UNCHANGED <<topo, topoWatch, pc, listed, dir, meta>>
        /\ \E new : native' = [native EXCEPT ![m] = new] /\ (new # 0 => topo[ChatOf[m]] # 0)
    BY <1>6 DEF RemoveRecord, Change, runVars, journalVars
  <2>2. \A k \in Messages : native'[k] # 0 => topo'[ChatOf[k]] # 0
    BY <1>1, <2>1 DEF TopologyInv
  <2> QED
    BY <2>1, <2>2 DEF TopologyInv
<1>7. ASSUME NEW c \in Chats, NEW kind \in Kinds, Reshape(c, kind) PROVE TopologyInv'
  <2>1. /\ topo' = [topo EXCEPT ![c] = kind] /\ topoWatch' # "on"
        /\ native' = [m \in Messages |-> IF kind = 0 /\ ChatOf[m] = c THEN 0 ELSE native[m]]
    BY <1>7 DEF Reshape
  <2>2. ASSUME NEW m \in Messages, native'[m] # 0 PROVE topo'[ChatOf[m]] # 0
    <3>1. ChatOf[m] \in Chats /\ native[m] # 0 /\ ~(kind = 0 /\ ChatOf[m] = c)
      BY <2>1, <2>2, SyncAssumption
    <3>2. topo'[ChatOf[m]] = IF ChatOf[m] = c THEN kind ELSE topo[ChatOf[m]]
      BY <1>1, <2>1, <3>1 DEF Topology
    <3> QED
      BY <3>1, <3>2 DEF TopologyInv
  <2> QED
    BY <2>1, <2>2 DEF TopologyInv
<1>8. CASE UNCHANGED <<native, topo, topoWatch, pc, listed, dir, meta>>
  BY <1>8 DEF TopologyInv
<1> QED
  BY <1>2, <1>3, <1>4, <1>5, <1>6, <1>7, <1>8, TopologyQuiet
     DEF Next, ThreemaStep, EpochStep

-----------------------------------------------------------------------------
(* The history.                                                            *)

\* A page under way reaches beyond the cursor.
LEMMA PageGoesOn ==
  ASSUME Types, HistoryInv, pc = "history", page # None
  PROVE  Reach \in Nat /\ cursor[page.chat] \in Nat /\ cursor[page.chat] < Reach
<1> DEFINE c == page.chat
           list == page.messages
<1>1. /\ NumMessages \in Nat /\ c \in Chats /\ list \in Seq(Recorded) /\ cursor[c] \in Nat
      /\ c \in Unread
      /\ \A i \in DOMAIN list : cursor[c] < list[i][1]
  BY SyncAssumption DEF Types, RunTypes, Pages, HistoryInv
<1>2. CASE page.more
  <2>1. list # <<>> /\ Reach = list[Len(list)][1]
    BY <1>2 DEF HistoryInv, Reach, Last
  <2>2. Len(list) \in DOMAIN list
    BY <1>1, <2>1, LenProperties, EmptySeq
  <2>3. list[Len(list)] \in Recorded
    BY <1>1, <2>2, ElementOfSeq, LenProperties
  <2> QED
    BY <1>1, <2>1, <2>2, <2>3 DEF Recorded, Messages
<1>3. CASE ~page.more
  BY <1>1, <1>3 DEF Reach, Unread
<1> QED
  BY <1>2, <1>3

LEMMA HistoryStep ==
  ASSUME Types, PhaseInv, HistoryInv, Next
  PROVE  HistoryInv'
<1>1. /\ snap \in Seq(Recorded) /\ cursor \in [Chats -> 0..(NumMessages + 1)]
      /\ (page = None \/ page \in Pages) /\ ChatOf \in [Messages -> Chats] /\ NumMessages \in Nat
  BY SyncAssumption DEF Types, RunTypes, StageTypes
<1>2. CASE AttachedAll
  <2>1. pc = "attach" /\ UNCHANGED <<snap, page>>
    BY <1>2 DEF AttachedAll, stageVars
  <2>2. snap' = <<>> /\ page' = None
    BY <2>1 DEF PhaseInv, Early
  <2> QED
    BY <2>2 DEF HistoryInv
<1>3. ASSUME NEW c \in Chats, ReadPage(c) PROVE HistoryInv'
  <2>1. /\ pc = "history" /\ page = None /\ c \in Unread /\ page' = PageAfter(c)
        /\ UNCHANGED <<pc, listed, cursor, snap>>
    BY <1>3 DEF ReadPage, stageVars
  <2> DEFINE answer == PageAfter(c)
  <2>2. /\ answer.chat = c /\ (answer.more => answer.messages # <<>>)
        /\ \A i \in DOMAIN answer.messages :
             answer.messages[i][1] \in After(c) /\ answer.messages[i][1] <= UpTo(answer)
    BY PageIs
  <2>3. \A m \in After(c) : m \in Messages /\ ChatOf[m] = c /\ cursor[c] < m
    BY <1>1, SyncAssumption DEF After, Messages
  <2>4. UpTo(answer) = Reach' /\ page' = answer /\ c \in Unread'
    BY <2>1 DEF UpTo, Reach, Unread, Expected
  <2> HIDE DEF answer
  <2> QED
    BY <2>1, <2>2, <2>3, <2>4 DEF HistoryInv
<1>4. CASE StagePage
  <2> DEFINE c == page.chat
             more == page.messages
  <2>1. /\ pc = "history" /\ page # None /\ page' = None /\ c \in Chats /\ more \in Seq(Recorded)
        /\ snap' = snap \o more /\ cursor' = [cursor EXCEPT ![c] = Reach]
        /\ UNCHANGED pc
    BY <1>1, <1>4 DEF StagePage, Pages, Reach
  <2>2. /\ \A i \in DOMAIN more :
             ChatOf[more[i][1]] = c /\ cursor[c] < more[i][1] /\ more[i][1] <= Reach
        /\ page.chat \in Unread
    BY <2>1 DEF HistoryInv
  <2>3. Reach \in Nat /\ cursor[c] \in Nat /\ cursor[c] < Reach
    BY <2>1, PageGoesOn
  <2>4. ASSUME NEW i \in DOMAIN snap' PROVE snap'[i][1] <= cursor'[ChatOf[snap'[i][1]]]
    <3>1. CASE i \in DOMAIN snap /\ snap'[i] = snap[i]
      <4> DEFINE k == snap[i][1]
      <4>1. k \in Nat /\ ChatOf[k] \in Chats
        <5>1. snap[i] \in Recorded
          BY <1>1, <3>1, ElementOfSeq, LenProperties
        <5> QED
          BY <1>1, <5>1 DEF Recorded, Messages
      <4>2. k <= cursor[ChatOf[k]]
        BY <2>1, <3>1 DEF HistoryInv
      <4> HIDE DEF k, c
      <4>3. CASE ChatOf[k] = c
        <5>1. cursor'[ChatOf[k]] = Reach
          BY <1>1, <2>1, <4>3
        <5> QED
          BY <2>3, <3>1, <4>1, <4>2, <4>3, <5>1 DEF k
      <4>4. CASE ChatOf[k] # c
        BY <1>1, <2>1, <3>1, <4>1, <4>2, <4>4 DEF k
      <4> QED
        BY <4>3, <4>4
    <3>2. ASSUME NEW j \in DOMAIN more, snap'[i] = more[j]
          PROVE  snap'[i][1] <= cursor'[ChatOf[snap'[i][1]]]
      BY <1>1, <2>1, <2>2, <3>2
    <3>3. \/ i \in DOMAIN snap /\ snap'[i] = snap[i]
          \/ \E j \in DOMAIN more : snap'[i] = more[j]
      <4>1. \A k \in DOMAIN (snap \o more) :
              \/ k \in DOMAIN snap /\ (snap \o more)[k] = snap[k]
              \/ \E j \in DOMAIN more : (snap \o more)[k] = more[j]
        BY <1>1, <2>1, ConcatEntries
      <4> QED
        BY <2>1, <4>1
    <3> QED
      BY <3>1, <3>2, <3>3
  <2> QED
    BY <2>1, <2>4 DEF HistoryInv
<1>5. CASE pc' # "history"
  BY <1>5 DEF HistoryInv
<1>6. CASE UNCHANGED <<pc, listed, snap, cursor, page>>
  BY <1>6 DEF HistoryInv, Reach, Unread, Expected
<1>7. CASE \/ Start \/ Crash \/ Commit \/ Cleanup \/ EpochAborted \/ PeriodOver \/ EpochFails
           \/ WatchTopology \/ ListChats \/ ReadDirectory \/ GoLive
  BY <1>5, <1>7 DEF Start, Crash, Commit, Cleanup, EpochAborted, PeriodOver, EpochFails, Leave,
                    WatchTopology, ListChats, ReadDirectory, GoLive
<1>8. ASSUME NEW c \in Chats, Attach(c) \/ Consume(c) PROVE HistoryInv'
  BY <1>6, <1>8 DEF Attach, Consume
<1> QED
  BY <1>2, <1>3, <1>4, <1>6, <1>7, <1>8, PhaseQuiet DEF Next, EpochStep, LiveStep

-----------------------------------------------------------------------------
(* The messages of an epoch.                                               *)

\* What a step leaves alone of a message.
LEMMA FollowsKept ==
  ASSUME NEW m \in Messages, Follows(m), UNCHANGED <<pc, cursor, page, snap, lives, latest>>,
         native'[m] = native[m],
         \/ watch'[ChatOf[m]] # "on"
         \/ watch'[ChatOf[m]] = watch[ChatOf[m]] /\ events'[ChatOf[m]] = events[ChatOf[m]]
  PROVE  Follows(m)'
BY DEF Follows, Staged, Seen, OnPage, Reach, Committed

\* A page is read: it has the messages it reaches as they are.
LEMMA FollowsRead ==
  ASSUME Types, NEW c \in Chats, ReadPage(c), NEW m \in Messages, Follows(m)
  PROVE  Follows(m)'
<1> DEFINE answer == PageAfter(c)
           list == answer.messages
<1>1. /\ pc = "history" /\ page = None /\ page' = answer
      /\ UNCHANGED <<pc, cursor, native, watch, events, snap, lives, latest>>
  BY DEF ReadPage, threemaVars, watchVars, stageVars, journalVars
<1>2. /\ answer \in Pages /\ answer.chat = c /\ UpTo(answer) = Reach'
      /\ \A k \in After(c) : k <= UpTo(answer) => \E i \in DOMAIN list : list[i][1] = k
      /\ \A i \in DOMAIN list : list[i][2] = native[list[i][1]]
  <2>1. UpTo(answer) = Reach'
    BY <1>1 DEF UpTo, Reach
  <2> QED
    BY <2>1, PageIs
<1>3. list \in Seq(Recorded)
  BY <1>2 DEF Pages
<1>4. m \in Nat /\ cursor[ChatOf[m]] \in Nat
  BY SyncAssumption DEF Types, RunTypes, Messages
<1> HIDE DEF answer
<1>5. ASSUME native[m] # 0 PROVE Seen(m)' = Seen(m)
  <2>1. CASE m <= cursor[ChatOf[m]]
    BY <1>1, <2>1 DEF Seen
  <2>2. CASE ~(m <= cursor[ChatOf[m]]) /\ ChatOf[m] = c /\ m <= Reach'
    <3>1. m \in After(c)
      BY <1>4, <1>5, <2>2 DEF After
    <3>2. Occurs(m, list)
      BY <1>2, <2>2, <3>1 DEF Occurs
    <3>3. PICK i \in DOMAIN list : LastAt(m, list, i)
      BY <1>3, <3>2, OccursLast
    <3>4. Outcome(m, 0, list) = native[m]
      <4>1. Outcome(m, 0, list) = list[i][2]
        BY <1>3, <3>3, OutcomeLast
      <4>2. list[i][2] = native[m]
        BY <1>2, <3>3 DEF LastAt
      <4> QED
        BY <4>1, <4>2
    <3>5. Seen(m) = native[m]
      BY <1>1, <2>2 DEF Seen, OnPage
    <3>6. Seen(m)' \in {native[m], Outcome(m, 0, list)}
      BY <1>1, <1>2, <2>2 DEF Seen, OnPage
    <3> QED
      BY <3>4, <3>5, <3>6
  <2>3. CASE ~(m <= cursor[ChatOf[m]]) /\ ~(ChatOf[m] = c /\ m <= Reach')
    BY <1>1, <1>2, <2>3 DEF Seen, OnPage
  <2> QED
    BY <2>1, <2>2, <2>3
<1>6. native[m] # 0 => Staged(m)' = Staged(m)
  BY <1>1, <1>5 DEF Staged
<1> QED
  BY <1>1, <1>6 DEF Follows, Committed

\* A page is staged: what was on it is in the snapshot now.
LEMMA FollowsStaged ==
  ASSUME Types, HistoryInv, StagePage, NEW m \in Messages, Follows(m)
  PROVE  Follows(m)'
<1> DEFINE c == page.chat
           more == page.messages
<1>1. /\ pc = "history" /\ page # None /\ page' = None
      /\ snap' = snap \o more /\ cursor' = [cursor EXCEPT ![c] = Reach]
      /\ UNCHANGED <<pc, native, watch, events, lives, latest>>
  BY DEF StagePage, Reach, threemaVars, watchVars, journalVars
<1>2. /\ c \in Chats /\ more \in Seq(Recorded) /\ snap \in Seq(Recorded)
      /\ cursor \in [Chats -> 0..(NumMessages + 1)] /\ NumMessages \in Nat
      /\ m \in Nat /\ ChatOf[m] \in Chats /\ cursor[ChatOf[m]] \in Nat
  BY <1>1, SyncAssumption DEF Types, RunTypes, StageTypes, Pages, Messages
<1>3. Reach \in Nat /\ cursor[c] < Reach
  BY <1>1, PageGoesOn
<1>4. Occurs(m, more) => ChatOf[m] = c /\ cursor[c] < m /\ m <= Reach
  BY <1>1 DEF Occurs, HistoryInv
<1>5. Occurs(m, snap) => m <= cursor[ChatOf[m]]
  BY <1>1 DEF Occurs, HistoryInv
<1>6. Outcome(m, 0, snap') = Outcome(m, Outcome(m, 0, snap), more)
  BY <1>1, <1>2, OutcomeBoth
<1> HIDE DEF c, more
<1>7. Seen(m)' = Seen(m)
  <2>1. CASE m <= cursor[ChatOf[m]]
    <3>1. m <= cursor'[ChatOf[m]]
      BY <1>1, <1>2, <1>3, <2>1
    <3>2. ~Occurs(m, more)
      BY <1>2, <1>4, <2>1
    <3>3. Outcome(m, 0, snap') = Outcome(m, 0, snap)
      BY <1>6, <3>2, OutcomeNone
    <3> QED
      BY <2>1, <3>1, <3>3 DEF Seen
  <2>2. CASE ~(m <= cursor[ChatOf[m]]) /\ ChatOf[m] = c /\ m <= Reach
    <3>1. m <= cursor'[ChatOf[m]]
      BY <1>1, <1>2, <2>2
    <3>2. Outcome(m, 0, snap) = 0
      BY <1>5, <2>2, OutcomeNone
    <3>3. Seen(m) = Outcome(m, 0, more)
      BY <1>1, <2>2 DEF Seen, OnPage, c, more
    <3> QED
      BY <1>6, <3>1, <3>2, <3>3 DEF Seen
  <2>3. CASE ~(m <= cursor[ChatOf[m]]) /\ ~(ChatOf[m] = c /\ m <= Reach)
    <3>1. ~(m <= cursor'[ChatOf[m]])
      BY <1>1, <1>2, <2>3
    <3>2. Seen(m) = native[m]
      BY <2>3 DEF Seen, OnPage, c
    <3> QED
      BY <1>1, <3>1, <3>2 DEF Seen, OnPage
  <2> QED
    BY <2>1, <2>2, <2>3
<1>8. Staged(m)' = Staged(m)
  BY <1>1, <1>7 DEF Staged
<1> QED
  BY <1>1, <1>8 DEF Follows, Committed

\* The epoch is committed: the journal has what was staged of the message, however it
\* had it before.
LEMMA FollowsCommitted ==
  ASSUME Types, TopologyInv, Commit, topoWatch = "on", NEW m \in Messages, Follows(m)
  PROVE  Follows(m)'
<1> DEFINE c == ChatOf[m]
           old == [latest |-> latest, changes |-> changes]
           log == Ordered
<1>1. /\ pc = "history" /\ pc' = "reconciled" /\ Unread = {}
      /\ latest' = Replayed(old, log).latest
      /\ UNCHANGED <<native, watch, events>>
  BY DEF Commit, threemaVars, watchVars
<1>2. /\ old \in Journals /\ log \in Seq(Recorded) /\ old.latest = latest
      /\ snap \in Seq(Recorded) /\ lives \in Seq(Recorded) /\ events[c] \in Seq(Recorded)
  <2>1. /\ latest \in [Messages -> Contents \cup {0}] /\ changes \in Seq(Recorded)
        /\ snap \in Seq(Recorded) /\ lives \in Seq(Recorded) /\ c \in Chats
        /\ events \in [Chats -> Seq(Recorded)]
    BY SyncAssumption DEF Types, JournalTypes, StageTypes, WatchTypes
  <2> QED
    BY <2>1, ConcatProperties DEF Journals, Ordered
<1>3. latest'[m] = Outcome(m, latest[m], log)
  <2> HIDE DEF old, log
  <2> QED
    BY <1>1, <1>2, ReplayedAll
<1>4. SUFFICES ASSUME native[m] # 0, watch[c] = "on"
               PROVE  Outcome(m, latest'[m], events[c]) = native[m]
  BY <1>1 DEF Follows
<1>5. Staged(m) = Outcome(m, 0, log)
  <2>1. c \in Expected
    BY <1>1, <1>4, SyncAssumption DEF TopologyInv, Expected
  <2>2. m <= cursor[c]
    <3>1. cursor[c] \in 0..(NumMessages + 1) /\ ~(cursor[c] <= NumMessages) /\ c \in Chats
      BY <1>1, <2>1 DEF Types, RunTypes, Unread, Expected
    <3> QED
      BY <3>1, SyncAssumption DEF Messages
  <2>3. Seen(m) = Outcome(m, 0, snap)
    BY <2>2 DEF Seen
  <2> QED
    BY <1>2, <2>3, OutcomeBoth DEF Staged, Ordered
<1>6. Outcome(m, Outcome(m, 0, log), events[c]) = native[m]
  BY <1>1, <1>4, <1>5 DEF Follows
<1> HIDE DEF log
<1>7. CASE Occurs(m, events[c])
  BY <1>2, <1>6, <1>7, OutcomeOccurs
<1>8. CASE ~Occurs(m, events[c])
  <2>1. Outcome(m, 0, log) = native[m]
    BY <1>6, <1>8, OutcomeNone
  <2>2. Occurs(m, log)
    BY <1>4, <2>1, OutcomeNone
  <2>3. Outcome(m, latest[m], log) = native[m]
    BY <1>2, <2>1, <2>2, OutcomeOccurs
  <2> QED
    BY <1>3, <1>8, <2>3, OutcomeNone
<1> QED
  BY <1>7, <1>8

\* A live message is taken from the watch: it is staged or recorded, whichever the
\* phase asks for.
LEMMA FollowsConsumed ==
  ASSUME Types, WatchInv, PhaseInv, NEW c \in Chats, Consume(c), NEW m \in Messages, Follows(m)
  PROVE  Follows(m)'
<1> DEFINE first == Head(events[c])
           rest == Tail(events[c])
           old == [latest |-> latest, changes |-> changes]
<1>1. /\ events[c] \in Seq(Recorded) /\ events[c] # <<>>
      /\ first \in Recorded /\ rest \in Seq(Recorded)
      /\ lives \in Seq(Recorded) /\ old \in Journals /\ old.latest = latest
      /\ events \in [Chats -> Seq(Recorded)]
  <2>1. /\ events \in [Chats -> Seq(Recorded)] /\ events[c] # <<>> /\ lives \in Seq(Recorded)
        /\ latest \in [Messages -> Contents \cup {0}] /\ changes \in Seq(Recorded)
    BY DEF Types, WatchTypes, StageTypes, JournalTypes, Consume
  <2>2. first \in Recorded /\ rest \in Seq(Recorded)
    BY <2>1, HeadTailProperties
  <2> QED
    BY <2>1, <2>2 DEF Journals
<1>2. /\ events' = [events EXCEPT ![c] = rest]
      /\ UNCHANGED <<pc, native, watch, cursor, page, snap>>
      /\ staging => lives' = Append(lives, first) /\ UNCHANGED latest
      /\ ~staging => latest' = Upserted(old, first).latest /\ UNCHANGED lives
  BY DEF Consume, threemaVars
<1>3. ChatOf[first[1]] = c
  <2>1. 1 \in DOMAIN events[c] /\ first = events[c][1]
    BY <1>1, HeadTailProperties, LenProperties, EmptySeq
  <2> QED
    BY <2>1 DEF WatchInv
<1>4. Seen(m)' = Seen(m)
  BY <1>2 DEF Seen, OnPage, Reach
<1>5. \A was : ChatOf[m] = c => Outcome(m, was, events[c]) =
                                  Outcome(m, IF first[1] = m THEN first[2] ELSE was, rest)
  <2>1. \A was : Outcome(m, was, events[c]) =
                   Outcome(m, IF first[1] = m THEN first[2] ELSE was, rest)
    BY <1>1, OutcomeTail
  <2> QED
    BY <2>1
<1>6. staging => Staged(m)' = IF first[1] = m THEN first[2] ELSE Staged(m)
  <2> HIDE DEF first
  <2>1. \A was : \A s \in Seq(Recorded) :
          Outcome(m, was, Append(s, first)) = IF first[1] = m THEN first[2] ELSE Outcome(m, was, s)
    BY <1>1, OutcomeAppend
  <2> QED
    BY <1>1, <1>2, <1>4, <2>1 DEF Staged
<1>7. ~staging => latest'[m] = IF first[1] = m THEN first[2] ELSE latest[m]
  <2> HIDE DEF first, old
  <2>1. \A k \in Messages : Upserted(old, first).latest[k] =
                              IF k = first[1] THEN first[2] ELSE old.latest[k]
    BY <1>1, UpsertedOne
  <2> QED
    BY <1>1, <1>2, <2>1
<1> HIDE DEF first, rest, old
<1>8. CASE ChatOf[m] = c
  <2>1. events'[ChatOf[m]] = rest
    BY <1>1, <1>2, <1>8
  <2>2. pc \in {"attach", "history"} => staging
    BY DEF PhaseInv, Committed
  <2>3. pc \in Committed => ~staging
    BY DEF PhaseInv
  <2> QED
    BY <1>2, <1>5, <1>6, <1>7, <1>8, <2>1, <2>2, <2>3 DEF Follows, Committed
<1>9. CASE ChatOf[m] # c
  <2>1. first[1] # m /\ events'[ChatOf[m]] = events[ChatOf[m]]
    BY <1>1, <1>2, <1>3, <1>9, SyncAssumption
  <2>2. pc \in {"attach", "history"} => staging
    BY DEF PhaseInv, Committed
  <2>3. pc \in Committed => ~staging
    BY DEF PhaseInv
  <2> QED
    BY <1>2, <1>6, <1>7, <2>1, <2>2, <2>3 DEF Follows, Committed
<1> QED
  BY <1>8, <1>9

\* A watch begins: neither the history nor a watch has a message of the chat yet.
LEMMA FollowsAttached ==
  ASSUME Types, WatchInv, PhaseInv, NEW c \in Chats, Attach(c), NEW m \in Messages, Follows(m)
  PROVE  Follows(m)'
<1>1. /\ pc = "attach" /\ c \notin attached /\ watch' = [watch EXCEPT ![c] = "on"]
      /\ UNCHANGED <<pc, native, events, cursor, page, snap, lives, latest>>
  BY DEF Attach, threemaVars, journalVars
<1>2. CASE ChatOf[m] = c
  <2>1. events[c] = <<>>
    BY <1>1 DEF WatchInv
  <2>2. ~Occurs(m, lives)
    BY <1>1, <1>2 DEF PhaseInv, OfAttached, Occurs
  <2>3. Seen(m) = native[m]
    <3>1. page = None /\ cursor[c] = 0 /\ ~(m <= 0)
      BY <1>1, SyncAssumption DEF PhaseInv, Early, Empty, Messages
    <3> QED
      BY <1>2, <3>1 DEF Seen, OnPage
  <2>4. Outcome(m, Staged(m), events[c]) = native[m]
    <3>1. Staged(m) = native[m]
      BY <2>2, <2>3, OutcomeNone DEF Staged
    <3>2. ~Occurs(m, events[c])
      BY <2>1 DEF Occurs
    <3> QED
      BY <3>1, <3>2, OutcomeNone
  <2>5. Staged(m)' = Staged(m)
    BY <1>1 DEF Staged, Seen, OnPage, Reach
  <2> QED
    BY <1>1, <1>2, <2>4, <2>5 DEF Follows, Committed
<1>3. CASE ChatOf[m] # c
  <2>1. watch'[ChatOf[m]] = watch[ChatOf[m]]
    BY <1>1, <1>3, SyncAssumption DEF Types, WatchTypes
  <2> QED
    BY <1>1, <2>1, FollowsKept
<1> QED
  BY <1>2, <1>3

\* Threema has a change: the watch holds it back, or gives up.
LEMMA FollowsChanged ==
  ASSUME Types, NEW k \in Messages, NEW content \in Contents, Change(k, content),
         NEW m \in Messages, Follows(m)
  PROVE  Follows(m)'
<1> DEFINE c == ChatOf[k]
           r == <<k, content>>
<1>1. /\ native' = [native EXCEPT ![k] = content] /\ Notified(c, r)
      /\ UNCHANGED <<pc, cursor, page, snap, lives, latest>>
  BY DEF Change, runVars, stageVars, journalVars
<1>2. /\ c \in Chats /\ ChatOf[m] \in Chats /\ r \in Recorded /\ r[1] = k /\ r[2] = content
      /\ native \in [Messages -> Contents \cup {0}] /\ events \in [Chats -> Seq(Recorded)]
      /\ watch \in [Chats -> {"off", "on", "tripped"}]
  BY SyncAssumption DEF Types, ThreemaTypes, WatchTypes, Recorded
<1> HIDE DEF c, r
<1>3. CASE watch[c] = "on" /\ Len(events[c]) < QueueLimit
  <2>1. events' = [events EXCEPT ![c] = Append(@, r)] /\ UNCHANGED watch
    BY <1>1, <1>3 DEF Notified
  <2>2. \A was : \A s \in Seq(Recorded) :
          Outcome(m, was, Append(s, r)) = IF r[1] = m THEN r[2] ELSE Outcome(m, was, s)
    <3>1. r \in Recorded
      BY <1>2
    <3> QED
      BY <3>1, OutcomeAppend
  <2>3. CASE m = k
    <3>1. ChatOf[m] = c /\ native'[m] = content
      BY <1>1, <1>2, <2>3 DEF c
    <3>2. \A was : Outcome(m, was, events'[c]) = content
      BY <1>2, <2>1, <2>2, <2>3
    <3> QED
      BY <3>1, <3>2 DEF Follows
  <2>4. CASE m # k
    <3>1. native'[m] = native[m]
      BY <1>1, <1>2, <2>4
    <3>2. \A was : Outcome(m, was, events'[ChatOf[m]]) = Outcome(m, was, events[ChatOf[m]])
      <4>1. CASE ChatOf[m] = c
        BY <1>2, <2>1, <2>2, <2>4, <4>1
      <4>2. CASE ChatOf[m] # c
        BY <1>2, <2>1, <4>2
      <4> QED
        BY <4>1, <4>2
    <3>3. Staged(m)' = Staged(m)
      BY <1>1, <3>1 DEF Staged, Seen, OnPage, Reach
    <3> QED
      BY <1>1, <2>1, <3>1, <3>2, <3>3 DEF Follows, Committed
  <2> QED
    BY <2>3, <2>4
<1>4. CASE ~(watch[c] = "on" /\ Len(events[c]) < QueueLimit)
  <2>1. /\ watch'[c] # "on"
        /\ ChatOf[m] # c => /\ watch'[ChatOf[m]] = watch[ChatOf[m]]
                            /\ events'[ChatOf[m]] = events[ChatOf[m]]
    BY <1>1, <1>2, <1>4 DEF Notified
  <2>2. m = k => ChatOf[m] = c
    BY DEF c
  <2>3. CASE ChatOf[m] = c
    BY <2>1, <2>3 DEF Follows
  <2>4. CASE ChatOf[m] # c
    <3>1. native'[m] = native[m]
      BY <1>1, <1>2, <2>2, <2>4
    <3> QED
      BY <1>1, <2>1, <2>4, <3>1, FollowsKept
  <2> QED
    BY <2>3, <2>4
<1> QED
  BY <1>3, <1>4

\* The watch of a chat gives up.
LEMMA FollowsTripped ==
  ASSUME Types, NEW c \in Chats, Tripped(c), UNCHANGED <<pc, cursor, page, snap, lives, latest>>,
         \A k \in Messages : ChatOf[k] # c => native'[k] = native[k],
         NEW m \in Messages, Follows(m)
  PROVE  Follows(m)'
<1>1. /\ watch \in [Chats -> {"off", "on", "tripped"}] /\ events \in [Chats -> Seq(Recorded)]
      /\ ChatOf[m] \in Chats
  BY SyncAssumption DEF Types, WatchTypes
<1>2. CASE ChatOf[m] = c
  BY <1>1, <1>2 DEF Tripped, Follows
<1>3. CASE ChatOf[m] # c
  <2>1. watch'[ChatOf[m]] = watch[ChatOf[m]] /\ events'[ChatOf[m]] = events[ChatOf[m]]
    BY <1>1, <1>3 DEF Tripped
  <2> QED
    BY <1>3, <2>1, FollowsKept
<1> QED
  BY <1>2, <1>3

\* What takes nothing from Threema and records nothing.
LEMMA FollowsQuiet ==
  ASSUME DeliveryProgress \/ DeliveryFails \/ HalfWay \/ ResetArrives \/ Resync,
         NEW m \in Messages, Follows(m)
  PROVE  Follows(m)'
<1>1. UNCHANGED <<native, watch, events, pc, cursor, page, snap, lives, latest>>
  <2>1. CASE DeliveryProgress \/ DeliveryFails \/ HalfWay
    BY <2>1 DEF DeliveryProgress, BeginMetadata, ApplyMetadata, AckMetadata, BeginMessage,
                ApplyMessage, AckMessage, Taken, DeliveryFails, HalfWay, threemaVars, watchVars,
                runVars, stageVars, journalVars
  <2>2. CASE ResetArrives \/ Resync
    BY <2>2 DEF ResetArrives, Resync, threemaVars, watchVars, stageVars, journalVars
  <2> QED
    BY <2>1, <2>2
<1> QED
  BY <1>1, FollowsKept

LEMMA FollowStep ==
  ASSUME Types, EpochInv, Next
  PROVE  FollowInv'
<1> SUFFICES ASSUME topoWatch' = "on", NEW m \in Messages PROVE Follows(m)'
  BY DEF FollowInv
<1> USE DEF EpochInv
<1>1. CASE pc' \notin {"attach", "history"} \cup Committed
  BY <1>1 DEF Follows
<1>2. CASE pc' \in {"attach", "history"} \cup Committed
  <2>1. /\ ~(Start \/ Crash \/ Cleanup \/ EpochAborted \/ PeriodOver \/ EpochFails)
        /\ ~(WatchTopology \/ ListChats)
        /\ \A c \in Chats : \A kind \in Kinds : ~Reshape(c, kind)
    BY <1>2 DEF Start, Crash, Cleanup, EpochAborted, PeriodOver, EpochFails, Leave,
                WatchTopology, ListChats, Reshape, Committed
  <2>2. CASE ReadDirectory
    <3>1. attached = {} /\ UNCHANGED watch
      BY <2>2 DEF ReadDirectory, watchVars, PhaseInv, Early
    <3>2. watch[ChatOf[m]] # "on"
      BY <3>1, SyncAssumption DEF WatchInv
    <3> QED
      BY <3>1, <3>2 DEF Follows
  <2>3. CASE ~ReadDirectory
    <3>1. topoWatch = "on" /\ Follows(m)
      <4>1. UNCHANGED topoWatch
        <5>1. CASE AttachedAll \/ StagePage \/ Commit \/ GoLive
          BY <5>1 DEF AttachedAll, StagePage, Commit, GoLive, watchVars
        <5>2. CASE \E k \in Messages : RemoveRecord(k) \/ \E content \in Contents : Change(k, content)
          BY <5>2 DEF RemoveRecord, Change
        <5> QED
          BY <2>1, <2>3, <5>1, <5>2, TopologyQuiet DEF Next, ThreemaStep, EpochStep
      <4> QED
        BY <4>1 DEF FollowInv
    <3>2. CASE AttachedAll \/ GoLive
      <4>1. /\ UNCHANGED <<native, watch, events, cursor, page, snap, lives, latest>>
            /\ \/ pc = "attach" /\ pc' = "history"
               \/ pc = "reconciled" /\ pc' = "live"
        BY <3>2 DEF AttachedAll, GoLive, threemaVars, watchVars, stageVars, journalVars
      <4>2. Staged(m)' = Staged(m)
        BY <4>1 DEF Staged, Seen, OnPage, Reach
      <4> QED
        BY <3>1, <4>1, <4>2 DEF Follows, Committed
    <3>3. CASE StagePage \/ Commit
      BY <3>1, <3>3, FollowsStaged, FollowsCommitted
    <3>4. ASSUME NEW c \in Chats, Attach(c) \/ ReadPage(c) \/ Consume(c) PROVE Follows(m)'
      BY <3>1, <3>4, FollowsAttached, FollowsRead, FollowsConsumed
    <3>5. ASSUME NEW c \in Chats, WatchFails(c) \/ Overflow(c) PROVE Follows(m)'
      <4>1. Tripped(c) /\ UNCHANGED <<native, pc, cursor, page, snap, lives, latest>>
        BY <3>5 DEF WatchFails, Overflow, threemaVars, runVars, stageVars, journalVars
      <4> QED
        BY <3>1, <4>1, FollowsTripped
    <3>6. ASSUME NEW k \in Messages, RemoveRecord(k) PROVE Follows(m)'
      <4>1. /\ Tripped(ChatOf[k]) /\ ChatOf[k] \in Chats
            /\ UNCHANGED <<pc, cursor, page, snap, lives, latest>>
            /\ native' = [native EXCEPT ![k] = 0]
        BY <3>6, SyncAssumption DEF RemoveRecord, runVars, stageVars, journalVars
      <4>2. \A j \in Messages : ChatOf[j] # ChatOf[k] => native'[j] = native[j]
        BY <4>1 DEF Types, ThreemaTypes
      <4> QED
        BY <3>1, <4>1, <4>2, FollowsTripped
    <3>7. ASSUME NEW k \in Messages, NEW content \in Contents, Change(k, content)
          PROVE  Follows(m)'
      BY <3>1, <3>7, FollowsChanged
    <3> QED
      BY <2>1, <2>3, <3>1, <3>2, <3>3, <3>4, <3>5, <3>6, <3>7, FollowsQuiet
         DEF Next, ThreemaStep, EpochStep, LiveStep
  <2> QED
    BY <2>2, <2>3
<1> QED
  BY <1>1, <1>2

-----------------------------------------------------------------------------
(* The changes and their delivery.                                         *)

\* What records no change and delivers none.
LEMMA JournalQuiet ==
  ASSUME \/ Start \/ Crash \/ ThreemaStep \/ Resync \/ PeriodOver \/ EpochFails \/ DeliveryFails
         \/ WatchTopology \/ ListChats \/ ReadDirectory \/ AttachedAll \/ StagePage
         \/ GoLive \/ ResetArrives \/ EpochAborted \/ Cleanup
         \/ \E c \in Chats : Attach(c) \/ ReadPage(c) \/ Overflow(c)
  PROVE  /\ UNCHANGED <<latest, changes, meta, metaPending, shown, rooms, portals, misnamed>>
         /\ \/ dpc' = "idle" /\ fresh' = TRUE /\ view' = None
            \/ UNCHANGED <<dpc, view, fresh>>
<1>1. CASE Start \/ Crash \/ Resync \/ PeriodOver \/ EpochFails \/ DeliveryFails
  BY <1>1 DEF Start, Crash, Resync, PeriodOver, EpochFails, Leave, DeliveryFails, journalVars,
              matrixVars, deliveryVars
<1>2. CASE ThreemaStep
  BY <1>2 DEF ThreemaStep, RemoveRecord, Change, WatchFails, Reshape, journalVars, matrixVars,
              deliveryVars
<1>3. CASE WatchTopology \/ ListChats \/ ReadDirectory \/ AttachedAll \/ StagePage
  BY <1>3 DEF WatchTopology, ListChats, ReadDirectory, AttachedAll, StagePage, journalVars,
              matrixVars, deliveryVars
<1>4. CASE GoLive \/ ResetArrives \/ EpochAborted \/ Cleanup
  BY <1>4 DEF GoLive, ResetArrives, EpochAborted, Leave, Cleanup, journalVars, matrixVars,
              deliveryVars
<1>5. CASE \E c \in Chats : Attach(c) \/ ReadPage(c) \/ Overflow(c)
  BY <1>5 DEF Attach, ReadPage, Overflow, journalVars, matrixVars, deliveryVars
<1> QED
  BY <1>1, <1>2, <1>3, <1>4, <1>5

\* A journal that extends the earlier one is as good for Matrix.
LEMMA SkipExtends ==
  ASSUME Types, HeadInv, NothingSkipped, UNCHANGED <<shown, dpc>>,
         NEW new, Extends(new, [latest |-> latest, changes |-> changes]),
         latest' = new.latest, changes' = new.changes
  PROVE  (HeadInv /\ NothingSkipped)'
<1>1. shown \in [Messages -> Contents \cup {0}]
  BY DEF Types, MatrixTypes
<1>2. NothingSkipped'
  BY <1>1 DEF NothingSkipped, Extends
<1>3. HeadInv'
  BY DEF HeadInv, Extends, Here
<1> QED
  BY <1>2, <1>3

LEMMA SkipStep ==
  ASSUME Types, PhaseInv, HeadInv, NothingSkipped, Next
  PROVE  (HeadInv /\ NothingSkipped)'
<1> DEFINE old == [latest |-> latest, changes |-> changes]
<1>1. /\ changes \in Seq(Recorded) /\ shown \in [Messages -> Contents \cup {0}]
      /\ latest \in [Messages -> Contents \cup {0}] /\ old \in Journals
  BY DEF Types, JournalTypes, MatrixTypes, Journals
<1>2. CASE UNCHANGED <<latest, changes, shown>> /\ (dpc' \notin {"message", "delivered"} \/ UNCHANGED dpc)
  BY <1>2 DEF HeadInv, NothingSkipped, Here
<1>3. CASE Commit
  <2>1. /\ latest' = Replayed(old, Ordered).latest /\ changes' = Replayed(old, Ordered).changes
        /\ UNCHANGED <<shown, dpc>>
    BY <1>3 DEF Commit, matrixVars
  <2>2. Ordered \in Seq(Recorded)
    BY ConcatProperties DEF Ordered, Types, StageTypes
  <2>3. Extends(Replayed(old, Ordered), old)
    <3> HIDE DEF old
    <3> QED
      BY <1>1, <2>2, ReplayedAll
  <2> QED
    BY <2>1, <2>3, SkipExtends
<1>4. ASSUME NEW c \in Chats, Consume(c) PROVE (HeadInv /\ NothingSkipped)'
  <2> DEFINE first == Head(events[c])
  <2>1. UNCHANGED <<shown, dpc>>
    BY <1>4 DEF Consume, matrixVars, deliveryVars
  <2>2. CASE staging
    <3>1. UNCHANGED <<latest, changes>>
      BY <1>4, <2>2 DEF Consume
    <3> QED
      BY <1>2, <2>1, <3>1
  <2>3. CASE ~staging
    <3>1. latest' = Upserted(old, first).latest /\ changes' = Upserted(old, first).changes
      BY <1>4, <2>3 DEF Consume
    <3>2. first \in Recorded
      BY <1>4, HeadTailProperties DEF Consume, Types, WatchTypes
    <3>3. Extends(Upserted(old, first), old)
      <4> HIDE DEF old, first
      <4> QED
        BY <1>1, <3>2, UpsertedOne
    <3> QED
      BY <2>1, <3>1, <3>3, SkipExtends
  <2> QED
    BY <2>2, <2>3
<1>5. CASE BeginMetadata \/ ApplyMetadata \/ AckMetadata
  BY <1>2, <1>5 DEF BeginMetadata, ApplyMetadata, AckMetadata, Taken, journalVars, matrixVars
<1>6. CASE BeginMessage
  BY <1>6 DEF BeginMessage, Taken, journalVars, matrixVars, HeadInv, NothingSkipped
<1>7. CASE ApplyMessage
  <2>1. /\ dpc = "message" /\ dpc' = "delivered" /\ UNCHANGED <<latest, changes>>
        /\ shown' = [shown EXCEPT ![Here] = Head(changes)[2]]
    BY <1>7 DEF ApplyMessage, journalVars
  <2>2. changes # <<>> /\ Head(changes) \in Recorded /\ Here \in Messages
    <3>1. changes # <<>>
      BY <2>1 DEF HeadInv
    <3> QED
      BY <1>1, <3>1, HeadTailProperties DEF Recorded, Here
  <2>3. HeadInv'
    BY <1>1, <2>1, <2>2 DEF HeadInv, Here
  <2>4. ASSUME NEW m \in Messages PROVE Outcome(m, shown'[m], changes) = latest[m]
    <3>1. Outcome(m, shown[m], changes) = latest[m]
      BY DEF NothingSkipped
    <3>2. CASE m = Here
      <4>1. Occurs(m, changes)
        <5>1. 1 \in DOMAIN changes /\ changes[1] = Head(changes)
          BY <1>1, <2>2, HeadTailProperties, LenProperties, EmptySeq
        <5> QED
          BY <3>2, <5>1 DEF Occurs, Here
      <4>2. Outcome(m, shown'[m], changes) = Outcome(m, shown[m], changes)
        BY <1>1, <4>1, OutcomeOccurs
      <4> QED
        BY <3>1, <4>2
    <3>3. CASE m # Here
      BY <1>1, <2>1, <3>1, <3>3
    <3> QED
      BY <3>2, <3>3
  <2> QED
    BY <2>1, <2>3, <2>4 DEF NothingSkipped
<1>8. CASE AckMessage
  <2>1. /\ dpc = "delivered" /\ dpc' = "idle" /\ changes' = Tail(changes)
        /\ UNCHANGED <<latest, shown>>
    BY <1>8 DEF AckMessage, matrixVars
  <2>2. changes # <<>> /\ shown[Here] = Head(changes)[2] /\ Here = Head(changes)[1]
    BY <2>1 DEF HeadInv, Here
  <2>3. ASSUME NEW m \in Messages PROVE Outcome(m, shown[m], Tail(changes)) = latest[m]
    <3>1. Outcome(m, shown[m], changes) =
            Outcome(m, IF Head(changes)[1] = m THEN Head(changes)[2] ELSE shown[m], Tail(changes))
      BY <1>1, <2>2, OutcomeTail
    <3>2. (IF Head(changes)[1] = m THEN Head(changes)[2] ELSE shown[m]) = shown[m]
      BY <2>2
    <3> QED
      BY <3>1, <3>2 DEF NothingSkipped
  <2> QED
    BY <2>1, <2>3 DEF NothingSkipped, HeadInv
<1>9. CASE HalfWay
  BY <1>2, <1>9 DEF HalfWay, journalVars
<1> QED
  BY <1>2, <1>3, <1>4, <1>5, <1>6, <1>7, <1>8, <1>9, JournalQuiet
     DEF Next, EpochStep, LiveStep, DeliveryProgress

\* Rooms follow the metadata: an epoch that replaces it under a delivery leaves it pending.
LEMMA ViewStep ==
  ASSUME Types, HeadInv, ViewInv, RoomsFollow, Next
  PROVE  (ViewInv /\ RoomsFollow)'
<1>1. /\ fresh \in BOOLEAN /\ metaPending \in BOOLEAN /\ rooms \in [Chats -> Kinds \X Kinds]
      /\ portals \in SUBSET Chats /\ meta \in Metadata \cup {None}
  BY DEF Types, JournalTypes, DeliveryTypes, MatrixTypes
<1>2. RoomsFollow <=> (meta # None /\ ~metaPending => Current)
  BY DEF RoomsFollow, Current
<1>3. RoomsFollow' <=> (meta' # None /\ ~metaPending' => Current')
  BY DEF RoomsFollow, Current
<1>4. UNCHANGED <<meta, rooms, portals, misnamed>> => (Current' <=> Current)
  BY DEF Current
<1>5. UNCHANGED <<rooms, portals>> => (Unbound' <=> Unbound)
  BY DEF Unbound
<1> HIDE DEF RoomsFollow, Current, Unbound
<1>6. CASE /\ UNCHANGED <<meta, metaPending, rooms, portals, misnamed>>
           /\ (dpc' = "idle" /\ fresh' = TRUE) \/ UNCHANGED <<dpc, view, fresh>>
  <2>1. ViewInv'
    <3>1. CASE dpc' = "idle" /\ fresh' = TRUE
      BY <1>5, <1>6, <3>1 DEF ViewInv
    <3>2. CASE UNCHANGED <<dpc, view, fresh>>
      BY <1>4, <1>5, <1>6, <3>2 DEF ViewInv
    <3> QED
      BY <1>6, <3>1, <3>2
  <2> QED
    BY <1>2, <1>3, <1>4, <1>6, <2>1
<1>7. CASE Commit
  <2>1. /\ metaPending' = TRUE /\ fresh' = (dpc = "idle") /\ UNCHANGED <<dpc, view>>
        /\ UNCHANGED <<rooms, portals>>
    BY <1>7 DEF Commit, matrixVars
  <2>2. (dpc = "idle" => fresh' = TRUE) /\ (dpc # "idle" => fresh' = FALSE)
    BY <2>1
  <2> QED
    BY <1>3, <1>5, <2>1, <2>2 DEF ViewInv
<1>8. ASSUME NEW c \in Chats, Consume(c) PROVE (ViewInv /\ RoomsFollow)'
  BY <1>6, <1>8 DEF Consume, deliveryVars, matrixVars
<1>9. CASE BeginMetadata \/ BeginMessage
  <2>1. /\ dpc' \in {"metadata", "message"} /\ view' = meta /\ meta # None /\ fresh' = TRUE
        /\ UNCHANGED <<meta, metaPending, rooms, portals, misnamed>>
    BY <1>9 DEF BeginMetadata, BeginMessage, Taken, journalVars, matrixVars
  <2> QED
    BY <1>2, <1>3, <1>4, <1>5, <2>1 DEF ViewInv
<1>10. CASE ApplyMetadata
  <2>1. /\ dpc = "metadata" /\ dpc' = "applied"
        /\ UNCHANGED <<meta, metaPending, view, fresh, portals>>
        /\ rooms' = [c \in Chats |-> IF c \in view.active \cap portals
                                     THEN <<view.list[c], view.dir[c]>> ELSE rooms[c]]
    BY <1>10 DEF ApplyMetadata, journalVars
  <2>2. Unbound'
    BY <2>1 DEF ViewInv, Unbound
  <2>3. ASSUME fresh PROVE Current'
    <3>1. view = meta
      BY <2>1, <2>3 DEF ViewInv
    <3>2. ASSUME NEW c \in meta.active \cap portals
          PROVE  rooms'[c] = <<meta.list[c], meta.dir[c]>>
      BY <1>1, <2>1, <3>1, <3>2
    <3>3. ASSUME NEW c \in meta.active \cap portals
          PROVE  rooms'[c][1] = meta.list[c] /\ rooms'[c][2] = meta.dir[c]
      BY <3>2, <3>3
    <3>4. meta' = meta /\ portals' = portals
      BY <2>1
    <3> QED
      BY <3>3, <3>4 DEF Current
  <2> QED
    BY <1>1, <1>3, <2>1, <2>2, <2>3 DEF ViewInv
<1>11. CASE AckMetadata
  <2>1. /\ dpc = "applied" /\ dpc' = "idle" /\ metaPending' = ~fresh /\ fresh' = TRUE
        /\ UNCHANGED <<meta, rooms, portals, misnamed>>
    BY <1>11 DEF AckMetadata, StillPending, matrixVars
  <2>2. ~metaPending' => fresh
    BY <1>1, <2>1
  <2> QED
    BY <1>3, <1>4, <1>5, <2>1, <2>2 DEF ViewInv
<1>12. CASE ApplyMessage
  <2>1. /\ dpc = "message" /\ dpc' = "delivered" /\ UNCHANGED <<meta, metaPending, view, fresh>>
        /\ Ensure(ChatOf[Here]) /\ Peopled(ChatOf[Here])
    BY <1>12 DEF ApplyMessage, journalVars
  <2>2. Unbound' /\ (fresh /\ Current => Current')
    BY <2>1, MessageRooms
  <2>3. ~metaPending => fresh
    BY <1>1 DEF ViewInv
  <2> QED
    BY <1>2, <1>3, <2>1, <2>2, <2>3 DEF ViewInv
<1>13. CASE HalfWay
  <2>1. /\ dpc' = "idle" /\ fresh' = TRUE /\ UNCHANGED <<meta, metaPending>>
    BY <1>13 DEF HalfWay, journalVars
  <2>2. Unbound' /\ (fresh /\ Current => Current')
    BY <1>13, HalfWayRooms
  <2>3. ~metaPending => fresh
    BY <1>1 DEF ViewInv
  <2> QED
    BY <1>2, <1>3, <2>1, <2>2, <2>3 DEF ViewInv
<1>14. CASE AckMessage
  BY <1>6, <1>14 DEF AckMessage, matrixVars
<1> QED
  BY <1>6, <1>7, <1>8, <1>9, <1>10, <1>11, <1>12, <1>13, <1>14, JournalQuiet
     DEF Next, EpochStep, LiveStep, DeliveryProgress

-----------------------------------------------------------------------------
(* The invariant.                                                          *)

IInv == Types /\ EpochInv /\ HeadInv /\ ViewInv /\ NothingSkipped /\ RoomsFollow

LEMMA InitHolds == Init => IInv
<1> SUFFICES ASSUME Init PROVE IInv
  OBVIOUS
<1> USE DEF Init, SynchronizerInit, JournalInit, DeliveryInit
<1>1. /\ NumMessages \in Nat \ {0} /\ Retained \subseteq Messages /\ ChatOf \in [Messages -> Chats]
      /\ 1 \in Contents /\ BufferLimit \in Nat /\ MaxMoves \in Nat
  BY SyncAssumption
<1>2. Types
  <2>1. ThreemaTypes /\ MatrixTypes
    <3>1. \A c \in Chats : rooms[c] \in Kinds \X Kinds
      BY DEF Kinds
    <3> QED
      BY <1>1, <3>1 DEF ThreemaTypes, MatrixTypes, Topology, Kinds
  <2>2. WatchTypes
    BY EmptySeq DEF WatchTypes, AllOff, NoEvents
  <2>3. RunTypes
    <3>1. Empty \in [Chats -> 0..(NumMessages + 1)] /\ Empty \in Topology /\ 0 \in 0..BufferLimit
      BY <1>1 DEF Empty, Topology, Kinds
    <3> QED
      BY <3>1 DEF RunTypes
  <2>4. StageTypes /\ JournalTypes /\ DeliveryTypes
    BY EmptySeq DEF StageTypes, JournalTypes, DeliveryTypes
  <2> QED
    BY <2>1, <2>2, <2>3, <2>4 DEF Types
<1>3. EpochInv
  <2>1. WatchInv
    BY DEF WatchInv, AllOff, NoEvents
  <2>2. PhaseInv
    BY DEF PhaseInv, OfAttached, Early, Committed
  <2>3. TopologyInv /\ HistoryInv /\ FollowInv
    BY <1>1 DEF TopologyInv, HistoryInv, FollowInv
  <2> QED
    BY <2>1, <2>2, <2>3 DEF EpochInv
<1>4. HeadInv /\ ViewInv /\ RoomsFollow
  BY DEF HeadInv, ViewInv, Unbound, RoomsFollow
<1>5. NothingSkipped
  <2>1. ASSUME NEW m \in Messages PROVE Outcome(m, shown[m], changes) = latest[m]
    <3>1. ~Occurs(m, changes)
      BY DEF Occurs
    <3> QED
      BY <3>1, OutcomeNone
  <2> QED
    BY <2>1 DEF NothingSkipped
<1> QED
  BY <1>2, <1>3, <1>4, <1>5 DEF IInv

LEMMA NextKeeps == IInv /\ [Next]_vars => IInv'
<1> SUFFICES ASSUME IInv, [Next]_vars PROVE IInv'
  OBVIOUS
<1>1. CASE Next
  <2>1. Types /\ EpochInv /\ HeadInv /\ ViewInv /\ NothingSkipped /\ RoomsFollow
    BY DEF IInv
  <2>2. Types'
    <3>1. CASE Start \/ Crash \/ EpochStep \/ Resync \/ PeriodOver \/ EpochFails
      BY <2>1, <3>1, TypesEpoch DEF EpochInv
    <3>2. CASE \/ ThreemaStep \/ DeliveryProgress \/ DeliveryFails \/ HalfWay
               \/ \E c \in Chats : LiveStep(c)
      BY <2>1, <3>2, TypesLive
    <3> QED
      BY <1>1, <3>1, <3>2 DEF Next
  <2>3. EpochInv'
    BY <1>1, <2>1, WatchStep, PhaseStep, TopologyStep, HistoryStep, FollowStep DEF EpochInv
  <2>4. (HeadInv /\ NothingSkipped)' /\ (ViewInv /\ RoomsFollow)'
    BY <1>1, <2>1, SkipStep, ViewStep DEF EpochInv
  <2> QED
    BY <2>2, <2>3, <2>4 DEF IInv
<1>2. CASE UNCHANGED vars
  <2> USE <1>2 DEF vars, threemaVars, watchVars, runVars, stageVars, journalVars, deliveryVars,
                   matrixVars
  <2>1. Types'
    BY DEF IInv, Types, ThreemaTypes, WatchTypes, RunTypes, StageTypes, JournalTypes,
           DeliveryTypes, MatrixTypes
  <2>2. EpochInv'
    BY DEF IInv, EpochInv, WatchInv, PhaseInv, OfAttached, Empty, Expected, TopologyInv,
           HistoryInv, Reach, Unread, FollowInv, Follows, Staged, Seen, OnPage
  <2>3. (HeadInv /\ ViewInv /\ NothingSkipped /\ RoomsFollow)'
    BY DEF IInv, HeadInv, ViewInv, Current, Unbound, NothingSkipped, RoomsFollow, Here
  <2> QED
    BY <2>1, <2>2, <2>3 DEF IInv
<1> QED
  BY <1>1, <1>2

\* The inductive invariant of the synchronisation: the types, what every phase of an
\* epoch has (EpochInv), the head of the journal and the metadata of a delivery.
THEOREM SyncInvariance == Spec => []IInv
BY InitHolds, NextKeeps, PTL DEF Spec

\* With delivery enabled and every watch in place, what the journal recorded last and
\* what the watches still hold back make what Threema has (src/threema/profile-sync.ts):
\* the watches begin before the history is read, and the history is replayed before the
\* live messages that were staged.
THEOREM JournalHasWhatThreemaHas == Spec => []LiveRecorded
<1>1. IInv => LiveRecorded
  <2> SUFFICES ASSUME IInv PROVE LiveRecorded
    OBVIOUS
  <2>1. SyncTypeOK
    BY TypesSplit DEF IInv
  <2>2. ASSUME Ready, topoWatch = "on", \A c \in attached : watch[c] = "on"
        PROVE  /\ meta.list = topo /\ meta.dir = topo
               /\ \A m \in Messages : native[m] # 0 =>
                    Outcome(m, latest[m], events[ChatOf[m]]) = native[m]
    <3>1. pc \in Committed
      BY <2>2 DEF Ready, Committed
    <3>2. meta.list = topo /\ meta.dir = topo /\ listed = topo /\ attached = Expected
      BY <2>2, <3>1 DEF IInv, EpochInv, TopologyInv, PhaseInv
    <3>3. ASSUME NEW m \in Messages, native[m] # 0
          PROVE  Outcome(m, latest[m], events[ChatOf[m]]) = native[m]
      <4>1. ChatOf[m] \in Expected
        BY <3>2, <3>3, SyncAssumption DEF IInv, EpochInv, TopologyInv, Expected
      <4>2. watch[ChatOf[m]] = "on" /\ Follows(m)
        BY <2>2, <3>2, <4>1 DEF IInv, EpochInv, FollowInv
      <4> QED
        BY <3>1, <3>3, <4>2 DEF Follows
    <3> QED
      BY <3>2, <3>3
  <2> QED
    BY <2>1, <2>2 DEF LiveRecorded
<1> QED
  BY <1>1, SyncInvariance, PTL

\* What Matrix shows becomes what the journal recorded last when the changes it still
\* lists are applied (src/threema/message-journal.ts, src/matrix/journal-delivery.ts): no
\* crash, failed delivery or new epoch drops a change or passes one by.
THEOREM NoChangeSkipped == Spec => []NothingSkipped
<1>1. IInv => NothingSkipped
  BY DEF IInv
<1> QED
  BY <1>1, SyncInvariance, PTL

\* The bound rooms of chats that have messages have the name and members of the stored
\* epoch unless that waits to be applied (acknowledgeMetadata in
\* src/threema/message-journal.ts): an acknowledgement of metadata that an epoch replaced
\* meanwhile leaves the new metadata pending, and a message that makes a room, or brings
\* its members, does so with metadata that is current or pending again.
THEOREM RoomsFollowTheEpoch == Spec => []RoomsFollow
<1>1. IInv => RoomsFollow
  BY DEF IInv
<1> QED
  BY <1>1, SyncInvariance, PTL
=============================================================================
