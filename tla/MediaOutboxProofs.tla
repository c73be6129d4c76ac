-------------------------- MODULE MediaOutboxProofs --------------------------
(***************************************************************************)
(* The safety properties of MediaOutbox and its refinement of              *)
(* AtMostOnceDelivery, for any number of attachments, chats and            *)
(* identifiers.  One inductive invariant, MediaInv, carries all of them:   *)
(* EldersNative makes a permission to send lasting, although an uncertain  *)
(* or deferred row may be settled while a younger one is prepared, and     *)
(* CallOwned ties the thread's message to the one row that waits for it.   *)
(***************************************************************************)
EXTENDS MediaOutbox, TLAPS

(* A step of the dispatcher: the candidate's own row, quote and file change. *)
LEMMA PassPreservesInv ==
  ASSUME MediaInv, PassStep PROVE MediaInv'
<1> USE MediaAssumption
    DEF MediaTypeOK, Journal, HoldsFile, SlotsDistinct, QuoteHasRow, CandidateKnown, BeforeClaim,
         CleanupExcluded, SpoolAccounted, IdsApart, Attempted, SentIsNative, EldersNative,
         Before, Sending, CallOwned, Owned, QuoteFirst, MessagesOwned, MediaInv,
         rowVars, quoteVars, spoolVars, callVars, nativeVars
<1>1. CASE BeginPass
  BY <1>1 DEF BeginPass, Skipped
<1>2. CASE EndPass
  BY <1>2 DEF EndPass
<1>3. CASE FilePrepared
  BY <1>3 DEF FilePrepared
<1>4. CASE PrepareFails
  BY <1>4 DEF PrepareFails, SetAside, Deferred
<1>5. CASE LoseReady
  BY <1>5 DEF LoseReady
<1>6. CASE CheckFails
  BY <1>6 DEF CheckFails, SetAside, Deferred
<1>7. CASE NoQuoteToSend
  BY <1>7 DEF NoQuoteToSend, QuoteDone
<1>8. CASE QuoteUnsent
  BY <1>8 DEF QuoteUnsent, ReplyPrepared, SetAside, Deferred
<1>9. CASE SendQuote
  BY <1>9 DEF SendQuote, ClaimReply, ReplyPrepared, Post
<1>10. CASE QuoteReturns
  BY <1>10 DEF QuoteReturns, Returned, EndCall
<1>11. CASE QuoteFails
  BY <1>11 DEF QuoteFails, Refused, QuoteUnknown, SetAside, Deferred, EndCall
<1>12. CASE Claim
  BY <1>12 DEF Claim, NextFile, Eligible, Post
<1>13. CASE ProjectionFails
  BY <1>13 DEF ProjectionFails
<1>14. CASE ClaimDeclined
  BY <1>14 DEF ClaimDeclined
<1>15. CASE FileReturns
  BY <1>15 DEF FileReturns, Returned, EndCall
<1>16. CASE FileFails
  BY <1>16 DEF FileFails, Refused, FileUnknown, EndCall
<1>17. CASE Discard
  BY <1>17 DEF Discard
<1>18. ASSUME NEW r \in Requests, Pick(r) PROVE MediaInv'
  BY <1>18 DEF Pick, NextFile, Eligible, Unsettled
<1>q. QED
  BY <1>1, <1>2, <1>3, <1>4, <1>5, <1>6, <1>7, <1>8, <1>9, <1>10, <1>11, <1>12, <1>13,
     <1>14, <1>15, <1>16, <1>17, <1>18 DEF PassStep

(* A step of the backend thread, or of the two sides of the handshake. *)
LEMMA CallPreservesInv ==
  ASSUME MediaInv, CallStep PROVE MediaInv'
<1> USE MediaAssumption
    DEF MediaTypeOK, Journal, HoldsFile, SlotsDistinct, QuoteHasRow, CandidateKnown, BeforeClaim,
         CleanupExcluded, SpoolAccounted, IdsApart, Attempted, SentIsNative, EldersNative,
         Before, Sending, CallOwned, Owned, QuoteFirst, MessagesOwned, MediaInv,
         rowVars, quoteVars, spoolVars, callVars, nativeVars
<1>1. CASE Allocate
  BY <1>1 DEF Allocate, Awaited
<1>2. CASE RecordQuoteId
  BY <1>2 DEF RecordQuoteId, Awaited
<1>3. CASE RecordFileId
  BY <1>3 DEF RecordFileId, Awaited
<1>4. CASE NativeSend
  BY <1>4 DEF NativeSend, Granted
<1>5. CASE CallErrs
  BY <1>5 DEF CallErrs
<1>6. CASE BackendDies
  BY <1>6 DEF BackendDies
<1>7. CASE BackendTerminated
  BY <1>7 DEF BackendTerminated
<1>q. QED
  BY <1>1, <1>2, <1>3, <1>4, <1>5, <1>6, <1>7 DEF CallStep

(* Start and end of the process, the queue, evidence, and no step at all. *)
LEMMA RestPreservesInv ==
  ASSUME MediaInv, [Next]_vars, ~PassStep, ~CallStep PROVE MediaInv'
<1> USE MediaAssumption
    DEF MediaTypeOK, Journal, HoldsFile, SlotsDistinct, QuoteHasRow, CandidateKnown, BeforeClaim,
         CleanupExcluded, SpoolAccounted, IdsApart, Attempted, SentIsNative, EldersNative,
         Before, Sending, CallOwned, Owned, QuoteFirst, MessagesOwned, MediaInv,
         rowVars, quoteVars, spoolVars, callVars, nativeVars
<1>1. CASE Start
  BY <1>1 DEF Start, Recovered
<1>2. CASE Crash
  BY <1>2 DEF Crash
<1>3. CASE RetryPrepared
  BY <1>3 DEF RetryPrepared
<1>4. ASSUME NEW r \in Requests, Prepare(r) PROVE MediaInv'
  BY <1>4 DEF Prepare, Inserted
<1>5. ASSUME NEW r \in Requests, RetryDue(r) PROVE MediaInv'
  BY <1>5 DEF RetryDue
<1>6. ASSUME NEW r \in Requests, QuoteEcho(r) PROVE MediaInv'
  BY <1>6 DEF QuoteEcho, Confirmed
<1>7. ASSUME NEW r \in Requests, FileEcho(r) PROVE MediaInv'
  BY <1>7 DEF FileEcho, FileObserved
<1>8. ASSUME NEW i \in Ids, TransportAccepts(i) PROVE MediaInv'
  BY <1>8 DEF TransportAccepts
<1>9. CASE UNCHANGED vars
  BY <1>9 DEF vars
<1>q. QED
  BY <1>1, <1>2, <1>3, <1>4, <1>5, <1>6, <1>7, <1>8, <1>9 DEF Next

(* The invariant holds in every reachable state, whatever crashes, fails or
   arrives late. *)
THEOREM MediaInvariance == Spec => []MediaInv
<1>1. Init => MediaInv
  BY MediaAssumption
  DEF Init, MediaTypeOK, Journal, HoldsFile, SlotsDistinct, QuoteHasRow, CandidateKnown,
      BeforeClaim, CleanupExcluded, SpoolAccounted, IdsApart, Attempted, SentIsNative,
      EldersNative, Before, Sending, CallOwned, Owned, QuoteFirst, MessagesOwned, MediaInv
<1>2. MediaInv /\ [Next]_vars => MediaInv'
  BY PassPreservesInv, CallPreservesInv, RestPreservesInv
<1>3. QED
  BY <1>1, <1>2, PTL DEF Spec

(* Every variable keeps its type: no state the columns' CHECK would refuse. *)
THEOREM MediaTypeCorrect == Spec => []MediaTypeOK
<1>1. MediaInv => MediaTypeOK
  BY DEF MediaInv
<1>2. QED
  BY <1>1, MediaInvariance, PTL

(* An attachment that replies goes out behind its quote (media-reply.ts before
   claim in media-dispatcher.ts), restarts between the two included. *)
THEOREM QuotesComeFirst == Spec => []QuoteFirst
<1>1. MediaInv => QuoteFirst
  BY DEF MediaInv
<1>2. QED
  BY <1>1, MediaInvariance, PTL

(* Every message the dispatcher causes has its identifier on disk: recordIds and
   replyIds precede the send. *)
THEOREM MessagesHaveOwners == Spec => []MessagesOwned
<1>1. MediaInv => MessagesOwned
  BY DEF MediaInv
<1>2. QED
  BY <1>1, MediaInvariance, PTL

(* No file of the spool is forgotten or removed twice (the finally block of
   process and its cleanup map). *)
THEOREM SpoolNeverLeaks == Spec => []SpoolAccounted
<1>1. MediaInv => SpoolAccounted
  BY DEF MediaInv
<1>2. QED
  BY <1>1, MediaInvariance, PTL

-----------------------------------------------------------------------------
(* What either half of the outbox shows of itself. *)
Stored == {r \in Requests : state[r] # "absent"}
FilesIn(ids) == {r \in Requests : part[r] \in ids}
QuotesIn(ids) == {r \in Requests : quoteId[r] \in ids}

(* A message appears behind everything of its half and chat that is there:
   what is younger was begun when this one's row was settled already. *)
LEMMA DeliveredLast ==
  ASSUME MediaInv, NEW r \in Requests, NEW s \in Requests, r # s,
         ChatOf[r] = ChatOf[s],
         \/ part[r] # None /\ part[r] \notin native /\ part[s] \in native
         \/ quoteId[r] # None /\ quoteId[r] \notin native /\ quoteId[s] \in native
  PROVE  slot[s] < slot[r]
<1>1. slot[r] \in Nat \ {0} /\ slot[s] \in Nat \ {0} /\ slot[r] # slot[s]
  BY MediaAssumption
  DEF MediaInv, MediaTypeOK, SlotsDistinct, IdsApart, QuoteHasRow, Attempted
<1>2. Sending(s)
  BY MediaAssumption DEF MediaInv, MediaTypeOK, IdsApart, Sending
<1>3. CASE slot[r] < slot[s]
  <2>1. part[r] \in native
    BY <1>1, <1>2, <1>3 DEF MediaInv, EldersNative, Before
  <2>2. quoteId[r] # None => quoteId[r] \in native
    BY <2>1, MediaAssumption
    DEF MediaInv, MediaTypeOK, IdsApart, QuoteHasRow, QuoteFirst, Attempted
  <2>3. QED
    BY <2>1, <2>2
<1>4. QED
  BY <1>1, <1>3

(* A step of the dispatcher shows nothing outside: it moves rows that are stored,
   and no message. *)
LEMMA PassHidden ==
  ASSUME MediaInv, PassStep PROVE UNCHANGED AbsFiles!vars /\ UNCHANGED AbsQuotes!vars
<1>1. Stored' = Stored /\ UNCHANGED <<slot, part, quoteId, native, observed>>
  BY MediaAssumption
  DEF PassStep, BeginPass, EndPass, FilePrepared, PrepareFails, LoseReady, CheckFails,
      NoQuoteToSend, QuoteUnsent, SendQuote, ClaimReply, ReplyPrepared, QuoteReturns, QuoteFails, Claim,
      ProjectionFails, ClaimDeclined, FileReturns, FileFails, FileUnknown, Discard, Pick,
      Stored, rowVars, quoteVars, spoolVars, callVars, nativeVars, SetAside, Post,
      MediaInv, MediaTypeOK, CandidateKnown, BeforeClaim, HoldsFile
<1>2. QED
  BY <1>1 DEF AbsFiles!vars, AbsQuotes!vars, Stored

(* The files implement AtMostOnceDelivery, step by step. *)
LEMMA FilesStep ==
  ASSUME MediaInv, [Next]_vars PROVE [AbsFiles!Next]_AbsFiles!vars
<1> USE MediaAssumption DEF MediaInv, MediaTypeOK
<1>1. CASE PassStep
  BY <1>1, PassHidden
<1>2. CASE NativeSend
  <2>1. CASE \E r \in Requests : part[r] = callId /\ call = "recorded"
    <3>1. PICK r \in Requests : part[r] = callId /\ call = "recorded"
      BY <2>1
    <3>2. callId \in Ids \ native
      BY <3>1 DEF CallOwned
    <3>3. FilesIn(native)' = FilesIn(native) \cup {r}
      BY <1>2, <3>1, <3>2 DEF NativeSend, FilesIn, IdsApart, quoteVars
    <3>4. r \in Stored \ FilesIn(native)
      BY <3>1, <3>2 DEF Stored, FilesIn, IdsApart, QuoteHasRow, Attempted
    <3>5. \A s \in FilesIn(native) : AbsFiles!SameChat(r, s) => slot[s] < slot[r]
      BY <3>1, <3>2, DeliveredLast DEF AbsFiles!SameChat, FilesIn
    <3>6. UNCHANGED <<state, slot, part, quoteId, observed>>
      BY <1>2 DEF NativeSend, rowVars, quoteVars
    <3>7. AbsFiles!Deliver(r)
      BY <3>3, <3>4, <3>5, <3>6 DEF AbsFiles!Deliver, Stored, FilesIn
    <3>8. QED
      BY <3>7 DEF AbsFiles!Next
  <2>2. CASE \A r \in Requests : part[r] # callId
    BY <1>2, <2>2 DEF NativeSend, AbsFiles!vars, rowVars, quoteVars
  <2>3. QED
    BY <1>2, <2>1, <2>2 DEF NativeSend, Granted
<1>3. CASE RecordFileId
  BY <1>3 DEF RecordFileId, AbsFiles!vars, CallOwned, SentIsNative, CandidateKnown,
      Awaited, rowVars, quoteVars, nativeVars
<1>4. CASE CallStep /\ ~NativeSend /\ ~RecordFileId
  BY <1>4 DEF CallStep, Allocate, RecordQuoteId, RecordFileId, CallErrs, BackendDies,
      BackendTerminated, AbsFiles!vars, rowVars, quoteVars, nativeVars
<1>5. ASSUME NEW r \in Requests, Prepare(r) PROVE AbsFiles!Next
  <2>1. AbsFiles!Accept(r)
    BY <1>5 DEF Prepare, Inserted, AbsFiles!Accept, SlotsDistinct, quoteVars, nativeVars
  <2>2. QED
    BY <2>1 DEF AbsFiles!Next
<1>6. ASSUME NEW r \in Requests, FileEcho(r) PROVE [AbsFiles!Next]_AbsFiles!vars
  <2>1. FilesIn(observed)' = FilesIn(observed) \cup {r} /\ Stored' = Stored
    BY <1>6 DEF FileEcho, FileObserved, FilesIn, Stored, IdsApart, SentIsNative, Attempted
  <2>2. r \in FilesIn(native)
    BY <1>6 DEF FileEcho, FileObserved, FilesIn, SentIsNative
  <2>3. UNCHANGED <<slot, part, quoteId, native>>
    BY <1>6 DEF FileEcho, FileObserved, rowVars, quoteVars, nativeVars
  <2>4. CASE r \in FilesIn(observed)
    BY <2>1, <2>3, <2>4 DEF AbsFiles!vars, FilesIn, Stored
  <2>5. CASE r \notin FilesIn(observed)
    BY <2>1, <2>2, <2>3, <2>5 DEF AbsFiles!Next, AbsFiles!Confirm, FilesIn, Stored
  <2>6. QED
    BY <2>4, <2>5
<1>7. ASSUME NEW r \in Requests, QuoteEcho(r) PROVE UNCHANGED AbsFiles!vars
  BY <1>7 DEF QuoteEcho, AbsFiles!vars, IdsApart, SentIsNative, Attempted,
      rowVars, quoteVars, nativeVars
<1>8. ASSUME NEW r \in Requests, RetryDue(r) PROVE UNCHANGED AbsFiles!vars
  BY <1>8 DEF RetryDue, AbsFiles!vars, quoteVars, nativeVars
<1>9. ASSUME NEW i \in Ids, TransportAccepts(i) PROVE UNCHANGED AbsFiles!vars
  BY <1>9 DEF TransportAccepts, AbsFiles!vars, rowVars, quoteVars
<1>10. CASE Start
  BY <1>10 DEF Start, Recovered, AbsFiles!vars, nativeVars
<1>11. CASE Crash \/ RetryPrepared
  BY <1>11 DEF Crash, RetryPrepared, AbsFiles!vars, rowVars, quoteVars, nativeVars
<1>12. CASE UNCHANGED vars
  BY <1>12 DEF vars, AbsFiles!vars, rowVars, quoteVars, nativeVars
<1>q. QED
  BY <1>1, <1>2, <1>3, <1>4, <1>5, <1>6, <1>7, <1>8, <1>9, <1>10, <1>11, <1>12
  DEF Next, CallStep

(* The quotes implement AtMostOnceDelivery, step by step. *)
LEMMA QuotesStep ==
  ASSUME MediaInv, [Next]_vars PROVE [AbsQuotes!Next]_AbsQuotes!vars
<1> USE MediaAssumption DEF MediaInv, MediaTypeOK
<1>1. CASE PassStep
  BY <1>1, PassHidden
<1>2. CASE NativeSend
  <2>1. CASE \E r \in Requests : quoteId[r] = callId /\ call = "recorded"
    <3>1. PICK r \in Requests : quoteId[r] = callId /\ call = "recorded"
      BY <2>1
    <3>2. callId \in Ids \ native
      BY <3>1 DEF CallOwned
    <3>3. QuotesIn(native)' = QuotesIn(native) \cup {r}
      BY <1>2, <3>1, <3>2 DEF NativeSend, QuotesIn, IdsApart, quoteVars
    <3>4. r \in Stored \ QuotesIn(native)
      BY <3>1, <3>2 DEF Stored, QuotesIn, IdsApart, QuoteHasRow, Attempted
    <3>5. \A s \in QuotesIn(native) : AbsQuotes!SameChat(r, s) => slot[s] < slot[r]
      BY <3>1, <3>2, DeliveredLast DEF AbsQuotes!SameChat, QuotesIn
    <3>6. UNCHANGED <<state, slot, part, quoteId, observed>>
      BY <1>2 DEF NativeSend, rowVars, quoteVars
    <3>7. AbsQuotes!Deliver(r)
      BY <3>3, <3>4, <3>5, <3>6 DEF AbsQuotes!Deliver, Stored, QuotesIn
    <3>8. QED
      BY <3>7 DEF AbsQuotes!Next
  <2>2. CASE \A r \in Requests : quoteId[r] # callId
    BY <1>2, <2>2 DEF NativeSend, AbsQuotes!vars, rowVars, quoteVars
  <2>3. QED
    BY <1>2, <2>1, <2>2 DEF NativeSend, Granted
<1>3. CASE RecordQuoteId
  BY <1>3 DEF RecordQuoteId, AbsQuotes!vars, CallOwned, SentIsNative, CandidateKnown,
      Awaited, rowVars, quoteVars, nativeVars
<1>4. CASE CallStep /\ ~NativeSend /\ ~RecordQuoteId
  BY <1>4 DEF CallStep, Allocate, RecordQuoteId, RecordFileId, CallErrs, BackendDies,
      BackendTerminated, AbsQuotes!vars, rowVars, quoteVars, nativeVars
<1>5. ASSUME NEW r \in Requests, Prepare(r) PROVE AbsQuotes!Next
  <2>1. AbsQuotes!Accept(r)
    BY <1>5 DEF Prepare, Inserted, AbsQuotes!Accept, SlotsDistinct, quoteVars, nativeVars
  <2>2. QED
    BY <2>1 DEF AbsQuotes!Next
<1>6. ASSUME NEW r \in Requests, QuoteEcho(r) PROVE [AbsQuotes!Next]_AbsQuotes!vars
  <2>1. QuotesIn(observed)' = QuotesIn(observed) \cup {r} /\ Stored' = Stored
    BY <1>6 DEF QuoteEcho, QuotesIn, Stored, IdsApart, SentIsNative, rowVars
  <2>2. r \in QuotesIn(native)
    BY <1>6 DEF QuoteEcho, QuotesIn, SentIsNative
  <2>3. UNCHANGED <<slot, part, quoteId, native>>
    BY <1>6 DEF QuoteEcho, rowVars, quoteVars, nativeVars
  <2>4. CASE r \in QuotesIn(observed)
    BY <2>1, <2>3, <2>4 DEF AbsQuotes!vars, QuotesIn, Stored
  <2>5. CASE r \notin QuotesIn(observed)
    BY <2>1, <2>2, <2>3, <2>5 DEF AbsQuotes!Next, AbsQuotes!Confirm, QuotesIn, Stored
  <2>6. QED
    BY <2>4, <2>5
<1>7. ASSUME NEW r \in Requests, FileEcho(r) PROVE UNCHANGED AbsQuotes!vars
  BY <1>7 DEF FileEcho, FileObserved, AbsQuotes!vars, IdsApart, SentIsNative, Attempted,
      rowVars, quoteVars, nativeVars
<1>8. ASSUME NEW r \in Requests, RetryDue(r) PROVE UNCHANGED AbsQuotes!vars
  BY <1>8 DEF RetryDue, AbsQuotes!vars, quoteVars, nativeVars
<1>9. ASSUME NEW i \in Ids, TransportAccepts(i) PROVE UNCHANGED AbsQuotes!vars
  BY <1>9 DEF TransportAccepts, AbsQuotes!vars, rowVars, quoteVars
<1>10. CASE Start
  BY <1>10 DEF Start, Recovered, AbsQuotes!vars, nativeVars
<1>11. CASE Crash \/ RetryPrepared
  BY <1>11 DEF Crash, RetryPrepared, AbsQuotes!vars, rowVars, quoteVars, nativeVars
<1>12. CASE UNCHANGED vars
  BY <1>12 DEF vars, AbsQuotes!vars, rowVars, quoteVars, nativeVars
<1>q. QED
  BY <1>1, <1>2, <1>3, <1>4, <1>5, <1>6, <1>7, <1>8, <1>9, <1>10, <1>11, <1>12
  DEF Next, CallStep

(* Attachments and quotes each implement AtMostOnceDelivery: one message at
   most per request, behind its elders, and confirmed only when it exists. *)
THEOREM MediaRefinement == Spec => DeliversInOrder
<1>1. Init => AbsFiles!Init /\ AbsQuotes!Init
  BY MediaAssumption DEF Init, AbsFiles!Init, AbsQuotes!Init
<1>2. MediaInv /\ [Next]_vars
        => [AbsFiles!Next]_AbsFiles!vars /\ [AbsQuotes!Next]_AbsQuotes!vars
  BY FilesStep, QuotesStep
<1>3. QED
  BY <1>1, <1>2, MediaInvariance, PTL
  DEF Spec, DeliversInOrder, AbsFiles!Spec, AbsQuotes!Spec
=============================================================================
