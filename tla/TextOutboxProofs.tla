-------------------------- MODULE TextOutboxProofs --------------------------
(***************************************************************************)
(* Proofs about the text outbox, for any requests, chats and identifiers.  *)
(* One lemma per part of the inductive invariant IInv says that every step *)
(* keeps it, assuming only the parts it depends on; Invariance puts them   *)
(* together.  The safety properties, the action properties and the         *)
(* refinement of AtMostOnceDelivery follow.                                *)
(***************************************************************************)
EXTENDS TextOutbox, TLAPS

\* Frames of UNCHANGED and the two small sets are expanded everywhere.
USE DEF storeVars, loopVars, callVars, nativeVars, journalVars, Attempted

\* Every step keeps the type invariant.
LEMMA TypeStep ==
  ASSUME TypeOK, LoopHasRow, [Next]_vars
  PROVE  TypeOK'
<1>1. CASE Start
  BY <1>1 DEF Start, TypeOK, LoopHasRow, States, Snapshots, Recovered,
     Interrupted
<1>2. CASE EndDrain
  BY <1>2 DEF EndDrain, TypeOK, LoopHasRow, States, Snapshots
<1>3. CASE BeginCheck
  BY <1>3 DEF BeginCheck, TypeOK, LoopHasRow, States, Snapshots, NextPrepared,
     Eligible
<1>4. CASE CheckFails
  BY <1>4 DEF CheckFails, TypeOK, LoopHasRow, States, Snapshots
<1>5. CASE Claim
  BY <1>5 DEF Claim, TypeOK, LoopHasRow, States, Snapshots
<1>6. CASE Decline
  BY <1>6 DEF Decline, TypeOK, LoopHasRow, States, Snapshots
<1>7. CASE EndPass
  BY <1>7 DEF EndPass, TypeOK, LoopHasRow, States, Snapshots
<1>8. CASE Stop
  BY <1>8 DEF Stop, TypeOK, LoopHasRow, States, Snapshots
<1>9. CASE LoopExit
  BY <1>9 DEF LoopExit, TypeOK, LoopHasRow, States, Snapshots
<1>10. CASE RetryPrepared
  BY <1>10 DEF RetryPrepared, TypeOK, LoopHasRow, States, Snapshots
<1>11. ASSUME NEW r \in Requests, Prepare(r) PROVE TypeOK'
  BY <1>11 DEF Prepare, TypeOK, LoopHasRow, States, Snapshots
<1>12. ASSUME NEW r \in Requests, RejectEvent(r) PROVE TypeOK'
  BY <1>12 DEF RejectEvent, TypeOK, LoopHasRow, States, Snapshots
<1>13. ASSUME NEW r \in Requests, RetryDue(r) PROVE TypeOK'
  BY <1>13 DEF RetryDue, TypeOK, LoopHasRow, States, Snapshots
<1>14. CASE Allocate
  BY <1>14 DEF Allocate, TypeOK, LoopHasRow, States, Snapshots, Awaited
<1>15. CASE RecordIds
  BY <1>15 DEF RecordIds, TypeOK, LoopHasRow, States, Snapshots
<1>16. CASE RefuseIds
  BY <1>16 DEF RefuseIds, TypeOK, LoopHasRow, States, Snapshots
<1>17. CASE ReceiveCommit
  BY <1>17 DEF ReceiveCommit, TypeOK, LoopHasRow, States, Snapshots
<1>18. CASE CallErrs
  BY <1>18 DEF CallErrs, TypeOK, LoopHasRow, States, Snapshots
<1>19. CASE NativeSend
  BY <1>19 DEF NativeSend, TypeOK, LoopHasRow, States, Snapshots
<1>20. CASE CallReturns
  BY <1>20 DEF CallReturns, TypeOK, LoopHasRow, States, Snapshots, Settled,
     Awaited
<1>21. CASE CallRejected
  BY <1>21 DEF CallRejected, TypeOK, LoopHasRow, States, Snapshots,
     MarkedUnknown
<1>22. CASE BackendDies
  BY <1>22 DEF BackendDies, TypeOK, LoopHasRow, States, Snapshots,
     MarkedUnknown
<1>23. CASE BackendTerminated
  BY <1>23 DEF BackendTerminated, TypeOK, LoopHasRow, States, Snapshots
<1>24. CASE Crash
  BY <1>24 DEF Crash, TypeOK, LoopHasRow, States, Snapshots
<1>25. ASSUME NEW i \in Ids, ForeignMessage(i) PROVE TypeOK'
  BY <1>25 DEF ForeignMessage, TypeOK, LoopHasRow, States, Snapshots
<1>26. ASSUME NEW i \in Ids, TransportAccepts(i) PROVE TypeOK'
  BY <1>26 DEF TransportAccepts, TypeOK, LoopHasRow, States, Snapshots
<1>27. ASSUME NEW i \in Ids, JournalUpsert(i) PROVE TypeOK'
  BY <1>27 DEF JournalUpsert, TypeOK, LoopHasRow, States, Snapshots, Snapshot
<1>28. ASSUME NEW i \in Ids, RetainedConfirm(i) PROVE TypeOK'
  BY <1>28 DEF RetainedConfirm, TypeOK, LoopHasRow, States, Snapshots, Observe
<1>29. ASSUME NEW i \in Ids, NEW e \in Snapshots, EchoObserve(i, e)
       PROVE  TypeOK'
  BY <1>29 DEF EchoObserve, TypeOK, LoopHasRow, States, Snapshots, Observe
<1>30. ASSUME NEW i \in Ids, NEW e \in Snapshots, ProjectForeign(i, e)
       PROVE  TypeOK'
  BY <1>30 DEF ProjectForeign, TypeOK, LoopHasRow, States, Snapshots
<1>31. CASE UNCHANGED vars
  BY <1>31 DEF vars, TypeOK, LoopHasRow, States, Snapshots
<1>q. QED
  BY <1>1, <1>2, <1>3, <1>4, <1>5, <1>6, <1>7, <1>8, <1>9, <1>10, <1>11,
     <1>12, <1>13, <1>14, <1>15, <1>16, <1>17, <1>18, <1>19, <1>20, <1>21,
     <1>22, <1>23, <1>24, <1>25, <1>26, <1>27, <1>28, <1>29, <1>30, <1>31
  DEF Next, LoopStep, CallStep, EvidenceStep

\* Every step keeps slots positive, distinct and below the counter.
LEMMA SlotStep ==
  ASSUME TypeOK, LoopHasRow, PartsOwned, SlotsDistinct, [Next]_vars
  PROVE  SlotsDistinct'
<1>1. CASE Start
  BY <1>1 DEF Start, SlotsDistinct, LoopHasRow, PartsOwned, TypeOK, States,
     Snapshots, Recovered, Interrupted
<1>2. CASE EndDrain
  <2>1. PICK f \in [Requests -> 0..lastSlot] : Reordered(f) /\ slot' = f
    BY <1>2 DEF EndDrain
  <2>2. \A r \in Requests : state[r] = "PREPARED" =>
          \E s \in Requests : /\ state[s] = "PREPARED" /\ ChatOf[s] = ChatOf[r]
                              /\ f[r] = slot[s]
    BY <2>1, ConstantsAssumption DEF Reordered, Waiting, Movable
  <2>3. \A r \in Requests : state[r] # "PREPARED" => f[r] = slot[r]
    BY <2>1 DEF Reordered, Movable
  <2>4. ASSUME NEW r \in Requests, NEW s \in Requests, r # s,
               state[r] = "PREPARED", state[s] = "PREPARED", ChatOf[r] = ChatOf[s]
        PROVE  f[r] # f[s]
    <3>1. ChatOf[r] \in Chats
      BY ConstantsAssumption
    <3>2. r \in Waiting(ChatOf[r]) /\ s \in Waiting(ChatOf[r])
      BY <2>4 DEF Waiting, Movable
    <3>q. QED
      BY <2>1, <2>4, <3>1, <3>2 DEF Reordered
  <2>5. \A r \in Requests : (state[r] = "absent" <=> f[r] = 0) /\ f[r] <= lastSlot
    BY <2>1, <2>2, <2>3 DEF SlotsDistinct, TypeOK
  <2>6. ASSUME NEW r \in Requests, NEW s \in Requests, f[r] = f[s], f[r] # 0
        PROVE  r = s
    BY <2>2, <2>3, <2>4, <2>6 DEF SlotsDistinct, TypeOK
  <2>q. QED
    BY <1>2, <2>1, <2>5, <2>6 DEF EndDrain, SlotsDistinct
<1>3. CASE BeginCheck
  BY <1>3 DEF BeginCheck, SlotsDistinct, LoopHasRow, PartsOwned, TypeOK,
     States, Snapshots, NextPrepared, Eligible
<1>4. CASE CheckFails
  BY <1>4 DEF CheckFails, SlotsDistinct, LoopHasRow, PartsOwned, TypeOK,
     States, Snapshots
<1>5. CASE Claim
  BY <1>5 DEF Claim, SlotsDistinct, LoopHasRow, PartsOwned, TypeOK, States,
     Snapshots, StillNext, NextPrepared, Eligible
<1>6. CASE Decline
  BY <1>6 DEF Decline, SlotsDistinct, LoopHasRow, PartsOwned, TypeOK, States,
     Snapshots
<1>7. CASE EndPass
  BY <1>7 DEF EndPass, SlotsDistinct, LoopHasRow, PartsOwned, TypeOK, States,
     Snapshots
<1>8. CASE Stop
  BY <1>8 DEF Stop, SlotsDistinct, LoopHasRow, PartsOwned, TypeOK, States,
     Snapshots
<1>9. CASE LoopExit
  BY <1>9 DEF LoopExit, SlotsDistinct, LoopHasRow, PartsOwned, TypeOK, States,
     Snapshots
<1>10. CASE RetryPrepared
  BY <1>10 DEF RetryPrepared, SlotsDistinct, LoopHasRow, PartsOwned, TypeOK,
     States, Snapshots
<1>11. ASSUME NEW r \in Requests, Prepare(r) PROVE SlotsDistinct'
  BY <1>11 DEF Prepare, SlotsDistinct, LoopHasRow, PartsOwned, TypeOK, States,
     Snapshots, Acceptable
<1>12. ASSUME NEW r \in Requests, RejectEvent(r) PROVE SlotsDistinct'
  BY <1>12 DEF RejectEvent, SlotsDistinct, LoopHasRow, PartsOwned, TypeOK,
     States, Snapshots
<1>13. ASSUME NEW r \in Requests, RetryDue(r) PROVE SlotsDistinct'
  BY <1>13 DEF RetryDue, SlotsDistinct, LoopHasRow, PartsOwned, TypeOK,
     States, Snapshots
<1>14. CASE Allocate
  BY <1>14 DEF Allocate, SlotsDistinct, LoopHasRow, PartsOwned, TypeOK,
     States, Snapshots, Awaited
<1>15. CASE RecordIds
  BY <1>15 DEF RecordIds, SlotsDistinct, LoopHasRow, PartsOwned, TypeOK,
     States, Snapshots
<1>16. CASE RefuseIds
  BY <1>16 DEF RefuseIds, SlotsDistinct, LoopHasRow, PartsOwned, TypeOK,
     States, Snapshots
<1>17. CASE ReceiveCommit
  BY <1>17 DEF ReceiveCommit, SlotsDistinct, LoopHasRow, PartsOwned, TypeOK,
     States, Snapshots
<1>18. CASE CallErrs
  BY <1>18 DEF CallErrs, SlotsDistinct, LoopHasRow, PartsOwned, TypeOK,
     States, Snapshots
<1>19. CASE NativeSend
  BY <1>19 DEF NativeSend, SlotsDistinct, LoopHasRow, PartsOwned, TypeOK,
     States, Snapshots
<1>20. CASE CallReturns
  BY <1>20 DEF CallReturns, SlotsDistinct, LoopHasRow, PartsOwned, TypeOK,
     States, Snapshots, Settled, Awaited
<1>21. CASE CallRejected
  BY <1>21 DEF CallRejected, SlotsDistinct, LoopHasRow, PartsOwned, TypeOK,
     States, Snapshots, MarkedUnknown
<1>22. CASE BackendDies
  BY <1>22 DEF BackendDies, SlotsDistinct, LoopHasRow, PartsOwned, TypeOK,
     States, Snapshots, MarkedUnknown
<1>23. CASE BackendTerminated
  BY <1>23 DEF BackendTerminated, SlotsDistinct, LoopHasRow, PartsOwned,
     TypeOK, States, Snapshots
<1>24. CASE Crash
  BY <1>24 DEF Crash, SlotsDistinct, LoopHasRow, PartsOwned, TypeOK, States,
     Snapshots
<1>25. ASSUME NEW i \in Ids, ForeignMessage(i) PROVE SlotsDistinct'
  BY <1>25 DEF ForeignMessage, SlotsDistinct, LoopHasRow, PartsOwned, TypeOK,
     States, Snapshots
<1>26. ASSUME NEW i \in Ids, TransportAccepts(i) PROVE SlotsDistinct'
  BY <1>26 DEF TransportAccepts, SlotsDistinct, LoopHasRow, PartsOwned,
     TypeOK, States, Snapshots
<1>27. ASSUME NEW i \in Ids, JournalUpsert(i) PROVE SlotsDistinct'
  BY <1>27 DEF JournalUpsert, SlotsDistinct, LoopHasRow, PartsOwned, TypeOK,
     States, Snapshots, Snapshot
<1>28. ASSUME NEW i \in Ids, RetainedConfirm(i) PROVE SlotsDistinct'
  BY <1>28 DEF RetainedConfirm, SlotsDistinct, LoopHasRow, PartsOwned, TypeOK,
     States, Snapshots, Observe
<1>29. ASSUME NEW i \in Ids, NEW e \in Snapshots, EchoObserve(i, e)
       PROVE  SlotsDistinct'
  BY <1>29 DEF EchoObserve, SlotsDistinct, LoopHasRow, PartsOwned, TypeOK,
     States, Snapshots, Observe
<1>30. ASSUME NEW i \in Ids, NEW e \in Snapshots, ProjectForeign(i, e)
       PROVE  SlotsDistinct'
  BY <1>30 DEF ProjectForeign, SlotsDistinct, LoopHasRow, PartsOwned, TypeOK,
     States, Snapshots
<1>31. CASE UNCHANGED vars
  BY <1>31 DEF vars, SlotsDistinct, LoopHasRow, PartsOwned, TypeOK, States,
     Snapshots
<1>q. QED
  BY <1>1, <1>2, <1>3, <1>4, <1>5, <1>6, <1>7, <1>8, <1>9, <1>10, <1>11,
     <1>12, <1>13, <1>14, <1>15, <1>16, <1>17, <1>18, <1>19, <1>20, <1>21,
     <1>22, <1>23, <1>24, <1>25, <1>26, <1>27, <1>28, <1>29, <1>30, <1>31
  DEF Next, LoopStep, CallStep, EvidenceStep

\* Every step keeps the loop on its row, and a request with the backend once.
LEMMA LoopStepKeeps ==
  ASSUME TypeOK, PartsOwned, LoopHasRow, NoOrphanClaim, AtMostOnce, [Next]_vars
  PROVE  (LoopHasRow /\ NoOrphanClaim /\ AtMostOnce)'
<1>1. CASE Start
  BY <1>1, ConstantsAssumption DEF Start, PartsOwned, LoopHasRow,
     NoOrphanClaim, AtMostOnce, TypeOK, States, Snapshots, Recovered,
     Interrupted
<1>2. CASE EndDrain
  BY <1>2, ConstantsAssumption DEF EndDrain, PartsOwned, LoopHasRow,
     NoOrphanClaim, AtMostOnce, TypeOK, States, Snapshots
<1>3. CASE BeginCheck
  BY <1>3, ConstantsAssumption DEF BeginCheck, PartsOwned, LoopHasRow,
     NoOrphanClaim, AtMostOnce, TypeOK, States, Snapshots, NextPrepared,
     Eligible
<1>4. CASE CheckFails
  BY <1>4, ConstantsAssumption DEF CheckFails, PartsOwned, LoopHasRow,
     NoOrphanClaim, AtMostOnce, TypeOK, States, Snapshots
<1>5. CASE Claim
  BY <1>5, ConstantsAssumption DEF Claim, PartsOwned, LoopHasRow,
     NoOrphanClaim, AtMostOnce, TypeOK, States, Snapshots, StillNext,
     NextPrepared, Eligible
<1>6. CASE Decline
  BY <1>6, ConstantsAssumption DEF Decline, PartsOwned, LoopHasRow,
     NoOrphanClaim, AtMostOnce, TypeOK, States, Snapshots
<1>7. CASE EndPass
  BY <1>7, ConstantsAssumption DEF EndPass, PartsOwned, LoopHasRow,
     NoOrphanClaim, AtMostOnce, TypeOK, States, Snapshots
<1>8. CASE Stop
  BY <1>8, ConstantsAssumption DEF Stop, PartsOwned, LoopHasRow,
     NoOrphanClaim, AtMostOnce, TypeOK, States, Snapshots
<1>9. CASE LoopExit
  BY <1>9, ConstantsAssumption DEF LoopExit, PartsOwned, LoopHasRow,
     NoOrphanClaim, AtMostOnce, TypeOK, States, Snapshots
<1>10. CASE RetryPrepared
  BY <1>10, ConstantsAssumption DEF RetryPrepared, PartsOwned, LoopHasRow,
     NoOrphanClaim, AtMostOnce, TypeOK, States, Snapshots
<1>11. ASSUME NEW r \in Requests, Prepare(r) PROVE (LoopHasRow /\ NoOrphanClaim /\ AtMostOnce)'
  BY <1>11, ConstantsAssumption DEF Prepare, PartsOwned, LoopHasRow,
     NoOrphanClaim, AtMostOnce, TypeOK, States, Snapshots, Acceptable
<1>12. ASSUME NEW r \in Requests, RejectEvent(r) PROVE (LoopHasRow /\ NoOrphanClaim /\ AtMostOnce)'
  BY <1>12, ConstantsAssumption DEF RejectEvent, PartsOwned, LoopHasRow,
     NoOrphanClaim, AtMostOnce, TypeOK, States, Snapshots
<1>13. ASSUME NEW r \in Requests, RetryDue(r) PROVE (LoopHasRow /\ NoOrphanClaim /\ AtMostOnce)'
  BY <1>13, ConstantsAssumption DEF RetryDue, PartsOwned, LoopHasRow,
     NoOrphanClaim, AtMostOnce, TypeOK, States, Snapshots
<1>14. CASE Allocate
  BY <1>14, ConstantsAssumption DEF Allocate, PartsOwned, LoopHasRow,
     NoOrphanClaim, AtMostOnce, TypeOK, States, Snapshots, Awaited
<1>15. CASE RecordIds
  BY <1>15, ConstantsAssumption DEF RecordIds, PartsOwned, LoopHasRow,
     NoOrphanClaim, AtMostOnce, TypeOK, States, Snapshots
<1>16. CASE RefuseIds
  BY <1>16, ConstantsAssumption DEF RefuseIds, PartsOwned, LoopHasRow,
     NoOrphanClaim, AtMostOnce, TypeOK, States, Snapshots
<1>17. CASE ReceiveCommit
  BY <1>17, ConstantsAssumption DEF ReceiveCommit, PartsOwned, LoopHasRow,
     NoOrphanClaim, AtMostOnce, TypeOK, States, Snapshots
<1>18. CASE CallErrs
  BY <1>18, ConstantsAssumption DEF CallErrs, PartsOwned, LoopHasRow,
     NoOrphanClaim, AtMostOnce, TypeOK, States, Snapshots
<1>19. CASE NativeSend
  BY <1>19, ConstantsAssumption DEF NativeSend, PartsOwned, LoopHasRow,
     NoOrphanClaim, AtMostOnce, TypeOK, States, Snapshots
<1>20. CASE CallReturns
  BY <1>20, ConstantsAssumption DEF CallReturns, PartsOwned, LoopHasRow,
     NoOrphanClaim, AtMostOnce, TypeOK, States, Snapshots, Settled, Awaited
<1>21. CASE CallRejected
  BY <1>21, ConstantsAssumption DEF CallRejected, PartsOwned, LoopHasRow,
     NoOrphanClaim, AtMostOnce, TypeOK, States, Snapshots, MarkedUnknown
<1>22. CASE BackendDies
  BY <1>22, ConstantsAssumption DEF BackendDies, PartsOwned, LoopHasRow,
     NoOrphanClaim, AtMostOnce, TypeOK, States, Snapshots, MarkedUnknown
<1>23. CASE BackendTerminated
  BY <1>23, ConstantsAssumption DEF BackendTerminated, PartsOwned, LoopHasRow,
     NoOrphanClaim, AtMostOnce, TypeOK, States, Snapshots
<1>24. CASE Crash
  BY <1>24, ConstantsAssumption DEF Crash, PartsOwned, LoopHasRow,
     NoOrphanClaim, AtMostOnce, TypeOK, States, Snapshots
<1>25. ASSUME NEW i \in Ids, ForeignMessage(i) PROVE (LoopHasRow /\ NoOrphanClaim /\ AtMostOnce)'
  BY <1>25, ConstantsAssumption DEF ForeignMessage, PartsOwned, LoopHasRow,
     NoOrphanClaim, AtMostOnce, TypeOK, States, Snapshots
<1>26. ASSUME NEW i \in Ids, TransportAccepts(i) PROVE (LoopHasRow /\ NoOrphanClaim /\ AtMostOnce)'
  BY <1>26, ConstantsAssumption DEF TransportAccepts, PartsOwned, LoopHasRow,
     NoOrphanClaim, AtMostOnce, TypeOK, States, Snapshots
<1>27. ASSUME NEW i \in Ids, JournalUpsert(i) PROVE (LoopHasRow /\ NoOrphanClaim /\ AtMostOnce)'
  BY <1>27, ConstantsAssumption DEF JournalUpsert, PartsOwned, LoopHasRow,
     NoOrphanClaim, AtMostOnce, TypeOK, States, Snapshots, Snapshot
<1>28. ASSUME NEW i \in Ids, RetainedConfirm(i) PROVE (LoopHasRow /\ NoOrphanClaim /\ AtMostOnce)'
  BY <1>28, ConstantsAssumption DEF RetainedConfirm, PartsOwned, LoopHasRow,
     NoOrphanClaim, AtMostOnce, TypeOK, States, Snapshots, Observe
<1>29. ASSUME NEW i \in Ids, NEW e \in Snapshots, EchoObserve(i, e)
       PROVE  (LoopHasRow /\ NoOrphanClaim /\ AtMostOnce)'
  BY <1>29, ConstantsAssumption DEF EchoObserve, PartsOwned, LoopHasRow,
     NoOrphanClaim, AtMostOnce, TypeOK, States, Snapshots, Observe
<1>30. ASSUME NEW i \in Ids, NEW e \in Snapshots, ProjectForeign(i, e)
       PROVE  (LoopHasRow /\ NoOrphanClaim /\ AtMostOnce)'
  BY <1>30, ConstantsAssumption DEF ProjectForeign, PartsOwned, LoopHasRow,
     NoOrphanClaim, AtMostOnce, TypeOK, States, Snapshots
<1>31. CASE UNCHANGED vars
  BY <1>31, ConstantsAssumption DEF vars, PartsOwned, LoopHasRow,
     NoOrphanClaim, AtMostOnce, TypeOK, States, Snapshots
<1>q. QED
  BY <1>1, <1>2, <1>3, <1>4, <1>5, <1>6, <1>7, <1>8, <1>9, <1>10, <1>11,
     <1>12, <1>13, <1>14, <1>15, <1>16, <1>17, <1>18, <1>19, <1>20, <1>21,
     <1>22, <1>23, <1>24, <1>25, <1>26, <1>27, <1>28, <1>29, <1>30, <1>31
  DEF Next, LoopStep, CallStep, EvidenceStep

\* Every step keeps the queue order: elders are attempted first.
LEMMA OrderStep ==
  ASSUME TypeOK, LoopHasRow, NoOrphanClaim, SlotsDistinct, PartsOwned, AttemptOrder, DispatchLeads, [Next]_vars
  PROVE  (AttemptOrder /\ DispatchLeads)'
<1>1. CASE Start
  BY <1>1 DEF Start, Before, SlotsDistinct, LoopHasRow, NoOrphanClaim,
     PartsOwned, AttemptOrder, DispatchLeads, TypeOK, States, Snapshots,
     Recovered, Interrupted
<1>2. CASE EndDrain
  <2>1. PICK f \in [Requests -> 0..lastSlot] : Reordered(f) /\ slot' = f
    BY <1>2 DEF EndDrain
  <2>2. \A r \in Requests : state[r] = "PREPARED" =>
          \E s \in Requests : /\ state[s] = "PREPARED" /\ ChatOf[s] = ChatOf[r]
                              /\ f[r] = slot[s]
    BY <2>1, ConstantsAssumption DEF Reordered, Waiting, Movable
  <2>3. \A r \in Requests : state[r] # "PREPARED" => f[r] = slot[r]
    BY <2>1 DEF Reordered, Movable
  <2>4. state' = state
    BY <1>2 DEF EndDrain
  <2>5. AttemptOrder'
    BY <2>1, <2>2, <2>3, <2>4 DEF AttemptOrder, Before, Attempted, TypeOK, SlotsDistinct
  <2>6. DispatchLeads'
    BY <2>1, <2>2, <2>3, <2>4, <2>5 DEF AttemptOrder, DispatchLeads, Before, Attempted, TypeOK, SlotsDistinct
  <2>q. QED
    BY <2>5, <2>6
<1>3. CASE BeginCheck
  BY <1>3 DEF BeginCheck, Before, SlotsDistinct, LoopHasRow, NoOrphanClaim,
     PartsOwned, AttemptOrder, DispatchLeads, TypeOK, States, Snapshots,
     NextPrepared, Eligible
<1>4. CASE CheckFails
  BY <1>4 DEF CheckFails, Before, SlotsDistinct, LoopHasRow, NoOrphanClaim,
     PartsOwned, AttemptOrder, DispatchLeads, TypeOK, States, Snapshots
<1>5. CASE Claim
  BY <1>5 DEF Claim, Before, SlotsDistinct, LoopHasRow, NoOrphanClaim,
     PartsOwned, AttemptOrder, DispatchLeads, TypeOK, States, Snapshots,
     StillNext, NextPrepared, Eligible, Blocking
<1>6. CASE Decline
  BY <1>6 DEF Decline, Before, SlotsDistinct, LoopHasRow, NoOrphanClaim,
     PartsOwned, AttemptOrder, DispatchLeads, TypeOK, States, Snapshots
<1>7. CASE EndPass
  BY <1>7 DEF EndPass, Before, SlotsDistinct, LoopHasRow, NoOrphanClaim,
     PartsOwned, AttemptOrder, DispatchLeads, TypeOK, States, Snapshots
<1>8. CASE Stop
  BY <1>8 DEF Stop, Before, SlotsDistinct, LoopHasRow, NoOrphanClaim,
     PartsOwned, AttemptOrder, DispatchLeads, TypeOK, States, Snapshots
<1>9. CASE LoopExit
  BY <1>9 DEF LoopExit, Before, SlotsDistinct, LoopHasRow, NoOrphanClaim,
     PartsOwned, AttemptOrder, DispatchLeads, TypeOK, States, Snapshots
<1>10. CASE RetryPrepared
  BY <1>10 DEF RetryPrepared, Before, SlotsDistinct, LoopHasRow,
     NoOrphanClaim, PartsOwned, AttemptOrder, DispatchLeads, TypeOK, States,
     Snapshots
<1>11. ASSUME NEW r \in Requests, Prepare(r) PROVE (AttemptOrder /\ DispatchLeads)'
  BY <1>11 DEF Prepare, Before, SlotsDistinct, LoopHasRow, NoOrphanClaim,
     PartsOwned, AttemptOrder, DispatchLeads, TypeOK, States, Snapshots,
     Acceptable
<1>12. ASSUME NEW r \in Requests, RejectEvent(r) PROVE (AttemptOrder /\ DispatchLeads)'
  BY <1>12 DEF RejectEvent, Before, SlotsDistinct, LoopHasRow, NoOrphanClaim,
     PartsOwned, AttemptOrder, DispatchLeads, TypeOK, States, Snapshots
<1>13. ASSUME NEW r \in Requests, RetryDue(r) PROVE (AttemptOrder /\ DispatchLeads)'
  BY <1>13 DEF RetryDue, Before, SlotsDistinct, LoopHasRow, NoOrphanClaim,
     PartsOwned, AttemptOrder, DispatchLeads, TypeOK, States, Snapshots
<1>14. CASE Allocate
  BY <1>14 DEF Allocate, Before, SlotsDistinct, LoopHasRow, NoOrphanClaim,
     PartsOwned, AttemptOrder, DispatchLeads, TypeOK, States, Snapshots,
     Awaited
<1>15. CASE RecordIds
  BY <1>15 DEF RecordIds, Before, SlotsDistinct, LoopHasRow, NoOrphanClaim,
     PartsOwned, AttemptOrder, DispatchLeads, TypeOK, States, Snapshots
<1>16. CASE RefuseIds
  BY <1>16 DEF RefuseIds, Before, SlotsDistinct, LoopHasRow, NoOrphanClaim,
     PartsOwned, AttemptOrder, DispatchLeads, TypeOK, States, Snapshots
<1>17. CASE ReceiveCommit
  BY <1>17 DEF ReceiveCommit, Before, SlotsDistinct, LoopHasRow,
     NoOrphanClaim, PartsOwned, AttemptOrder, DispatchLeads, TypeOK, States,
     Snapshots
<1>18. CASE CallErrs
  BY <1>18 DEF CallErrs, Before, SlotsDistinct, LoopHasRow, NoOrphanClaim,
     PartsOwned, AttemptOrder, DispatchLeads, TypeOK, States, Snapshots
<1>19. CASE NativeSend
  BY <1>19 DEF NativeSend, Before, SlotsDistinct, LoopHasRow, NoOrphanClaim,
     PartsOwned, AttemptOrder, DispatchLeads, TypeOK, States, Snapshots
<1>20. CASE CallReturns
  BY <1>20 DEF CallReturns, Before, SlotsDistinct, LoopHasRow, NoOrphanClaim,
     PartsOwned, AttemptOrder, DispatchLeads, TypeOK, States, Snapshots,
     Settled, Awaited
<1>21. CASE CallRejected
  BY <1>21 DEF CallRejected, Before, SlotsDistinct, LoopHasRow, NoOrphanClaim,
     PartsOwned, AttemptOrder, DispatchLeads, TypeOK, States, Snapshots,
     MarkedUnknown
<1>22. CASE BackendDies
  BY <1>22 DEF BackendDies, Before, SlotsDistinct, LoopHasRow, NoOrphanClaim,
     PartsOwned, AttemptOrder, DispatchLeads, TypeOK, States, Snapshots,
     MarkedUnknown
<1>23. CASE BackendTerminated
  BY <1>23 DEF BackendTerminated, Before, SlotsDistinct, LoopHasRow,
     NoOrphanClaim, PartsOwned, AttemptOrder, DispatchLeads, TypeOK, States,
     Snapshots
<1>24. CASE Crash
  BY <1>24 DEF Crash, Before, SlotsDistinct, LoopHasRow, NoOrphanClaim,
     PartsOwned, AttemptOrder, DispatchLeads, TypeOK, States, Snapshots
<1>25. ASSUME NEW i \in Ids, ForeignMessage(i) PROVE (AttemptOrder /\ DispatchLeads)'
  BY <1>25 DEF ForeignMessage, Before, SlotsDistinct, LoopHasRow,
     NoOrphanClaim, PartsOwned, AttemptOrder, DispatchLeads, TypeOK, States,
     Snapshots
<1>26. ASSUME NEW i \in Ids, TransportAccepts(i) PROVE (AttemptOrder /\ DispatchLeads)'
  BY <1>26 DEF TransportAccepts, Before, SlotsDistinct, LoopHasRow,
     NoOrphanClaim, PartsOwned, AttemptOrder, DispatchLeads, TypeOK, States,
     Snapshots
<1>27. ASSUME NEW i \in Ids, JournalUpsert(i) PROVE (AttemptOrder /\ DispatchLeads)'
  BY <1>27 DEF JournalUpsert, Before, SlotsDistinct, LoopHasRow,
     NoOrphanClaim, PartsOwned, AttemptOrder, DispatchLeads, TypeOK, States,
     Snapshots, Snapshot
<1>28. ASSUME NEW i \in Ids, RetainedConfirm(i) PROVE (AttemptOrder /\ DispatchLeads)'
  BY <1>28 DEF RetainedConfirm, Before, SlotsDistinct, LoopHasRow,
     NoOrphanClaim, PartsOwned, AttemptOrder, DispatchLeads, TypeOK, States,
     Snapshots, Observe
<1>29. ASSUME NEW i \in Ids, NEW e \in Snapshots, EchoObserve(i, e)
       PROVE  (AttemptOrder /\ DispatchLeads)'
  BY <1>29 DEF EchoObserve, Before, SlotsDistinct, LoopHasRow, NoOrphanClaim,
     PartsOwned, AttemptOrder, DispatchLeads, TypeOK, States, Snapshots,
     Observe
<1>30. ASSUME NEW i \in Ids, NEW e \in Snapshots, ProjectForeign(i, e)
       PROVE  (AttemptOrder /\ DispatchLeads)'
  BY <1>30 DEF ProjectForeign, Before, SlotsDistinct, LoopHasRow,
     NoOrphanClaim, PartsOwned, AttemptOrder, DispatchLeads, TypeOK, States,
     Snapshots
<1>31. CASE UNCHANGED vars
  BY <1>31 DEF vars, Before, SlotsDistinct, LoopHasRow, NoOrphanClaim,
     PartsOwned, AttemptOrder, DispatchLeads, TypeOK, States, Snapshots
<1>q. QED
  BY <1>1, <1>2, <1>3, <1>4, <1>5, <1>6, <1>7, <1>8, <1>9, <1>10, <1>11,
     <1>12, <1>13, <1>14, <1>15, <1>16, <1>17, <1>18, <1>19, <1>20, <1>21,
     <1>22, <1>23, <1>24, <1>25, <1>26, <1>27, <1>28, <1>29, <1>30, <1>31
  DEF Next, LoopStep, CallStep, EvidenceStep

\* Every step keeps identifiers with one attempted owner.
LEMMA PartsStep ==
  ASSUME TypeOK, LoopHasRow, PartsOwned, [Next]_vars
  PROVE  PartsOwned'
<1>1. CASE Start
  BY <1>1 DEF Start, LoopHasRow, PartsOwned, TypeOK, States, Snapshots,
     Recovered, Interrupted
<1>2. CASE EndDrain
  BY <1>2 DEF EndDrain, LoopHasRow, PartsOwned, TypeOK, States, Snapshots
<1>3. CASE BeginCheck
  BY <1>3 DEF BeginCheck, LoopHasRow, PartsOwned, TypeOK, States, Snapshots,
     NextPrepared, Eligible
<1>4. CASE CheckFails
  BY <1>4 DEF CheckFails, LoopHasRow, PartsOwned, TypeOK, States, Snapshots
<1>5. CASE Claim
  BY <1>5 DEF Claim, LoopHasRow, PartsOwned, TypeOK, States, Snapshots,
     StillNext, NextPrepared, Eligible
<1>6. CASE Decline
  BY <1>6 DEF Decline, LoopHasRow, PartsOwned, TypeOK, States, Snapshots
<1>7. CASE EndPass
  BY <1>7 DEF EndPass, LoopHasRow, PartsOwned, TypeOK, States, Snapshots
<1>8. CASE Stop
  BY <1>8 DEF Stop, LoopHasRow, PartsOwned, TypeOK, States, Snapshots
<1>9. CASE LoopExit
  BY <1>9 DEF LoopExit, LoopHasRow, PartsOwned, TypeOK, States, Snapshots
<1>10. CASE RetryPrepared
  BY <1>10 DEF RetryPrepared, LoopHasRow, PartsOwned, TypeOK, States,
     Snapshots
<1>11. ASSUME NEW r \in Requests, Prepare(r) PROVE PartsOwned'
  BY <1>11 DEF Prepare, LoopHasRow, PartsOwned, TypeOK, States, Snapshots,
     Acceptable
<1>12. ASSUME NEW r \in Requests, RejectEvent(r) PROVE PartsOwned'
  BY <1>12 DEF RejectEvent, LoopHasRow, PartsOwned, TypeOK, States, Snapshots
<1>13. ASSUME NEW r \in Requests, RetryDue(r) PROVE PartsOwned'
  BY <1>13 DEF RetryDue, LoopHasRow, PartsOwned, TypeOK, States, Snapshots
<1>14. CASE Allocate
  BY <1>14 DEF Allocate, LoopHasRow, PartsOwned, TypeOK, States, Snapshots,
     Awaited
<1>15. CASE RecordIds
  BY <1>15 DEF RecordIds, LoopHasRow, PartsOwned, TypeOK, States, Snapshots,
     Allocatable, Awaited, Recorded
<1>16. CASE RefuseIds
  BY <1>16 DEF RefuseIds, LoopHasRow, PartsOwned, TypeOK, States, Snapshots
<1>17. CASE ReceiveCommit
  BY <1>17 DEF ReceiveCommit, LoopHasRow, PartsOwned, TypeOK, States,
     Snapshots
<1>18. CASE CallErrs
  BY <1>18 DEF CallErrs, LoopHasRow, PartsOwned, TypeOK, States, Snapshots
<1>19. CASE NativeSend
  BY <1>19 DEF NativeSend, LoopHasRow, PartsOwned, TypeOK, States, Snapshots
<1>20. CASE CallReturns
  BY <1>20 DEF CallReturns, LoopHasRow, PartsOwned, TypeOK, States, Snapshots,
     Settled, Awaited
<1>21. CASE CallRejected
  BY <1>21 DEF CallRejected, LoopHasRow, PartsOwned, TypeOK, States,
     Snapshots, MarkedUnknown
<1>22. CASE BackendDies
  BY <1>22 DEF BackendDies, LoopHasRow, PartsOwned, TypeOK, States, Snapshots,
     MarkedUnknown
<1>23. CASE BackendTerminated
  BY <1>23 DEF BackendTerminated, LoopHasRow, PartsOwned, TypeOK, States,
     Snapshots
<1>24. CASE Crash
  BY <1>24 DEF Crash, LoopHasRow, PartsOwned, TypeOK, States, Snapshots
<1>25. ASSUME NEW i \in Ids, ForeignMessage(i) PROVE PartsOwned'
  BY <1>25 DEF ForeignMessage, LoopHasRow, PartsOwned, TypeOK, States,
     Snapshots
<1>26. ASSUME NEW i \in Ids, TransportAccepts(i) PROVE PartsOwned'
  BY <1>26 DEF TransportAccepts, LoopHasRow, PartsOwned, TypeOK, States,
     Snapshots
<1>27. ASSUME NEW i \in Ids, JournalUpsert(i) PROVE PartsOwned'
  BY <1>27 DEF JournalUpsert, LoopHasRow, PartsOwned, TypeOK, States,
     Snapshots, Snapshot
<1>28. ASSUME NEW i \in Ids, RetainedConfirm(i) PROVE PartsOwned'
  BY <1>28 DEF RetainedConfirm, LoopHasRow, PartsOwned, TypeOK, States,
     Snapshots, Observe
<1>29. ASSUME NEW i \in Ids, NEW e \in Snapshots, EchoObserve(i, e)
       PROVE  PartsOwned'
  BY <1>29 DEF EchoObserve, LoopHasRow, PartsOwned, TypeOK, States, Snapshots,
     Observe
<1>30. ASSUME NEW i \in Ids, NEW e \in Snapshots, ProjectForeign(i, e)
       PROVE  PartsOwned'
  BY <1>30 DEF ProjectForeign, LoopHasRow, PartsOwned, TypeOK, States,
     Snapshots
<1>31. CASE UNCHANGED vars
  BY <1>31 DEF vars, LoopHasRow, PartsOwned, TypeOK, States, Snapshots
<1>q. QED
  BY <1>1, <1>2, <1>3, <1>4, <1>5, <1>6, <1>7, <1>8, <1>9, <1>10, <1>11,
     <1>12, <1>13, <1>14, <1>15, <1>16, <1>17, <1>18, <1>19, <1>20, <1>21,
     <1>22, <1>23, <1>24, <1>25, <1>26, <1>27, <1>28, <1>29, <1>30, <1>31
  DEF Next, LoopStep, CallStep, EvidenceStep

\* Every step keeps evidence behind the facts it is evidence of.
LEMMA EvidenceKept ==
  ASSUME TypeOK, LoopHasRow, PartsOwned, EvidenceTrail, [Next]_vars
  PROVE  EvidenceTrail'
<1>1. CASE Start
  BY <1>1 DEF Start, LoopHasRow, PartsOwned, EvidenceTrail, TypeOK, States,
     Snapshots, Recovered, Interrupted
<1>2. CASE EndDrain
  BY <1>2 DEF EndDrain, LoopHasRow, PartsOwned, EvidenceTrail, TypeOK, States,
     Snapshots
<1>3. CASE BeginCheck
  BY <1>3 DEF BeginCheck, LoopHasRow, PartsOwned, EvidenceTrail, TypeOK,
     States, Snapshots, NextPrepared, Eligible
<1>4. CASE CheckFails
  BY <1>4 DEF CheckFails, LoopHasRow, PartsOwned, EvidenceTrail, TypeOK,
     States, Snapshots
<1>5. CASE Claim
  BY <1>5 DEF Claim, LoopHasRow, PartsOwned, EvidenceTrail, TypeOK, States,
     Snapshots, StillNext, NextPrepared, Eligible
<1>6. CASE Decline
  BY <1>6 DEF Decline, LoopHasRow, PartsOwned, EvidenceTrail, TypeOK, States,
     Snapshots
<1>7. CASE EndPass
  BY <1>7 DEF EndPass, LoopHasRow, PartsOwned, EvidenceTrail, TypeOK, States,
     Snapshots
<1>8. CASE Stop
  BY <1>8 DEF Stop, LoopHasRow, PartsOwned, EvidenceTrail, TypeOK, States,
     Snapshots
<1>9. CASE LoopExit
  BY <1>9 DEF LoopExit, LoopHasRow, PartsOwned, EvidenceTrail, TypeOK, States,
     Snapshots
<1>10. CASE RetryPrepared
  BY <1>10 DEF RetryPrepared, LoopHasRow, PartsOwned, EvidenceTrail, TypeOK,
     States, Snapshots
<1>11. ASSUME NEW r \in Requests, Prepare(r) PROVE EvidenceTrail'
  BY <1>11 DEF Prepare, LoopHasRow, PartsOwned, EvidenceTrail, TypeOK, States,
     Snapshots, Acceptable
<1>12. ASSUME NEW r \in Requests, RejectEvent(r) PROVE EvidenceTrail'
  BY <1>12 DEF RejectEvent, LoopHasRow, PartsOwned, EvidenceTrail, TypeOK,
     States, Snapshots
<1>13. ASSUME NEW r \in Requests, RetryDue(r) PROVE EvidenceTrail'
  BY <1>13 DEF RetryDue, LoopHasRow, PartsOwned, EvidenceTrail, TypeOK,
     States, Snapshots
<1>14. CASE Allocate
  BY <1>14 DEF Allocate, LoopHasRow, PartsOwned, EvidenceTrail, TypeOK,
     States, Snapshots, Awaited
<1>15. CASE RecordIds
  BY <1>15 DEF RecordIds, LoopHasRow, PartsOwned, EvidenceTrail, TypeOK,
     States, Snapshots, Allocatable, Awaited, Recorded
<1>16. CASE RefuseIds
  BY <1>16 DEF RefuseIds, LoopHasRow, PartsOwned, EvidenceTrail, TypeOK,
     States, Snapshots
<1>17. CASE ReceiveCommit
  BY <1>17 DEF ReceiveCommit, LoopHasRow, PartsOwned, EvidenceTrail, TypeOK,
     States, Snapshots
<1>18. CASE CallErrs
  BY <1>18 DEF CallErrs, LoopHasRow, PartsOwned, EvidenceTrail, TypeOK,
     States, Snapshots
<1>19. CASE NativeSend
  BY <1>19 DEF NativeSend, LoopHasRow, PartsOwned, EvidenceTrail, TypeOK,
     States, Snapshots
<1>20. CASE CallReturns
  BY <1>20 DEF CallReturns, LoopHasRow, PartsOwned, EvidenceTrail, TypeOK,
     States, Snapshots, Settled, Awaited
<1>21. CASE CallRejected
  BY <1>21 DEF CallRejected, LoopHasRow, PartsOwned, EvidenceTrail, TypeOK,
     States, Snapshots, MarkedUnknown
<1>22. CASE BackendDies
  BY <1>22 DEF BackendDies, LoopHasRow, PartsOwned, EvidenceTrail, TypeOK,
     States, Snapshots, MarkedUnknown
<1>23. CASE BackendTerminated
  BY <1>23 DEF BackendTerminated, LoopHasRow, PartsOwned, EvidenceTrail,
     TypeOK, States, Snapshots
<1>24. CASE Crash
  BY <1>24 DEF Crash, LoopHasRow, PartsOwned, EvidenceTrail, TypeOK, States,
     Snapshots
<1>25. ASSUME NEW i \in Ids, ForeignMessage(i) PROVE EvidenceTrail'
  BY <1>25 DEF ForeignMessage, LoopHasRow, PartsOwned, EvidenceTrail, TypeOK,
     States, Snapshots
<1>26. ASSUME NEW i \in Ids, TransportAccepts(i) PROVE EvidenceTrail'
  BY <1>26 DEF TransportAccepts, LoopHasRow, PartsOwned, EvidenceTrail,
     TypeOK, States, Snapshots
<1>27. ASSUME NEW i \in Ids, JournalUpsert(i) PROVE EvidenceTrail'
  BY <1>27 DEF JournalUpsert, LoopHasRow, PartsOwned, EvidenceTrail, TypeOK,
     States, Snapshots, Snapshot
<1>28. ASSUME NEW i \in Ids, RetainedConfirm(i) PROVE EvidenceTrail'
  BY <1>28 DEF RetainedConfirm, LoopHasRow, PartsOwned, EvidenceTrail, TypeOK,
     States, Snapshots, Observe, Convincing
<1>29. ASSUME NEW i \in Ids, NEW e \in Snapshots, EchoObserve(i, e)
       PROVE  EvidenceTrail'
  BY <1>29 DEF EchoObserve, LoopHasRow, PartsOwned, EvidenceTrail, TypeOK,
     States, Snapshots, Observe, FirstChange
<1>30. ASSUME NEW i \in Ids, NEW e \in Snapshots, ProjectForeign(i, e)
       PROVE  EvidenceTrail'
  BY <1>30 DEF ProjectForeign, LoopHasRow, PartsOwned, EvidenceTrail, TypeOK,
     States, Snapshots, FirstChange
<1>31. CASE UNCHANGED vars
  BY <1>31 DEF vars, LoopHasRow, PartsOwned, EvidenceTrail, TypeOK, States,
     Snapshots
<1>q. QED
  BY <1>1, <1>2, <1>3, <1>4, <1>5, <1>6, <1>7, <1>8, <1>9, <1>10, <1>11,
     <1>12, <1>13, <1>14, <1>15, <1>16, <1>17, <1>18, <1>19, <1>20, <1>21,
     <1>22, <1>23, <1>24, <1>25, <1>26, <1>27, <1>28, <1>29, <1>30, <1>31
  DEF Next, LoopStep, CallStep, EvidenceStep

\* Every step keeps messages of the outbox owned and those of others apart.
LEMMA OwnershipStep ==
  ASSUME TypeOK, LoopHasRow, PartsOwned, EvidenceTrail, CallLeads, OwnedBeforeNative, ForeignApart, [Next]_vars
  PROVE  (OwnedBeforeNative /\ ForeignApart)'
<1>1. CASE Start
  BY <1>1 DEF Start, Recorded, OwnedBeforeNative, ForeignApart, LoopHasRow,
     TypeOK, States, Snapshots, Recovered, Interrupted
<1>2. CASE EndDrain
  BY <1>2 DEF EndDrain, Recorded, OwnedBeforeNative, ForeignApart, LoopHasRow,
     TypeOK, States, Snapshots
<1>3. CASE BeginCheck
  BY <1>3 DEF BeginCheck, Recorded, OwnedBeforeNative, ForeignApart,
     LoopHasRow, TypeOK, States, Snapshots, NextPrepared, Eligible
<1>4. CASE CheckFails
  BY <1>4 DEF CheckFails, Recorded, OwnedBeforeNative, ForeignApart,
     LoopHasRow, TypeOK, States, Snapshots
<1>5. CASE Claim
  BY <1>5 DEF Claim, Recorded, OwnedBeforeNative, ForeignApart, LoopHasRow,
     TypeOK, States, Snapshots, StillNext, NextPrepared, Eligible
<1>6. CASE Decline
  BY <1>6 DEF Decline, Recorded, OwnedBeforeNative, ForeignApart, LoopHasRow,
     TypeOK, States, Snapshots
<1>7. CASE EndPass
  BY <1>7 DEF EndPass, Recorded, OwnedBeforeNative, ForeignApart, LoopHasRow,
     TypeOK, States, Snapshots
<1>8. CASE Stop
  BY <1>8 DEF Stop, Recorded, OwnedBeforeNative, ForeignApart, LoopHasRow,
     TypeOK, States, Snapshots
<1>9. CASE LoopExit
  BY <1>9 DEF LoopExit, Recorded, OwnedBeforeNative, ForeignApart, LoopHasRow,
     TypeOK, States, Snapshots
<1>10. CASE RetryPrepared
  BY <1>10 DEF RetryPrepared, Recorded, OwnedBeforeNative, ForeignApart,
     LoopHasRow, TypeOK, States, Snapshots
<1>11. ASSUME NEW r \in Requests, Prepare(r) PROVE (OwnedBeforeNative /\ ForeignApart)'
  BY <1>11 DEF Prepare, Recorded, OwnedBeforeNative, ForeignApart, LoopHasRow,
     TypeOK, States, Snapshots, Acceptable
<1>12. ASSUME NEW r \in Requests, RejectEvent(r) PROVE (OwnedBeforeNative /\ ForeignApart)'
  BY <1>12 DEF RejectEvent, Recorded, OwnedBeforeNative, ForeignApart,
     LoopHasRow, TypeOK, States, Snapshots
<1>13. ASSUME NEW r \in Requests, RetryDue(r) PROVE (OwnedBeforeNative /\ ForeignApart)'
  BY <1>13 DEF RetryDue, Recorded, OwnedBeforeNative, ForeignApart,
     LoopHasRow, TypeOK, States, Snapshots
<1>14. CASE Allocate
  BY <1>14 DEF Allocate, Recorded, OwnedBeforeNative, ForeignApart,
     LoopHasRow, TypeOK, States, Snapshots, Awaited
<1>15. CASE RecordIds
  BY <1>15 DEF RecordIds, Recorded, OwnedBeforeNative, ForeignApart,
     LoopHasRow, TypeOK, States, Snapshots, Allocatable, Awaited
<1>16. CASE RefuseIds
  BY <1>16 DEF RefuseIds, Recorded, OwnedBeforeNative, ForeignApart,
     LoopHasRow, TypeOK, States, Snapshots
<1>17. CASE ReceiveCommit
  BY <1>17 DEF ReceiveCommit, Recorded, OwnedBeforeNative, ForeignApart,
     LoopHasRow, TypeOK, States, Snapshots
<1>18. CASE CallErrs
  BY <1>18 DEF CallErrs, Recorded, OwnedBeforeNative, ForeignApart,
     LoopHasRow, TypeOK, States, Snapshots
<1>19. CASE NativeSend
  BY <1>19 DEF NativeSend, Recorded, OwnedBeforeNative, ForeignApart,
     LoopHasRow, TypeOK, States, Snapshots, CallLeads
<1>20. CASE CallReturns
  BY <1>20 DEF CallReturns, Recorded, OwnedBeforeNative, ForeignApart,
     LoopHasRow, TypeOK, States, Snapshots, Settled, Awaited
<1>21. CASE CallRejected
  BY <1>21 DEF CallRejected, Recorded, OwnedBeforeNative, ForeignApart,
     LoopHasRow, TypeOK, States, Snapshots, MarkedUnknown
<1>22. CASE BackendDies
  BY <1>22 DEF BackendDies, Recorded, OwnedBeforeNative, ForeignApart,
     LoopHasRow, TypeOK, States, Snapshots, MarkedUnknown
<1>23. CASE BackendTerminated
  BY <1>23 DEF BackendTerminated, Recorded, OwnedBeforeNative, ForeignApart,
     LoopHasRow, TypeOK, States, Snapshots
<1>24. CASE Crash
  BY <1>24 DEF Crash, Recorded, OwnedBeforeNative, ForeignApart, LoopHasRow,
     TypeOK, States, Snapshots
<1>25. ASSUME NEW i \in Ids, ForeignMessage(i) PROVE (OwnedBeforeNative /\ ForeignApart)'
  BY <1>25 DEF ForeignMessage, Recorded, OwnedBeforeNative, ForeignApart,
     LoopHasRow, TypeOK, States, Snapshots
<1>26. ASSUME NEW i \in Ids, TransportAccepts(i) PROVE (OwnedBeforeNative /\ ForeignApart)'
  BY <1>26 DEF TransportAccepts, Recorded, OwnedBeforeNative, ForeignApart,
     LoopHasRow, TypeOK, States, Snapshots
<1>27. ASSUME NEW i \in Ids, JournalUpsert(i) PROVE (OwnedBeforeNative /\ ForeignApart)'
  BY <1>27 DEF JournalUpsert, Recorded, OwnedBeforeNative, ForeignApart,
     LoopHasRow, TypeOK, States, Snapshots, Snapshot
<1>28. ASSUME NEW i \in Ids, RetainedConfirm(i) PROVE (OwnedBeforeNative /\ ForeignApart)'
  BY <1>28 DEF RetainedConfirm, Recorded, OwnedBeforeNative, ForeignApart,
     LoopHasRow, TypeOK, States, Snapshots, Observe
<1>29. ASSUME NEW i \in Ids, NEW e \in Snapshots, EchoObserve(i, e)
       PROVE  (OwnedBeforeNative /\ ForeignApart)'
  BY <1>29 DEF EchoObserve, Recorded, OwnedBeforeNative, ForeignApart,
     LoopHasRow, TypeOK, States, Snapshots, Observe
<1>30. ASSUME NEW i \in Ids, NEW e \in Snapshots, ProjectForeign(i, e)
       PROVE  (OwnedBeforeNative /\ ForeignApart)'
  <2>1. <<i, e>> \in changes /\ i \notin Recorded
    BY <1>30 DEF ProjectForeign, FirstChange, Foreign
  <2>2. i \in native \cup foreign
    BY <2>1 DEF EvidenceTrail
  <2>3. i \in foreign
    BY <2>1, <2>2 DEF OwnedBeforeNative
  <2>q. QED
    BY <1>30, <2>3 DEF ProjectForeign, Recorded, OwnedBeforeNative, ForeignApart
<1>31. CASE UNCHANGED vars
  BY <1>31 DEF vars, Recorded, OwnedBeforeNative, ForeignApart, LoopHasRow,
     TypeOK, States, Snapshots
<1>q. QED
  BY <1>1, <1>2, <1>3, <1>4, <1>5, <1>6, <1>7, <1>8, <1>9, <1>10, <1>11,
     <1>12, <1>13, <1>14, <1>15, <1>16, <1>17, <1>18, <1>19, <1>20, <1>21,
     <1>22, <1>23, <1>24, <1>25, <1>26, <1>27, <1>28, <1>29, <1>30, <1>31
  DEF Next, LoopStep, CallStep, EvidenceStep

\* Every step keeps a live call ahead of the younger rows of its chat.
LEMMA CallStepKeeps ==
  ASSUME TypeOK, LoopHasRow, NoOrphanClaim, SlotsDistinct, AttemptOrder, DispatchLeads, PartsOwned, OwnedBeforeNative, EvidenceTrail, CallLeads, [Next]_vars
  PROVE  CallLeads'
<1>1. CASE Start
  BY <1>1 DEF Start, CallLeads, Before, LoopHasRow, NoOrphanClaim,
     SlotsDistinct, DispatchLeads, PartsOwned, EvidenceTrail,
     OwnedBeforeNative, Recorded, TypeOK, States, Snapshots, Recovered,
     Interrupted
<1>2. CASE EndDrain
  <2>1. \A r \in Requests : state[r] # "PREPARED" => slot'[r] = slot[r]
    BY <1>2 DEF EndDrain, Reordered, Movable
  <2>2. UNCHANGED <<state, parts, call, callIds, native>>
    BY <1>2 DEF EndDrain
  <2>q. QED
    BY <2>1, <2>2 DEF CallLeads, Before, Attempted
<1>3. CASE BeginCheck
  BY <1>3 DEF BeginCheck, CallLeads, Before, LoopHasRow, NoOrphanClaim,
     SlotsDistinct, DispatchLeads, PartsOwned, EvidenceTrail,
     OwnedBeforeNative, Recorded, TypeOK, States, Snapshots, NextPrepared,
     Eligible
<1>4. CASE CheckFails
  BY <1>4 DEF CheckFails, CallLeads, Before, LoopHasRow, NoOrphanClaim,
     SlotsDistinct, DispatchLeads, PartsOwned, EvidenceTrail,
     OwnedBeforeNative, Recorded, TypeOK, States, Snapshots
<1>5. CASE Claim
  BY <1>5 DEF Claim, CallLeads, Before, LoopHasRow, NoOrphanClaim,
     SlotsDistinct, DispatchLeads, PartsOwned, EvidenceTrail,
     OwnedBeforeNative, Recorded, TypeOK, States, Snapshots, StillNext,
     NextPrepared, Eligible, Blocking
<1>6. CASE Decline
  BY <1>6 DEF Decline, CallLeads, Before, LoopHasRow, NoOrphanClaim,
     SlotsDistinct, DispatchLeads, PartsOwned, EvidenceTrail,
     OwnedBeforeNative, Recorded, TypeOK, States, Snapshots
<1>7. CASE EndPass
  BY <1>7 DEF EndPass, CallLeads, Before, LoopHasRow, NoOrphanClaim,
     SlotsDistinct, DispatchLeads, PartsOwned, EvidenceTrail,
     OwnedBeforeNative, Recorded, TypeOK, States, Snapshots
<1>8. CASE Stop
  BY <1>8 DEF Stop, CallLeads, Before, LoopHasRow, NoOrphanClaim,
     SlotsDistinct, DispatchLeads, PartsOwned, EvidenceTrail,
     OwnedBeforeNative, Recorded, TypeOK, States, Snapshots
<1>9. CASE LoopExit
  BY <1>9 DEF LoopExit, CallLeads, Before, LoopHasRow, NoOrphanClaim,
     SlotsDistinct, DispatchLeads, PartsOwned, EvidenceTrail,
     OwnedBeforeNative, Recorded, TypeOK, States, Snapshots
<1>10. CASE RetryPrepared
  BY <1>10 DEF RetryPrepared, CallLeads, Before, LoopHasRow, NoOrphanClaim,
     SlotsDistinct, DispatchLeads, PartsOwned, EvidenceTrail,
     OwnedBeforeNative, Recorded, TypeOK, States, Snapshots
<1>11. ASSUME NEW r \in Requests, Prepare(r) PROVE CallLeads'
  BY <1>11 DEF Prepare, CallLeads, Before, LoopHasRow, NoOrphanClaim,
     SlotsDistinct, DispatchLeads, PartsOwned, EvidenceTrail,
     OwnedBeforeNative, Recorded, TypeOK, States, Snapshots, Acceptable
<1>12. ASSUME NEW r \in Requests, RejectEvent(r) PROVE CallLeads'
  BY <1>12 DEF RejectEvent, CallLeads, Before, LoopHasRow, NoOrphanClaim,
     SlotsDistinct, DispatchLeads, PartsOwned, EvidenceTrail,
     OwnedBeforeNative, Recorded, TypeOK, States, Snapshots
<1>13. ASSUME NEW r \in Requests, RetryDue(r) PROVE CallLeads'
  BY <1>13 DEF RetryDue, CallLeads, Before, LoopHasRow, NoOrphanClaim,
     SlotsDistinct, DispatchLeads, PartsOwned, EvidenceTrail,
     OwnedBeforeNative, Recorded, TypeOK, States, Snapshots
<1>14. CASE Allocate
  BY <1>14 DEF Allocate, CallLeads, Before, LoopHasRow, NoOrphanClaim,
     SlotsDistinct, DispatchLeads, PartsOwned, EvidenceTrail,
     OwnedBeforeNative, Recorded, TypeOK, States, Snapshots, Awaited
<1>15. CASE RecordIds
  BY <1>15 DEF RecordIds, CallLeads, Before, LoopHasRow, NoOrphanClaim,
     SlotsDistinct, DispatchLeads, PartsOwned, EvidenceTrail,
     OwnedBeforeNative, Recorded, TypeOK, States, Snapshots, Allocatable,
     Awaited
<1>16. CASE RefuseIds
  BY <1>16 DEF RefuseIds, CallLeads, Before, LoopHasRow, NoOrphanClaim,
     SlotsDistinct, DispatchLeads, PartsOwned, EvidenceTrail,
     OwnedBeforeNative, Recorded, TypeOK, States, Snapshots
<1>17. CASE ReceiveCommit
  BY <1>17 DEF ReceiveCommit, CallLeads, Before, LoopHasRow, NoOrphanClaim,
     SlotsDistinct, DispatchLeads, PartsOwned, EvidenceTrail,
     OwnedBeforeNative, Recorded, TypeOK, States, Snapshots, Acknowledged
<1>18. CASE CallErrs
  BY <1>18 DEF CallErrs, CallLeads, Before, LoopHasRow, NoOrphanClaim,
     SlotsDistinct, DispatchLeads, PartsOwned, EvidenceTrail,
     OwnedBeforeNative, Recorded, TypeOK, States, Snapshots
<1>19. CASE NativeSend
  BY <1>19 DEF NativeSend, CallLeads, Before, LoopHasRow, NoOrphanClaim,
     SlotsDistinct, DispatchLeads, PartsOwned, EvidenceTrail,
     OwnedBeforeNative, Recorded, TypeOK, States, Snapshots
<1>20. CASE CallReturns
  BY <1>20 DEF CallReturns, CallLeads, Before, LoopHasRow, NoOrphanClaim,
     SlotsDistinct, DispatchLeads, PartsOwned, EvidenceTrail,
     OwnedBeforeNative, Recorded, TypeOK, States, Snapshots, Settled, Awaited
<1>21. CASE CallRejected
  BY <1>21 DEF CallRejected, CallLeads, Before, LoopHasRow, NoOrphanClaim,
     SlotsDistinct, DispatchLeads, PartsOwned, EvidenceTrail,
     OwnedBeforeNative, Recorded, TypeOK, States, Snapshots, MarkedUnknown
<1>22. CASE BackendDies
  BY <1>22 DEF BackendDies, CallLeads, Before, LoopHasRow, NoOrphanClaim,
     SlotsDistinct, DispatchLeads, PartsOwned, EvidenceTrail,
     OwnedBeforeNative, Recorded, TypeOK, States, Snapshots, MarkedUnknown
<1>23. CASE BackendTerminated
  BY <1>23 DEF BackendTerminated, CallLeads, Before, LoopHasRow,
     NoOrphanClaim, SlotsDistinct, DispatchLeads, PartsOwned, EvidenceTrail,
     OwnedBeforeNative, Recorded, TypeOK, States, Snapshots
<1>24. CASE Crash
  BY <1>24 DEF Crash, CallLeads, Before, LoopHasRow, NoOrphanClaim,
     SlotsDistinct, DispatchLeads, PartsOwned, EvidenceTrail,
     OwnedBeforeNative, Recorded, TypeOK, States, Snapshots
<1>25. ASSUME NEW i \in Ids, ForeignMessage(i) PROVE CallLeads'
  BY <1>25 DEF ForeignMessage, CallLeads, Before, LoopHasRow, NoOrphanClaim,
     SlotsDistinct, DispatchLeads, PartsOwned, EvidenceTrail,
     OwnedBeforeNative, Recorded, TypeOK, States, Snapshots
<1>26. ASSUME NEW i \in Ids, TransportAccepts(i) PROVE CallLeads'
  BY <1>26 DEF TransportAccepts, CallLeads, Before, LoopHasRow, NoOrphanClaim,
     SlotsDistinct, DispatchLeads, PartsOwned, EvidenceTrail,
     OwnedBeforeNative, Recorded, TypeOK, States, Snapshots
<1>27. ASSUME NEW i \in Ids, JournalUpsert(i) PROVE CallLeads'
  BY <1>27 DEF JournalUpsert, CallLeads, Before, LoopHasRow, NoOrphanClaim,
     SlotsDistinct, DispatchLeads, PartsOwned, EvidenceTrail,
     OwnedBeforeNative, Recorded, TypeOK, States, Snapshots, Snapshot
<1>28. ASSUME NEW i \in Ids, RetainedConfirm(i) PROVE CallLeads'
  <2>1. PICK o \in Requests : /\ i \in parts[o] /\ parts' = parts /\ slot' = slot
                              /\ state' \in {state, [state EXCEPT ![o] = "ACKED"]}
    BY <1>28 DEF RetainedConfirm, Observe
  <2>2. call' = call /\ callIds' = callIds /\ native' = native /\ slot' = slot
    BY <1>28 DEF RetainedConfirm
  <2>3. i \in native \/ state' = state
    BY <1>28 DEF RetainedConfirm, Convincing, EvidenceTrail
  <2>4. state[o] \in Attempted
    BY <2>1 DEF PartsOwned
  <2>5. ASSUME call \in {"committed", "granted"}, NEW r \in Requests, parts[r] = callIds,
               state[r] \in {"DISPATCHING", "OUTCOME_UNKNOWN"},
               \A s \in Requests : Before(r, s) => state[s] \notin Attempted
        PROVE  state'[r] = state[r] /\ \A s \in Requests : Before(r, s) => state'[s] \notin Attempted
    <3>1. state' = state \/ o # r
      BY <2>1, <2>3, <2>5 DEF CallLeads
    <3>q. QED
      BY <2>1, <2>4, <2>5, <3>1 DEF TypeOK
  <2>q. QED
    BY <2>1, <2>2, <2>5 DEF CallLeads, Before
<1>29. ASSUME NEW i \in Ids, NEW e \in Snapshots, EchoObserve(i, e)
       PROVE  CallLeads'
  <2>1. PICK o \in Requests : /\ i \in parts[o] /\ parts' = parts /\ slot' = slot
                              /\ state' \in {state, [state EXCEPT ![o] = "ACKED"]}
    BY <1>29 DEF EchoObserve, Observe
  <2>2. call' = call /\ callIds' = callIds /\ native' = native /\ slot' = slot
    BY <1>29 DEF EchoObserve
  <2>3. i \in native \/ state' = state
    BY <1>29 DEF EchoObserve, FirstChange, EvidenceTrail
  <2>4. state[o] \in Attempted
    BY <2>1 DEF PartsOwned
  <2>5. ASSUME call \in {"committed", "granted"}, NEW r \in Requests, parts[r] = callIds,
               state[r] \in {"DISPATCHING", "OUTCOME_UNKNOWN"},
               \A s \in Requests : Before(r, s) => state[s] \notin Attempted
        PROVE  state'[r] = state[r] /\ \A s \in Requests : Before(r, s) => state'[s] \notin Attempted
    <3>1. state' = state \/ o # r
      BY <2>1, <2>3, <2>5 DEF CallLeads
    <3>q. QED
      BY <2>1, <2>4, <2>5, <3>1 DEF TypeOK
  <2>q. QED
    BY <2>1, <2>2, <2>5 DEF CallLeads, Before
<1>30. ASSUME NEW i \in Ids, NEW e \in Snapshots, ProjectForeign(i, e)
       PROVE  CallLeads'
  BY <1>30 DEF ProjectForeign, CallLeads, Before, LoopHasRow, NoOrphanClaim,
     SlotsDistinct, DispatchLeads, PartsOwned, EvidenceTrail,
     OwnedBeforeNative, Recorded, TypeOK, States, Snapshots
<1>31. CASE UNCHANGED vars
  BY <1>31 DEF vars, CallLeads, Before, LoopHasRow, NoOrphanClaim,
     SlotsDistinct, DispatchLeads, PartsOwned, EvidenceTrail,
     OwnedBeforeNative, Recorded, TypeOK, States, Snapshots
<1>q. QED
  BY <1>1, <1>2, <1>3, <1>4, <1>5, <1>6, <1>7, <1>8, <1>9, <1>10, <1>11,
     <1>12, <1>13, <1>14, <1>15, <1>16, <1>17, <1>18, <1>19, <1>20, <1>21,
     <1>22, <1>23, <1>24, <1>25, <1>26, <1>27, <1>28, <1>29, <1>30, <1>31
  DEF Next, LoopStep, CallStep, EvidenceStep

\* Every step keeps refused events out of the queue.
LEMMA FateStep ==
  ASSUME TypeOK, LoopHasRow, PartsOwned, OneFate, [Next]_vars
  PROVE  OneFate'
<1>1. CASE Start
  BY <1>1 DEF Start, LoopHasRow, PartsOwned, OneFate, TypeOK, States,
     Snapshots, Recovered, Interrupted
<1>2. CASE EndDrain
  BY <1>2 DEF EndDrain, LoopHasRow, PartsOwned, OneFate, TypeOK, States,
     Snapshots
<1>3. CASE BeginCheck
  BY <1>3 DEF BeginCheck, LoopHasRow, PartsOwned, OneFate, TypeOK, States,
     Snapshots, NextPrepared, Eligible
<1>4. CASE CheckFails
  BY <1>4 DEF CheckFails, LoopHasRow, PartsOwned, OneFate, TypeOK, States,
     Snapshots
<1>5. CASE Claim
  BY <1>5 DEF Claim, LoopHasRow, PartsOwned, OneFate, TypeOK, States,
     Snapshots, StillNext, NextPrepared, Eligible
<1>6. CASE Decline
  BY <1>6 DEF Decline, LoopHasRow, PartsOwned, OneFate, TypeOK, States,
     Snapshots
<1>7. CASE EndPass
  BY <1>7 DEF EndPass, LoopHasRow, PartsOwned, OneFate, TypeOK, States,
     Snapshots
<1>8. CASE Stop
  BY <1>8 DEF Stop, LoopHasRow, PartsOwned, OneFate, TypeOK, States, Snapshots
<1>9. CASE LoopExit
  BY <1>9 DEF LoopExit, LoopHasRow, PartsOwned, OneFate, TypeOK, States,
     Snapshots
<1>10. CASE RetryPrepared
  BY <1>10 DEF RetryPrepared, LoopHasRow, PartsOwned, OneFate, TypeOK, States,
     Snapshots
<1>11. ASSUME NEW r \in Requests, Prepare(r) PROVE OneFate'
  BY <1>11 DEF Prepare, LoopHasRow, PartsOwned, OneFate, TypeOK, States,
     Snapshots, Acceptable
<1>12. ASSUME NEW r \in Requests, RejectEvent(r) PROVE OneFate'
  BY <1>12 DEF RejectEvent, LoopHasRow, PartsOwned, OneFate, TypeOK, States,
     Snapshots
<1>13. ASSUME NEW r \in Requests, RetryDue(r) PROVE OneFate'
  BY <1>13 DEF RetryDue, LoopHasRow, PartsOwned, OneFate, TypeOK, States,
     Snapshots
<1>14. CASE Allocate
  BY <1>14 DEF Allocate, LoopHasRow, PartsOwned, OneFate, TypeOK, States,
     Snapshots, Awaited
<1>15. CASE RecordIds
  BY <1>15 DEF RecordIds, LoopHasRow, PartsOwned, OneFate, TypeOK, States,
     Snapshots
<1>16. CASE RefuseIds
  BY <1>16 DEF RefuseIds, LoopHasRow, PartsOwned, OneFate, TypeOK, States,
     Snapshots
<1>17. CASE ReceiveCommit
  BY <1>17 DEF ReceiveCommit, LoopHasRow, PartsOwned, OneFate, TypeOK, States,
     Snapshots
<1>18. CASE CallErrs
  BY <1>18 DEF CallErrs, LoopHasRow, PartsOwned, OneFate, TypeOK, States,
     Snapshots
<1>19. CASE NativeSend
  BY <1>19 DEF NativeSend, LoopHasRow, PartsOwned, OneFate, TypeOK, States,
     Snapshots
<1>20. CASE CallReturns
  BY <1>20 DEF CallReturns, LoopHasRow, PartsOwned, OneFate, TypeOK, States,
     Snapshots, Settled, Awaited
<1>21. CASE CallRejected
  BY <1>21 DEF CallRejected, LoopHasRow, PartsOwned, OneFate, TypeOK, States,
     Snapshots, MarkedUnknown
<1>22. CASE BackendDies
  BY <1>22 DEF BackendDies, LoopHasRow, PartsOwned, OneFate, TypeOK, States,
     Snapshots, MarkedUnknown
<1>23. CASE BackendTerminated
  BY <1>23 DEF BackendTerminated, LoopHasRow, PartsOwned, OneFate, TypeOK,
     States, Snapshots
<1>24. CASE Crash
  BY <1>24 DEF Crash, LoopHasRow, PartsOwned, OneFate, TypeOK, States,
     Snapshots
<1>25. ASSUME NEW i \in Ids, ForeignMessage(i) PROVE OneFate'
  BY <1>25 DEF ForeignMessage, LoopHasRow, PartsOwned, OneFate, TypeOK,
     States, Snapshots
<1>26. ASSUME NEW i \in Ids, TransportAccepts(i) PROVE OneFate'
  BY <1>26 DEF TransportAccepts, LoopHasRow, PartsOwned, OneFate, TypeOK,
     States, Snapshots
<1>27. ASSUME NEW i \in Ids, JournalUpsert(i) PROVE OneFate'
  BY <1>27 DEF JournalUpsert, LoopHasRow, PartsOwned, OneFate, TypeOK, States,
     Snapshots, Snapshot
<1>28. ASSUME NEW i \in Ids, RetainedConfirm(i) PROVE OneFate'
  BY <1>28 DEF RetainedConfirm, LoopHasRow, PartsOwned, OneFate, TypeOK,
     States, Snapshots, Observe
<1>29. ASSUME NEW i \in Ids, NEW e \in Snapshots, EchoObserve(i, e)
       PROVE  OneFate'
  BY <1>29 DEF EchoObserve, LoopHasRow, PartsOwned, OneFate, TypeOK, States,
     Snapshots, Observe
<1>30. ASSUME NEW i \in Ids, NEW e \in Snapshots, ProjectForeign(i, e)
       PROVE  OneFate'
  BY <1>30 DEF ProjectForeign, LoopHasRow, PartsOwned, OneFate, TypeOK,
     States, Snapshots
<1>31. CASE UNCHANGED vars
  BY <1>31 DEF vars, LoopHasRow, PartsOwned, OneFate, TypeOK, States,
     Snapshots
<1>q. QED
  BY <1>1, <1>2, <1>3, <1>4, <1>5, <1>6, <1>7, <1>8, <1>9, <1>10, <1>11,
     <1>12, <1>13, <1>14, <1>15, <1>16, <1>17, <1>18, <1>19, <1>20, <1>21,
     <1>22, <1>23, <1>24, <1>25, <1>26, <1>27, <1>28, <1>29, <1>30, <1>31
  DEF Next, LoopStep, CallStep, EvidenceStep

\* Every step keeps the waiting rows sorted between two drains.
LEMMA SortedStep ==
  ASSUME TypeOK, LoopHasRow, PartsOwned, FlushSorted, [Next]_vars
  PROVE  FlushSorted'
<1>1. CASE Start
  BY <1>1 DEF Start, LoopHasRow, PartsOwned, FlushSorted, Sourced, TypeOK,
     States, Snapshots, Recovered, Interrupted
<1>2. CASE EndDrain
  <2>1. PICK f \in [Requests -> 0..lastSlot] : Reordered(f) /\ slot' = f
    BY <1>2 DEF EndDrain
  <2>2. state' = state
    BY <1>2 DEF EndDrain
  <2>3. ASSUME NEW r \in Requests, NEW s \in Requests,
               state[r] = "PREPARED", state[s] = "PREPARED", ChatOf[r] = ChatOf[s],
               Sourced(ChatOf[r]), Source[r] < Source[s]
        PROVE  f[r] < f[s]
    <3>1. r \in Waiting(ChatOf[r]) /\ s \in Waiting(ChatOf[r])
      BY <2>3 DEF Waiting, Movable
    <3>2. Sortable(ChatOf[r]) /\ ChatOf[r] \in Chats
      BY <2>3, ConstantsAssumption DEF Sortable, Sourced, Waiting
    <3>q. QED
      BY <2>1, <2>3, <3>1, <3>2 DEF Reordered
  <2>q. QED
    BY <2>1, <2>2, <2>3 DEF FlushSorted, Sourced
<1>3. CASE BeginCheck
  BY <1>3 DEF BeginCheck, LoopHasRow, PartsOwned, FlushSorted, Sourced,
     TypeOK, States, Snapshots, NextPrepared, Eligible
<1>4. CASE CheckFails
  BY <1>4 DEF CheckFails, LoopHasRow, PartsOwned, FlushSorted, Sourced,
     TypeOK, States, Snapshots
<1>5. CASE Claim
  BY <1>5 DEF Claim, LoopHasRow, PartsOwned, FlushSorted, Sourced, TypeOK,
     States, Snapshots, StillNext, NextPrepared, Eligible
<1>6. CASE Decline
  BY <1>6 DEF Decline, LoopHasRow, PartsOwned, FlushSorted, Sourced, TypeOK,
     States, Snapshots
<1>7. CASE EndPass
  BY <1>7 DEF EndPass, LoopHasRow, PartsOwned, FlushSorted, Sourced, TypeOK,
     States, Snapshots
<1>8. CASE Stop
  BY <1>8 DEF Stop, LoopHasRow, PartsOwned, FlushSorted, Sourced, TypeOK,
     States, Snapshots
<1>9. CASE LoopExit
  BY <1>9 DEF LoopExit, LoopHasRow, PartsOwned, FlushSorted, Sourced, TypeOK,
     States, Snapshots
<1>10. CASE RetryPrepared
  BY <1>10 DEF RetryPrepared, LoopHasRow, PartsOwned, FlushSorted, Sourced,
     TypeOK, States, Snapshots
<1>11. ASSUME NEW r \in Requests, Prepare(r) PROVE FlushSorted'
  BY <1>11 DEF Prepare, LoopHasRow, PartsOwned, FlushSorted, Sourced, TypeOK,
     States, Snapshots, Acceptable
<1>12. ASSUME NEW r \in Requests, RejectEvent(r) PROVE FlushSorted'
  BY <1>12 DEF RejectEvent, LoopHasRow, PartsOwned, FlushSorted, Sourced,
     TypeOK, States, Snapshots
<1>13. ASSUME NEW r \in Requests, RetryDue(r) PROVE FlushSorted'
  BY <1>13 DEF RetryDue, LoopHasRow, PartsOwned, FlushSorted, Sourced, TypeOK,
     States, Snapshots
<1>14. CASE Allocate
  BY <1>14 DEF Allocate, LoopHasRow, PartsOwned, FlushSorted, Sourced, TypeOK,
     States, Snapshots, Awaited
<1>15. CASE RecordIds
  BY <1>15 DEF RecordIds, LoopHasRow, PartsOwned, FlushSorted, Sourced,
     TypeOK, States, Snapshots
<1>16. CASE RefuseIds
  BY <1>16 DEF RefuseIds, LoopHasRow, PartsOwned, FlushSorted, Sourced,
     TypeOK, States, Snapshots
<1>17. CASE ReceiveCommit
  BY <1>17 DEF ReceiveCommit, LoopHasRow, PartsOwned, FlushSorted, Sourced,
     TypeOK, States, Snapshots
<1>18. CASE CallErrs
  BY <1>18 DEF CallErrs, LoopHasRow, PartsOwned, FlushSorted, Sourced, TypeOK,
     States, Snapshots
<1>19. CASE NativeSend
  BY <1>19 DEF NativeSend, LoopHasRow, PartsOwned, FlushSorted, Sourced,
     TypeOK, States, Snapshots
<1>20. CASE CallReturns
  BY <1>20 DEF CallReturns, LoopHasRow, PartsOwned, FlushSorted, Sourced,
     TypeOK, States, Snapshots, Settled, Awaited
<1>21. CASE CallRejected
  BY <1>21 DEF CallRejected, LoopHasRow, PartsOwned, FlushSorted, Sourced,
     TypeOK, States, Snapshots, MarkedUnknown
<1>22. CASE BackendDies
  BY <1>22 DEF BackendDies, LoopHasRow, PartsOwned, FlushSorted, Sourced,
     TypeOK, States, Snapshots, MarkedUnknown
<1>23. CASE BackendTerminated
  BY <1>23 DEF BackendTerminated, LoopHasRow, PartsOwned, FlushSorted,
     Sourced, TypeOK, States, Snapshots
<1>24. CASE Crash
  BY <1>24 DEF Crash, LoopHasRow, PartsOwned, FlushSorted, Sourced, TypeOK,
     States, Snapshots
<1>25. ASSUME NEW i \in Ids, ForeignMessage(i) PROVE FlushSorted'
  BY <1>25 DEF ForeignMessage, LoopHasRow, PartsOwned, FlushSorted, Sourced,
     TypeOK, States, Snapshots
<1>26. ASSUME NEW i \in Ids, TransportAccepts(i) PROVE FlushSorted'
  BY <1>26 DEF TransportAccepts, LoopHasRow, PartsOwned, FlushSorted, Sourced,
     TypeOK, States, Snapshots
<1>27. ASSUME NEW i \in Ids, JournalUpsert(i) PROVE FlushSorted'
  BY <1>27 DEF JournalUpsert, LoopHasRow, PartsOwned, FlushSorted, Sourced,
     TypeOK, States, Snapshots, Snapshot
<1>28. ASSUME NEW i \in Ids, RetainedConfirm(i) PROVE FlushSorted'
  BY <1>28 DEF RetainedConfirm, LoopHasRow, PartsOwned, FlushSorted, Sourced,
     TypeOK, States, Snapshots, Observe
<1>29. ASSUME NEW i \in Ids, NEW e \in Snapshots, EchoObserve(i, e)
       PROVE  FlushSorted'
  BY <1>29 DEF EchoObserve, LoopHasRow, PartsOwned, FlushSorted, Sourced,
     TypeOK, States, Snapshots, Observe
<1>30. ASSUME NEW i \in Ids, NEW e \in Snapshots, ProjectForeign(i, e)
       PROVE  FlushSorted'
  BY <1>30 DEF ProjectForeign, LoopHasRow, PartsOwned, FlushSorted, Sourced,
     TypeOK, States, Snapshots
<1>31. CASE UNCHANGED vars
  BY <1>31 DEF vars, LoopHasRow, PartsOwned, FlushSorted, Sourced, TypeOK,
     States, Snapshots
<1>q. QED
  BY <1>1, <1>2, <1>3, <1>4, <1>5, <1>6, <1>7, <1>8, <1>9, <1>10, <1>11,
     <1>12, <1>13, <1>14, <1>15, <1>16, <1>17, <1>18, <1>19, <1>20, <1>21,
     <1>22, <1>23, <1>24, <1>25, <1>26, <1>27, <1>28, <1>29, <1>30, <1>31
  DEF Next, LoopStep, CallStep, EvidenceStep

-----------------------------------------------------------------------------
(* The inductive invariant and what follows from it.                       *)

\* IInv holds in every reachable state.
THEOREM Invariance == Spec => []IInv
<1>1. Init => IInv
  <2>1. Init => TypeOK
    <3>1. Init => halting \in BOOLEAN
      BY Zenon DEF Init
    <3>2. Init => /\ state \in [Requests -> States] /\ slot \in [Requests -> Nat]
                  /\ parts \in [Requests -> SUBSET Ids] /\ handed \in [Requests -> Nat]
                  /\ journaled \in [Ids -> Snapshots \cup {"none"}]
      BY DEF Init, States
    <3>q. QED
      BY <3>1, <3>2 DEF Init, TypeOK
  <2>2. Init => SlotsDistinct /\ LoopHasRow /\ NoOrphanClaim /\ AtMostOnce
    BY DEF Init, SlotsDistinct, LoopHasRow, NoOrphanClaim, AtMostOnce
  <2>3. Init => AttemptOrder /\ DispatchLeads /\ OneFate /\ FlushSorted
    BY DEF Init, AttemptOrder, DispatchLeads, OneFate, FlushSorted
  <2>4. Init => PartsOwned /\ OwnedBeforeNative /\ EvidenceTrail
    BY DEF Init, PartsOwned, OwnedBeforeNative, EvidenceTrail
  <2>5. Init => ForeignApart /\ CallLeads
    BY DEF Init, ForeignApart, CallLeads, Recorded
  <2>q. QED
    BY <2>1, <2>2, <2>3, <2>4, <2>5 DEF IInv
<1>2. ASSUME IInv, [Next]_vars PROVE IInv'
  <2>1. TypeOK' /\ SlotsDistinct'
    BY <1>2, TypeStep, SlotStep DEF IInv
  <2>2. LoopHasRow' /\ NoOrphanClaim' /\ AtMostOnce'
    BY <1>2, LoopStepKeeps DEF IInv
  <2>3. AttemptOrder' /\ DispatchLeads'
    BY <1>2, OrderStep DEF IInv
  <2>4. PartsOwned' /\ EvidenceTrail'
    BY <1>2, PartsStep, EvidenceKept DEF IInv
  <2>5. OwnedBeforeNative' /\ ForeignApart'
    BY <1>2, OwnershipStep DEF IInv
  <2>6. CallLeads'
    BY <1>2, CallStepKeeps DEF IInv
  <2>7. OneFate' /\ FlushSorted'
    BY <1>2, FateStep, SortedStep DEF IInv
  <2>q. QED
    BY <2>1, <2>2, <2>3, <2>4, <2>5, <2>6, <2>7 DEF IInv
<1>q. QED
  BY <1>1, <1>2, PTL DEF Spec

\* Every variable keeps its type.
THEOREM TypeCorrect == Spec => []TypeOK
<1>1. IInv => TypeOK
  BY DEF IInv
<1>q. QED
  BY <1>1, Invariance, PTL

\* No failure, crash or restart gives a request to the backend twice.
THEOREM SendsAtMostOnce == Spec => []AtMostOnce
<1>1. IInv => AtMostOnce
  BY DEF IInv
<1>q. QED
  BY <1>1, Invariance, PTL

\* A claim is left behind neither by its send nor by its process.
THEOREM NoClaimLeft == Spec => []NoOrphanClaim
<1>1. IInv => NoOrphanClaim
  BY DEF IInv
<1>q. QED
  BY <1>1, Invariance, PTL

\* Every message the outbox put into Threema has its owner on disk.
THEOREM MessagesOwned == Spec => []OwnedBeforeNative
<1>1. IInv => OwnedBeforeNative
  BY DEF IInv
<1>q. QED
  BY <1>1, Invariance, PTL

\* An acknowledged request is in Threema, whole and with delivery evidence.
THEOREM AckMeansDelivered == Spec => []AckedIsEvidenced
<1>1. IInv => AckedIsEvidenced
  BY DEF IInv, EvidenceTrail, AckedIsEvidenced
<1>q. QED
  BY <1>1, Invariance, PTL

\* A message of the owner's is never shown in the room a second time.
THEOREM NoEchoTwice == Spec => []NoDuplicateProjection
<1>1. IInv => NoDuplicateProjection
  BY DEF IInv, ForeignApart, NoDuplicateProjection
<1>q. QED
  BY <1>1, Invariance, PTL

\* A chat is attempted in queue order and no claim is left behind.
THEOREM QueueOrder == Spec => [](AttemptOrder /\ NoOrphanClaim)
<1>1. IInv => AttemptOrder /\ NoOrphanClaim
  BY DEF IInv
<1>q. QED
  BY <1>1, Invariance, PTL

\* No event is both sent and refused.
THEOREM FateDecided == Spec => []OneFate
<1>1. IInv => OneFate
  BY DEF IInv
<1>q. QED
  BY <1>1, Invariance, PTL

-----------------------------------------------------------------------------
(* Action properties.                                                      *)

\* Acknowledgement is final.
THEOREM AckIsFinal == Spec => AckedForever
<1>1. ASSUME IInv, [Next]_vars, NEW r \in Requests, state[r] = "ACKED"
      PROVE  state'[r] = "ACKED"
  <2>0. TypeOK /\ LoopHasRow
    BY <1>1 DEF IInv
  <2>1. CASE Start
    BY <1>1, <2>0, <2>1 DEF Start, Recovered, Interrupted, TypeOK
  <2>2. CASE Claim
    BY <1>1, <2>0, <2>2 DEF Claim, StillNext, NextPrepared, Eligible, LoopHasRow, TypeOK
  <2>3. CASE CallReturns
    BY <1>1, <2>0, <2>3 DEF CallReturns, Awaited, Settled, LoopHasRow, TypeOK
  <2>4. CASE CallRejected
    BY <1>1, <2>0, <2>4 DEF CallRejected, MarkedUnknown, LoopHasRow, TypeOK
  <2>5. CASE BackendDies
    BY <1>1, <2>0, <2>5 DEF BackendDies, MarkedUnknown, LoopHasRow, TypeOK
  <2>6. ASSUME NEW s \in Requests, Prepare(s) PROVE state'[r] = "ACKED"
    BY <1>1, <2>0, <2>6 DEF Prepare, Acceptable, TypeOK
  <2>7. ASSUME NEW i \in Ids, RetainedConfirm(i) PROVE state'[r] = "ACKED"
    BY <1>1, <2>0, <2>7 DEF RetainedConfirm, Observe, TypeOK
  <2>8. ASSUME NEW i \in Ids, NEW e \in Snapshots, EchoObserve(i, e) PROVE state'[r] = "ACKED"
    BY <1>1, <2>0, <2>8 DEF EchoObserve, Observe, TypeOK
  <2>9. CASE state' = state
    BY <1>1, <2>9
  <2>q. QED
    BY <1>1, <2>1, <2>2, <2>3, <2>4, <2>5, <2>6, <2>7, <2>8, <2>9
    DEF Next, LoopStep, CallStep, EvidenceStep, vars, EndDrain, BeginCheck, CheckFails,
        Decline, EndPass, Stop, LoopExit, RetryPrepared, RejectEvent, RetryDue, Allocate,
        RecordIds, RefuseIds, ReceiveCommit, CallErrs, NativeSend, BackendTerminated, Crash,
        ForeignMessage, TransportAccepts, JournalUpsert, ProjectForeign
<1>2. IInv /\ [Next]_vars =>
        [\A r \in Requests : state[r] = "ACKED" => state'[r] = "ACKED"]_vars
  BY <1>1
<1>q. QED
  BY <1>2, Invariance, PTL DEF Spec, AckedForever

\* A claim takes the earliest source event waiting in its chat.
THEOREM ClaimsFollowSource == Spec => ClaimsInSourceOrder
<1>1. ASSUME IInv, [Next]_vars, NEW r \in Requests, NEW s \in Requests,
             state[r] = "PREPARED", state'[r] = "DISPATCHING",
             state[s] = "PREPARED", ChatOf[s] = ChatOf[r], Sourced(ChatOf[r])
      PROVE  Source[r] <= Source[s]
  <2>0. TypeOK /\ LoopHasRow /\ SlotsDistinct /\ FlushSorted /\ PartsOwned
    BY <1>1 DEF IInv
  <2>1. Claim /\ cur = r
    <3>1. CASE Claim
      BY <1>1, <2>0, <3>1 DEF Claim, LoopHasRow, TypeOK
    <3>2. CASE Start
      BY <1>1, <3>2 DEF Start, Recovered, Interrupted
    <3>3. CASE CallReturns
      BY <1>1, <2>0, <3>3 DEF CallReturns, Awaited, Settled, LoopHasRow, TypeOK
    <3>4. CASE CallRejected
      BY <1>1, <2>0, <3>4 DEF CallRejected, MarkedUnknown, LoopHasRow, TypeOK
    <3>5. CASE BackendDies
      BY <1>1, <2>0, <3>5 DEF BackendDies, MarkedUnknown, LoopHasRow, TypeOK
    <3>6. CASE \E q \in Requests : Prepare(q)
      BY <1>1, <2>0, <3>6 DEF Prepare, Acceptable, TypeOK
    <3>7. CASE \E i \in Ids : RetainedConfirm(i)
      BY <1>1, <2>0, <3>7 DEF RetainedConfirm, Observe, TypeOK
    <3>8. CASE \E i \in Ids, e \in Snapshots : EchoObserve(i, e)
      BY <1>1, <2>0, <3>8 DEF EchoObserve, Observe, TypeOK
    <3>9. CASE state' = state
      BY <1>1, <3>9
    <3>q. QED
      BY <1>1, <3>1, <3>2, <3>3, <3>4, <3>5, <3>6, <3>7, <3>8, <3>9
      DEF Next, LoopStep, CallStep, EvidenceStep, vars, EndDrain, BeginCheck, CheckFails,
          Decline, EndPass, Stop, LoopExit, RetryPrepared, RejectEvent, RetryDue, Allocate,
          RecordIds, RefuseIds, ReceiveCommit, CallErrs, NativeSend, BackendTerminated,
          Crash, ForeignMessage, TransportAccepts, JournalUpsert, ProjectForeign
  <2>2. ~(slot[s] < slot[r])
    BY <1>1, <2>0, <2>1
    DEF Claim, StillNext, NextPrepared, Eligible, Blocking, Before, SlotsDistinct, TypeOK
  <2>3. Source[s] < Source[r] => slot[s] < slot[r]
    BY <1>1, <2>0, <2>1 DEF FlushSorted, Claim
  <2>q. QED
    BY <2>2, <2>3, ConstantsAssumption
<1>2. IInv /\ [Next]_vars =>
        [\A r, s \in Requests :
           /\ state[r] = "PREPARED" /\ state'[r] = "DISPATCHING"
           /\ state[s] = "PREPARED" /\ ChatOf[s] = ChatOf[r] /\ Sourced(ChatOf[r])
           => Source[r] <= Source[s]]_vars
  BY <1>1
<1>q. QED
  BY <1>2, Invariance, PTL DEF Spec, ClaimsInSourceOrder

-----------------------------------------------------------------------------
(* Refinement.                                                             *)

\* The outbox implements AtMostOnceDelivery: once, in order, never confirmed
\* without being delivered.
THEOREM Refinement == Spec => DeliversAtMostOnce
<1> DEFINE Delivered == {r \in Requests : parts[r] \cap native # {}}
           Accepted == {r \in Requests : state[r] # "absent"}
           Confirmed == {r \in Requests : state[r] = "ACKED"}
<1>1. Init => Abs!Init
  BY DEF Init, Abs!Init
<1>2. ASSUME IInv, [Next]_vars PROVE [Abs!Next]_(Abs!vars)
  <2>0. /\ TypeOK /\ SlotsDistinct /\ LoopHasRow /\ PartsOwned /\ EvidenceTrail
        /\ OwnedBeforeNative /\ CallLeads /\ OneFate
    BY <1>2 DEF IInv
  <2>1. ASSUME UNCHANGED <<rejected, slot, parts, native>>,
               \A r \in Requests : /\ state[r] = "absent" <=> state'[r] = "absent"
                                   /\ state[r] = "ACKED" <=> state'[r] = "ACKED"
        PROVE  UNCHANGED Abs!vars
    <3>1. Accepted' = Accepted
      BY <2>1
    <3>2. Confirmed' = Confirmed
      BY <2>1
    <3>3. Delivered' = Delivered
      BY <2>1
    <3>q. QED
      BY <2>1, <3>1, <3>2, <3>3 DEF Abs!vars
  <2>2. CASE Start
    <3>1. \A r \in Requests : /\ state[r] = "absent" <=> state'[r] = "absent"
                              /\ state[r] = "ACKED" <=> state'[r] = "ACKED"
      BY <2>0, <2>2 DEF Start, Recovered, Interrupted, TypeOK
    <3>q. QED
      BY <2>1, <2>2, <3>1 DEF Start
  <2>3. CASE Claim
    <3>1. \A r \in Requests : /\ state[r] = "absent" <=> state'[r] = "absent"
                              /\ state[r] = "ACKED" <=> state'[r] = "ACKED"
      BY <2>0, <2>3 DEF Claim, StillNext, NextPrepared, Eligible, LoopHasRow, TypeOK
    <3>q. QED
      BY <2>1, <2>3, <3>1 DEF Claim
  <2>4. CASE CallReturns
    <3>1. \A r \in Requests : /\ state[r] = "absent" <=> state'[r] = "absent"
                              /\ state[r] = "ACKED" <=> state'[r] = "ACKED"
      BY <2>0, <2>4 DEF CallReturns, Awaited, Settled, LoopHasRow, TypeOK
    <3>q. QED
      BY <2>1, <2>4, <3>1 DEF CallReturns
  <2>5. CASE CallRejected
    <3>1. \A r \in Requests : /\ state[r] = "absent" <=> state'[r] = "absent"
                              /\ state[r] = "ACKED" <=> state'[r] = "ACKED"
      BY <2>0, <2>5 DEF CallRejected, MarkedUnknown, LoopHasRow, TypeOK
    <3>q. QED
      BY <2>1, <2>5, <3>1 DEF CallRejected
  <2>6. CASE BackendDies
    <3>1. \A r \in Requests : /\ state[r] = "absent" <=> state'[r] = "absent"
                              /\ state[r] = "ACKED" <=> state'[r] = "ACKED"
      BY <2>0, <2>6 DEF BackendDies, MarkedUnknown, LoopHasRow, TypeOK
    <3>q. QED
      BY <2>1, <2>6, <3>1 DEF BackendDies
  <2>7. ASSUME NEW r \in Requests, Prepare(r) PROVE Abs!Accept(r)
    <3>1. /\ state' = [state EXCEPT ![r] = "PREPARED"] /\ state[r] = "absent" /\ r \notin rejected
          /\ slot' = [slot EXCEPT ![r] = lastSlot + 1]
          /\ UNCHANGED <<rejected, parts, native>>
      BY <2>7 DEF Prepare, Acceptable
    <3>2. Accepted' = Accepted \cup {r} /\ r \notin Accepted /\ Confirmed' = Confirmed
      BY <2>0, <3>1 DEF TypeOK
    <3>3. Delivered' = Delivered
      BY <3>1
    <3>4. /\ slot' \in [Requests -> Nat] /\ slot' = [slot EXCEPT ![r] = slot'[r]]
          /\ \A s \in Accepted : slot[s] < slot'[r]
      BY <2>0, <3>1 DEF TypeOK, SlotsDistinct
    <3>q. QED
      BY <3>1, <3>2, <3>3, <3>4 DEF Abs!Accept
  <2>8. ASSUME NEW r \in Requests, RejectEvent(r) PROVE Abs!Refuse(r)
    BY <2>8 DEF RejectEvent, Abs!Refuse
  <2>9. CASE EndDrain
    <3>1. \A r \in Delivered : slot'[r] = slot[r]
      BY <2>0, <2>9 DEF EndDrain, Reordered, Movable, PartsOwned
    <3>2. slot' \in [Requests -> Nat]
      BY <2>0, <2>9 DEF EndDrain, TypeOK
    <3>q. QED
      BY <2>9, <3>1, <3>2 DEF EndDrain, Abs!Reschedule, Abs!Next
  <2>10. CASE RecordIds
    <3>1. /\ cur \in Requests /\ parts' = [parts EXCEPT ![cur] = callIds]
          /\ parts[cur] # {} => parts[cur] = callIds
          /\ callIds \cap native = {}
          /\ UNCHANGED <<state, slot, rejected, native>>
      BY <2>0, <2>10 DEF RecordIds, Allocatable, Awaited, LoopHasRow, CallLeads
    <3>2. Delivered' = Delivered
      BY <2>0, <3>1 DEF TypeOK
    <3>q. QED
      BY <3>1, <3>2 DEF Abs!vars
  <2>11. CASE NativeSend
    <3>1. PICK S \in SUBSET callIds : native' = native \cup S
      BY <2>11 DEF NativeSend
    <3>2. call = "granted" /\ UNCHANGED <<state, slot, rejected, parts>>
      BY <2>11 DEF NativeSend
    <3>3. PICK r \in Requests :
            /\ parts[r] = callIds
            /\ state[r] \in {"DISPATCHING", "OUTCOME_UNKNOWN"}
            /\ \A s \in Requests : Before(r, s) => state[s] \notin Attempted
      BY <2>0, <3>2 DEF CallLeads
    <3>4. \A s \in Requests : s # r => parts[s] \cap S = {}
      BY <2>0, <3>1, <3>3 DEF PartsOwned
    <3>5. r \notin Delivered
      BY <2>0, <3>2, <3>3 DEF CallLeads
    <3>6. CASE S = {}
      BY <3>1, <3>2, <3>6 DEF Abs!vars
    <3>7. CASE S # {}
      <4>1. Delivered' = Delivered \cup {r}
        BY <3>1, <3>2, <3>3, <3>4, <3>7
      <4>2. ASSUME NEW s \in Delivered, ChatOf[r] = ChatOf[s] PROVE slot[s] < slot[r]
        <5>1. s # r /\ state[s] \in Attempted
          BY <2>0, <3>5 DEF PartsOwned
        <5>2. slot[s] # slot[r] /\ slot[r] \in Nat /\ slot[s] \in Nat /\ slot[r] # 0
          BY <2>0, <3>3, <5>1 DEF SlotsDistinct, TypeOK
        <5>3. ~Before(r, s)
          BY <3>3, <5>1
        <5>q. QED
          BY <4>2, <5>2, <5>3 DEF Before
      <4>3. Abs!Deliver(r)
        BY <3>2, <3>3, <3>5, <4>1, <4>2 DEF Abs!Deliver, Abs!SameChat
      <4>q. QED
        BY <4>3 DEF Abs!Next
    <3>q. QED
      BY <3>6, <3>7
  <2>12. ASSUME NEW i \in Ids, Observe(i), UNCHANGED <<slot, rejected, parts, native>>,
                i \in evidenced
         PROVE  [Abs!Next]_(Abs!vars)
    <3>1. PICK r \in Requests :
            /\ i \in parts[r]
            /\ state' \in {state, [state EXCEPT ![r] = "ACKED"]}
      BY <2>12 DEF Observe
    <3>2. state[r] \in Attempted /\ r \in Delivered
      BY <2>0, <2>12, <3>1 DEF PartsOwned, EvidenceTrail
    <3>3. CASE state' = state
      BY <2>1, <2>12, <3>3
    <3>4. CASE state[r] = "ACKED"
      BY <2>0, <2>1, <2>12, <3>1, <3>4 DEF TypeOK
    <3>5. CASE state' = [state EXCEPT ![r] = "ACKED"] /\ state[r] # "ACKED"
      <4>1. Accepted' = Accepted /\ Confirmed' = Confirmed \cup {r} /\ Delivered' = Delivered
        BY <2>0, <2>12, <3>2, <3>5 DEF TypeOK
      <4>2. Abs!Confirm(r)
        BY <2>12, <3>2, <3>5, <4>1 DEF Abs!Confirm
      <4>q. QED
        BY <4>2 DEF Abs!Next
    <3>q. QED
      BY <3>1, <3>3, <3>4, <3>5
  <2>13. ASSUME NEW i \in Ids, RetainedConfirm(i) PROVE [Abs!Next]_(Abs!vars)
    <3>1. i \in evidenced
      BY <2>0, <2>13 DEF RetainedConfirm, Convincing, EvidenceTrail
    <3>q. QED
      BY <2>12, <2>13, <3>1 DEF RetainedConfirm
  <2>14. ASSUME NEW i \in Ids, NEW e \in Snapshots, EchoObserve(i, e)
         PROVE  [Abs!Next]_(Abs!vars)
    <3>1. CASE e = "confirmed"
      <4>1. i \in evidenced
        BY <2>0, <2>14, <3>1 DEF EchoObserve, FirstChange, EvidenceTrail
      <4>q. QED
        BY <2>12, <2>14, <3>1, <4>1 DEF EchoObserve
    <3>2. CASE e # "confirmed"
      BY <2>1, <2>14, <3>2 DEF EchoObserve
    <3>q. QED
      BY <3>1, <3>2
  <2>15. CASE UNCHANGED <<state, slot, rejected, parts, native>>
    BY <2>1, <2>15
  <2>q. QED
    BY <1>2, <2>2, <2>3, <2>4, <2>5, <2>6, <2>7, <2>8, <2>9, <2>10, <2>11, <2>13, <2>14, <2>15
    DEF Next, LoopStep, CallStep, EvidenceStep, vars, BeginCheck, CheckFails,
        Decline, EndPass, Stop, LoopExit, RetryPrepared, RetryDue, Allocate,
        RefuseIds, ReceiveCommit, CallErrs, BackendTerminated, Crash,
        ForeignMessage, TransportAccepts, JournalUpsert, ProjectForeign, Abs!Next
<1>q. QED
  BY <1>1, <1>2, Invariance, PTL DEF Spec, DeliversAtMostOnce, Abs!Spec
=============================================================================
