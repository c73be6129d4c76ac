------------------------------ MODULE HostProofs ------------------------------
(***************************************************************************)
(* Proofs about the bridge as a process of its host: Service, and Backup,  *)
(* which has nothing in common with it but the profile and its locks.      *)
(*                                                                         *)
(* Service: whoever uses the stores, their keys and locks is gone before   *)
(* they are closed, at whatever step the start fails and whenever it is    *)
(* told to end; and the registry of prepared files never removes a file    *)
(* that a send has claimed, and forgets no other.                          *)
(* The steps are of three kinds: the service's own, those of the thread    *)
(* and its controller, and those of the supervisor of the proxy.  The      *)
(* service touches the thread only by asking and by stopping it, so        *)
(* FilesInv is the registry's own and OpenInv and CloseInv are the         *)
(* service's: where the start is says what is open, and how far close has  *)
(* come says what is closed.                                               *)
(*                                                                         *)
(* Backup: ArchivesSound and PublishedWhole for any number of archives,    *)
(* any number to keep and any number of faults.                            *)
(* That an archive is sound rests on the locks: while the script copies it *)
(* has both, so no bridge has the databases open and the data stand still. *)
(* That what is published is whole rests on the order in which a place is  *)
(* filled, made durable and linked, and on a power loss taking back no     *)
(* more than what is not durable.                                          *)
(***************************************************************************)
EXTENDS Service, Backup, TLAPS

\* What the registry says of a file, and what was done with it.
FileInv(f) ==
  /\ registry[f] \in {"undoing", "prepared", "discarding"} => f \in disk \ attempted
  /\ registry[f] = "storing" => f \notin attempted
  /\ registry[f] = "claimed" => f \in attempted
  /\ f \in disk => \/ f \in attempted \cup stuck
                   \/ registry[f] \in {"undoing", "prepared", "discarding"}
  /\ f \in attempted => f \in disk /\ work[f] \in {"sending", "over"}
  /\ closing \in {"removing", "closed"} => registry[f] \in {"none", "prepared", "claimed"}
  /\ call["close"] = "ok" => registry[f] \in {"none", "claimed"}
  /\ flow[f] = "data" => got[f] < Packets
FilesInv ==
  /\ \A f \in Files : FileInv(f)
  /\ call["close"] = "ok" => closing = "closed"

\* The worker lives once, and a profile is locked by a living one.
WorkerInv ==
  /\ thread = "none" => stopping = "no" /\ graceful = "no"
  /\ stopping = "done" => thread = "gone"
  /\ locked => thread \in {"booting", "serving"}

\* What each step of the start finds and leaves.
BeforeThread == {"registration", "proxy", "resources", "profile"}
BeforeRuntime == BeforeThread \cup {"opening", "givingUp", "matrix", "owner", "media", "states"}
WithMatrix == {"owner", "media", "states", "listen", "runtime", "starting", "up"}
OpenInv ==
  /\ pc \in {"registration", "proxy", "resources"} => resources = "none"
  /\ pc \notin {"registration", "proxy", "resources", "failed", "closing"} => resources = "open"
  /\ resources = "none" => thread = "none" /\ matrix = "none" /\ server = "none"
                           /\ runtime = "none" /\ loop = "none"
  /\ pc \in BeforeThread => thread = "none"
  /\ pc = "matrix" \/ pc \in WithMatrix => profile
  /\ profile \/ pc \in {"opening", "givingUp"} \/ runtime # "none" => thread # "none"
  /\ pc \in {"failed", "closing"} /\ ~profile => ~InThread
  /\ pc \in WithMatrix => matrix = "open"
  /\ pc \in BeforeRuntime => runtime = "none"
  /\ pc \in {"listen", "runtime"} => runtime = "idle"
  /\ pc = "up" => runtime = "running"
  /\ pc \in BeforeRuntime \cup {"listen", "runtime"} => loop = "none"
  /\ runtime # "none" => matrix # "none"
  /\ runtime \in {"none", "idle", "starting"} => sync = "off" /\ delivery = "off" /\ FilesIdle
  /\ runtime = "stopped" => LoopsOver
  /\ supervised # "none" => loop = "child"

\* How far close has come.
MatrixClosed == {"resources", "done"}
ThreadEnded == {"matrix"} \cup MatrixClosed
RuntimeEnded == {"profile", "thread"} \cup ThreadEnded
ServerClosed == {"runtime"} \cup RuntimeEnded
CloseInv ==
  /\ closeStep = "no" <=> pc # "closing"
  /\ closeStep \in ServerClosed => server # "open" /\ loop \in {"none", "over"}
  /\ closeStep \in RuntimeEnded => runtime \in {"none", "stopped"}
  /\ closeStep \in ThreadEnded => ~InThread
  /\ closeStep \in MatrixClosed => matrix # "open"
  /\ matrix = "closed" => closeStep \in MatrixClosed
  /\ resources = "closed" => closeStep = "done"

IInv == ServiceTypeOK /\ FilesInv /\ WorkerInv /\ OpenInv /\ CloseInv

-----------------------------------------------------------------------------
(* What the service does to the thread: it asks, and it stops it.           *)

ThreadTypes == thread \in {"none", "booting", "serving", "failing", "gone"} /\ locked \in BOOLEAN
ControlTypes ==
  /\ ready \in {"pending", "yes", "no"} /\ stopped \in BOOLEAN /\ draining \in BOOLEAN
  /\ graceful \in {"no", "closing", "over"} /\ stopping \in {"no", "asked", "done"}
  /\ call \in [Calls -> {"none", "awaiting", "pending", "ok", "failed"}]
WorkTypes == work \in [Files -> {"new", "preparing", "prepared", "doomed", "sending",
                                 "discarding", "over"}]
StoreTypes ==
  /\ registry \in [Files -> {"none", "storing", "undoing", "prepared", "claimed", "discarding"}]
  /\ disk \in SUBSET Files /\ attempted \in SUBSET Files /\ owned \in SUBSET attempted
  /\ stuck \in SUBSET Files
  /\ closing \in {"no", "waiting", "removing", "closed"}
StreamTypes ==
  /\ flow \in [Files -> {"idle", "pull", "data", "end", "broken"}] /\ got \in [Files -> 0..Packets]
LEMMA BackendTypes == BackendTypeOK <=> ThreadTypes /\ ControlTypes /\ WorkTypes /\ StoreTypes /\ StreamTypes
  BY DEF BackendTypeOK, ThreadTypes, ControlTypes, WorkTypes, StoreTypes, StreamTypes

\* A request of the service is asked for, or its answer taken: no other call changes, and
\* none is answered.
LEMMA AskedKept ==
  ASSUME ControlTypes, NEW c \in Calls, NEW s \in {"none", "awaiting"},
         UNCHANGED controlVars, call' = [call EXCEPT ![c] = s]
  PROVE  ControlTypes' /\ (call'["close"] = "ok" => call["close"] = "ok")
<1>1. "close" \in Calls
  BY DEF Calls
<1>q. QED BY <1>1 DEF ControlTypes, controlVars

\* A graceful stop begins once; it asks for the removal of the prepared files.
LEMMA StopKept ==
  ASSUME ControlTypes, Stop \/ UNCHANGED <<controlVars, call>>
  PROVE  /\ ControlTypes' /\ (call'["close"] = "ok" => call["close"] = "ok")
         /\ UNCHANGED stopping /\ (UNCHANGED graceful \/ (Stop /\ graceful' = "closing"))
<1>1. "close" \in Calls
  BY DEF Calls
<1>2. CASE UNCHANGED <<controlVars, call>>
  BY <1>2 DEF ControlTypes, controlVars
<1>3. CASE Stop /\ ~(stopping # "no" \/ graceful # "no")
  BY <1>1, <1>3 DEF ControlTypes, Stop, Asked
<1>4. CASE Stop /\ (stopping # "no" \/ graceful # "no")
  BY <1>4 DEF ControlTypes, Stop, controlVars
<1>q. QED BY <1>2, <1>3, <1>4

\* What every step of the service, and most of the thread, leaves: the registry and the streams.
LeavesFiles ==
  /\ ThreadTypes' /\ ControlTypes' /\ WorkTypes' /\ UNCHANGED <<storeVars, streamVars>>
  /\ call'["close"] = "ok" => call["close"] = "ok"
  /\ \A f \in Files : work[f] \in {"sending", "over"} => work'[f] \in {"sending", "over"}
  /\ WorkerInv'
LEMMA FilesLeft ==
  ASSUME FilesInv, LeavesFiles
  PROVE  FilesInv'
  BY DEF FilesInv, FileInv, LeavesFiles, storeVars, streamVars
LEMMA TypesLeft ==
  ASSUME BackendTypeOK, LeavesFiles
  PROVE  BackendTypeOK'
  BY DEF BackendTypeOK, LeavesFiles, storeVars, streamVars, ThreadTypes, ControlTypes, WorkTypes

-----------------------------------------------------------------------------
(* Every step of the service only asks.                                      *)

LEMMA NothingAsked ==
  ASSUME IInv, UNCHANGED backendVars
  PROVE  LeavesFiles
<1>1. ThreadTypes /\ ControlTypes /\ WorkTypes
  BY BackendTypes DEF IInv, ServiceTypeOK
<1>2. ThreadTypes' /\ ControlTypes' /\ WorkTypes' /\ WorkerInv'
  BY <1>1 DEF IInv, backendVars, threadVars, controlVars, fileVars, ThreadTypes, ControlTypes, WorkTypes,
              WorkerInv
<1>q. QED
  BY <1>2 DEF LeavesFiles, backendVars, fileVars

LEMMA StopAsks ==
  ASSUME IInv, thread # "none" \/ UNCHANGED <<controlVars, call>>, Stop \/ UNCHANGED <<controlVars, call>>,
         UNCHANGED <<threadVars, fileVars>>
  PROVE  LeavesFiles
<1>1. ThreadTypes /\ ControlTypes /\ WorkTypes /\ WorkerInv
  BY BackendTypes DEF IInv, ServiceTypeOK
<1>2. ThreadTypes' /\ WorkTypes' /\ UNCHANGED <<work, storeVars, streamVars, thread, locked>>
  BY <1>1 DEF threadVars, fileVars, ThreadTypes, WorkTypes
<1>3. /\ ControlTypes' /\ (call'["close"] = "ok" => call["close"] = "ok")
      /\ UNCHANGED stopping /\ (UNCHANGED graceful \/ (Stop /\ graceful' = "closing"))
  BY <1>1, StopKept
<1>4. WorkerInv'
  BY <1>1, <1>2, <1>3 DEF WorkerInv, controlVars
<1>q. QED
  BY <1>2, <1>3, <1>4 DEF LeavesFiles

LEMMA RequestAsks ==
  ASSUME IInv, NEW c \in Calls, NEW s \in {"none", "awaiting"}, call' = [call EXCEPT ![c] = s],
         UNCHANGED <<controlVars, fileVars>>,
         UNCHANGED threadVars \/ (thread = "none" /\ thread' = "booting" /\ UNCHANGED locked)
  PROVE  LeavesFiles
<1>1. ThreadTypes /\ ControlTypes /\ WorkTypes /\ WorkerInv
  BY BackendTypes DEF IInv, ServiceTypeOK
<1>2. ThreadTypes' /\ WorkTypes' /\ UNCHANGED <<work, storeVars, streamVars>>
  BY <1>1 DEF threadVars, fileVars, ThreadTypes, WorkTypes
<1>3. ControlTypes' /\ (call'["close"] = "ok" => call["close"] = "ok")
  BY <1>1, AskedKept
<1>4. WorkerInv'
  BY <1>1 DEF WorkerInv, controlVars, threadVars
<1>q. QED
  BY <1>2, <1>3, <1>4 DEF LeavesFiles

\* A turn of the loop of files: only that file's work changes.
LEMMA TurnAsks ==
  ASSUME IInv, NEW f \in Files, NEW next, Turns(f, next),
         next \in {"preparing", "prepared", "doomed", "sending", "discarding", "over"},
         work[f] \in {"sending", "over"} => next \in {"sending", "over"},
         Asked(f) \/ UNCHANGED call
  PROVE  LeavesFiles
<1>1. ThreadTypes /\ ControlTypes /\ WorkTypes /\ WorkerInv
  BY BackendTypes DEF IInv, ServiceTypeOK
<1>2. /\ work' = [work EXCEPT ![f] = next]
      /\ UNCHANGED <<threadVars, controlVars, storeVars, streamVars>>
  BY DEF Turns, AtRest
<1>3. WorkTypes' /\ \A g \in Files : work[g] \in {"sending", "over"} => work'[g] \in {"sending", "over"}
  BY <1>1, <1>2 DEF WorkTypes
<1>4. ControlTypes' /\ (call'["close"] = "ok" => call["close"] = "ok")
  <2>1. CASE Asked(f)
    BY <1>1, <1>2, <2>1, AskedKept DEF Asked, Calls
  <2>2. CASE UNCHANGED call
    BY <1>1, <1>2, <2>2 DEF ControlTypes, controlVars
  <2>q. QED BY <2>1, <2>2
<1>5. ThreadTypes' /\ WorkerInv'
  BY <1>1, <1>2 DEF ThreadTypes, WorkerInv, controlVars, threadVars
<1>q. QED
  BY <1>2, <1>3, <1>4, <1>5 DEF LeavesFiles

LEMMA OpeningAsks ==
  ASSUME IInv, OpeningStep \/ StepFails
  PROVE  LeavesFiles
<1> USE DEF At, Apart
<1>1. CASE \/ ReadRegistration \/ OpenProxy \/ OpenResources \/ ProfileOpened \/ ProfileGivenUp
           \/ OpenMatrix \/ OpenOwner \/ CreateMedia \/ CreateRuntime \/ Listen \/ Started \/ StartFailed
           \/ StepFails
  <2>1. UNCHANGED backendVars
    BY <1>1 DEF ReadRegistration, OpenProxy, OpenResources, ProfileOpened, ProfileGivenUp, OpenMatrix,
                OpenOwner, CreateMedia, CreateRuntime, Listen, Started, StartFailed, StepFails
  <2>q. QED BY <2>1, NothingAsked
<1>2. CASE OpenProfile
  <2>1. CASE Cancelled
    <3>1. UNCHANGED backendVars
      BY <1>2, <2>1 DEF OpenProfile, backendVars
    <3>q. QED BY <3>1, NothingAsked
  <2>2. CASE ~Cancelled
    <3>1. thread = "none"
      BY <1>2 DEF OpenProfile, IInv, OpenInv, BeforeThread
    <3>2. /\ call' = [call EXCEPT !["open"] = "awaiting"] /\ thread' = "booting"
          /\ UNCHANGED <<locked, controlVars, fileVars>> /\ "open" \in Calls
      BY <1>2, <2>2 DEF OpenProfile, Spawn, Asked, Calls
    <3>q. QED BY <3>1, <3>2, RequestAsks
  <2>q. QED BY <2>1, <2>2
<1>3. CASE ProfileFails
  <2>1. thread # "none"
    BY <1>3 DEF ProfileFails, IInv, OpenInv
  <2>q. QED BY <1>3, <2>1, StopAsks DEF ProfileFails
<1>4. CASE StartRuntime
  BY <1>4, RequestAsks DEF StartRuntime, Asked, Calls
<1>q. QED BY <1>1, <1>2, <1>3, <1>4 DEF OpeningStep

\* The runtime has a thread to stop.
LEMMA RuntimeStopsAsks ==
  ASSUME IInv, RuntimeStops, UNCHANGED <<threadVars, fileVars>>
  PROVE  LeavesFiles
<1>1. runtime # "none" => thread # "none"
  BY DEF IInv, OpenInv
<1>q. QED BY <1>1, StopAsks DEF RuntimeStops

LEMMA LoopAsks ==
  ASSUME IInv, LoopStep
  PROVE  LeavesFiles
<1>1. CASE \/ Activated \/ RuntimeStopped \/ SyncReset \/ SyncStops
           \/ DeliveryBegins \/ DeliveryEnds \/ DeliveryStops
  <2>1. UNCHANGED backendVars
    BY <1>1 DEF Activated, RuntimeStopped, SyncReset, SyncStops, DeliveryBegins, DeliveryEnds,
                DeliveryStops, AtRest
  <2>q. QED BY <2>1, NothingAsked
<1>2. CASE ActivationFails
  BY <1>2, RuntimeStopsAsks DEF ActivationFails, AtRest
<1>3. CASE SyncAsks
  BY <1>3, RequestAsks DEF SyncAsks, AtRest, Asked, Calls
<1>4. CASE SyncAnswered
  BY <1>4, RequestAsks DEF SyncAnswered, AtRest, Calls
<1>5. ASSUME NEW f \in Files, AskPrepare(f) PROVE LeavesFiles
  BY <1>5, TurnAsks DEF AskPrepare
<1>6. ASSUME NEW f \in Files, FilePrepared(f) PROVE LeavesFiles
  <2> DEFINE next == IF call[f] = "ok" /\ runtime = "running" THEN "prepared" ELSE "over"
  <2>1. Turns(f, next) /\ work[f] = "preparing" /\ UNCHANGED call
    BY <1>6 DEF FilePrepared
  <2>2. next \in {"prepared", "over"}
    OBVIOUS
  <2> HIDE DEF next
  <2>q. QED BY <2>1, <2>2, TurnAsks
<1>7. ASSUME NEW f \in Files, AskSend(f) PROVE LeavesFiles
  BY <1>7, TurnAsks DEF AskSend
<1>8. ASSUME NEW f \in Files, AskDiscard(f) PROVE LeavesFiles
  BY <1>8, TurnAsks DEF AskDiscard
<1>9. ASSUME NEW f \in Files, FileSettled(f) PROVE LeavesFiles
  <2> DEFINE next == IF work[f] = "discarding" /\ call[f] = "failed" THEN "doomed" ELSE "over"
  <2>1. Turns(f, next) /\ work[f] \in {"sending", "discarding"} /\ UNCHANGED call
    BY <1>9 DEF FileSettled
  <2>2. next \in {"doomed", "over"} /\ (work[f] = "sending" => next = "over")
    OBVIOUS
  <2> HIDE DEF next
  <2>q. QED BY <2>1, <2>2, TurnAsks
<1>q. QED BY <1>1, <1>2, <1>3, <1>4, <1>5, <1>6, <1>7, <1>8, <1>9 DEF LoopStep

LEMMA ClosingAsks ==
  ASSUME IInv, ClosingStep \/ Abort \/ StartupExpires
  PROVE  LeavesFiles
<1>1. CASE CloseServer \/ AwaitRuntime \/ ProfileClosed \/ CloseMatrix \/ CloseResources
  <2>1. UNCHANGED backendVars
    BY <1>1 DEF CloseServer, AwaitRuntime, ProfileClosed, CloseMatrix, CloseResources, Apart
  <2>q. QED BY <2>1, NothingAsked
<1>2. CASE CloseFailed
  BY <1>2, RuntimeStopsAsks DEF CloseFailed
<1>3. CASE CloseProfile
  <2>1. profile => thread # "none"
    BY DEF IInv, OpenInv
  <2>q. QED BY <1>3, <2>1, StopAsks DEF CloseProfile
<1>4. CASE Abort
  BY <1>4, StopAsks DEF Abort, AbortThread
<1>5. CASE StartupExpires
  BY <1>5, StopAsks DEF StartupExpires, AbortThread
<1>q. QED BY <1>1, <1>2, <1>3, <1>4, <1>5 DEF ClosingStep

-----------------------------------------------------------------------------
(* The thread and its controller.                                            *)

\* The thread lives once: nothing but the opening of the profile starts it.
ThreadAges == (thread' = "none" <=> thread = "none") /\ (InThread' => InThread) /\ UNCHANGED work

LEMMA RejectKept ==
  ASSUME ControlTypes, RejectAll, stopping' \in {"no", "asked", "done"}, graceful' \in {"no", "closing", "over"},
         UNCHANGED draining
  PROVE  ControlTypes' /\ (call'["close"] = "ok" => call["close"] = "ok")
<1>1. "close" \in Calls
  BY DEF Calls
<1>q. QED BY <1>1 DEF ControlTypes, RejectAll

LEMMA ErrorKept ==
  ASSUME ControlTypes, StopWithError, graceful' \in {"no", "closing", "over"}, UNCHANGED draining
  PROVE  /\ ControlTypes' /\ (call'["close"] = "ok" => call["close"] = "ok")
         /\ stopping' = (IF stopping = "no" THEN "asked" ELSE stopping)
<1>1. CASE stopping = "no"
  BY <1>1, RejectKept DEF StopWithError
<1>2. CASE stopping # "no"
  BY <1>2 DEF ControlTypes, StopWithError
<1>q. QED BY <1>1, <1>2

\* The end of a graceful stop, of the files or of the time, terminates the thread.
LEMMA FinishKept ==
  ASSUME IInv, FinishGracefulStop
  PROVE  LeavesFiles /\ ThreadAges
<1>1. ThreadTypes /\ ControlTypes /\ WorkTypes /\ WorkerInv
  BY BackendTypes DEF IInv, ServiceTypeOK
<1>2. graceful = "closing" /\ graceful' = "over" /\ StopWithError /\ UNCHANGED <<threadVars, draining, fileVars>>
  BY DEF FinishGracefulStop
<1>3. /\ ControlTypes' /\ (call'["close"] = "ok" => call["close"] = "ok")
      /\ stopping' = (IF stopping = "no" THEN "asked" ELSE stopping)
  BY <1>1, <1>2, ErrorKept
<1>4. ThreadTypes' /\ WorkTypes' /\ WorkerInv' /\ ThreadAges
  BY <1>1, <1>2, <1>3 DEF ThreadTypes, WorkTypes, WorkerInv, ThreadAges, InThread, threadVars, fileVars
<1>q. QED BY <1>2, <1>3, <1>4 DEF LeavesFiles, fileVars

\* The steps that leave the registry alone.
LEMMA LifeKept ==
  ASSUME IInv,
         \/ TakeLock \/ BootFails \/ Serve \/ ThreadDies \/ Terminated \/ Fatal \/ Initialized
         \/ \E c \in Calls : Answer(c) \/ Post(c)
         \/ \E f \in Files : SendFails(f)
  PROVE  LeavesFiles /\ ThreadAges
<1>1. ThreadTypes /\ ControlTypes /\ WorkTypes /\ WorkerInv /\ "close" \in Calls /\ Files \subseteq Calls
      /\ "close" \notin Files
  BY BackendTypes, BackendAssumption DEF IInv, ServiceTypeOK, Calls
<1>2. CASE TakeLock \/ BootFails \/ Serve
  <2>1. UNCHANGED <<controlVars, call, fileVars>> /\ thread = "booting"
        /\ thread' \in {"booting", "failing", "serving"} /\ locked' \in BOOLEAN
        /\ (locked' => thread' \in {"booting", "serving"})
    BY <1>1, <1>2 DEF TakeLock, BootFails, Serve, ThreadTypes
  <2>q. QED
    BY <1>1, <2>1 DEF LeavesFiles, ThreadAges, InThread, ThreadTypes, ControlTypes, WorkTypes, WorkerInv,
                      controlVars, fileVars
<1>3. CASE ThreadDies
  <2>1. InThread /\ thread' = "gone" /\ locked' = FALSE /\ RejectAll
        /\ UNCHANGED <<draining, graceful, stopping, fileVars>>
    BY <1>3 DEF ThreadDies
  <2>2. ControlTypes' /\ (call'["close"] = "ok" => call["close"] = "ok")
    BY <1>1, <2>1, RejectKept DEF ControlTypes
  <2>q. QED
    BY <1>1, <2>1, <2>2 DEF LeavesFiles, ThreadAges, InThread, ThreadTypes, WorkTypes, WorkerInv, fileVars
<1>4. CASE Terminated
  BY <1>1, <1>4 DEF Terminated, LeavesFiles, ThreadAges, InThread, ThreadTypes, ControlTypes, WorkTypes,
                    WorkerInv, fileVars
<1>5. CASE Fatal
  <2>1. thread = "failing" /\ StopWithError /\ UNCHANGED <<threadVars, draining, graceful, fileVars>>
    BY <1>5 DEF Fatal
  <2>2. /\ ControlTypes' /\ (call'["close"] = "ok" => call["close"] = "ok")
        /\ stopping' = (IF stopping = "no" THEN "asked" ELSE stopping)
    BY <1>1, <2>1, ErrorKept DEF ControlTypes
  <2>q. QED
    BY <1>1, <2>1, <2>2 DEF LeavesFiles, ThreadAges, InThread, ThreadTypes, WorkTypes, WorkerInv, fileVars,
                            threadVars
<1>6. CASE Initialized
  BY <1>1, <1>6 DEF Initialized, LeavesFiles, ThreadAges, InThread, ThreadTypes, ControlTypes, WorkTypes,
                    WorkerInv, fileVars, threadVars
<1>7. ASSUME NEW c \in Calls, Answer(c) \/ Post(c) \/ (c \in Files /\ SendFails(c))
      PROVE  LeavesFiles /\ ThreadAges
  <2>1. PICK s \in {"pending", "ok", "failed"} : call' = [call EXCEPT ![c] = s] /\ (c = "close" => s # "ok")
    BY <1>1, <1>7 DEF Answer, Post, SendFails, Answered
  <2>2. UNCHANGED <<threadVars, controlVars, fileVars>>
    BY <1>7 DEF Answer, Post, SendFails
  <2>3. ControlTypes' /\ (call'["close"] = "ok" => call["close"] = "ok")
    BY <1>1, <2>1, <2>2 DEF ControlTypes, controlVars
  <2>q. QED
    BY <1>1, <2>2, <2>3 DEF LeavesFiles, ThreadAges, InThread, ThreadTypes, WorkTypes, WorkerInv, fileVars,
                            threadVars, controlVars
<1>q. QED BY <1>1, <1>2, <1>3, <1>4, <1>5, <1>6, <1>7

-----------------------------------------------------------------------------
(* The registry of prepared files.                                           *)

\* A step about one file leaves the others, and the removal of prepared files unanswered.
Touches(f) ==
  /\ \A g \in Files \ {f} :
       /\ registry'[g] = registry[g] /\ flow'[g] = flow[g] /\ got'[g] = got[g]
       /\ g \in disk' <=> g \in disk
       /\ g \in attempted' <=> g \in attempted
       /\ g \in stuck' <=> g \in stuck
  /\ call'["close"] = call["close"] /\ UNCHANGED <<work, closing, threadVars, controlVars>>
  /\ ControlTypes' /\ StoreTypes' /\ StreamTypes'
LEMMA TouchesKept ==
  ASSUME IInv, NEW f \in Files, Touches(f), FileInv(f)'
  PROVE  BackendTypeOK' /\ FilesInv' /\ WorkerInv' /\ ThreadAges
<1>1. /\ \A g \in Files \ {f} :
           /\ registry'[g] = registry[g] /\ flow'[g] = flow[g] /\ got'[g] = got[g]
           /\ g \in disk' <=> g \in disk
           /\ g \in attempted' <=> g \in attempted
           /\ g \in stuck' <=> g \in stuck
      /\ call'["close"] = call["close"] /\ UNCHANGED <<work, closing>>
  BY DEF Touches
<1>2. \A g \in Files \ {f} : FileInv(g)
  BY DEF IInv, FilesInv
<1>3. ASSUME NEW g \in Files \ {f} PROVE FileInv(g)'
  BY <1>1, <1>2 DEF FileInv
<1>4. FilesInv'
  BY <1>1, <1>3 DEF FilesInv, IInv
<1>5. ThreadTypes' /\ WorkTypes' /\ WorkerInv' /\ ThreadAges
  BY BackendTypes DEF IInv, ServiceTypeOK, Touches, ThreadTypes, WorkTypes, WorkerInv, ThreadAges, InThread,
                      threadVars, controlVars
<1>6. ControlTypes' /\ StoreTypes' /\ StreamTypes'
  BY DEF Touches
<1>7. BackendTypeOK'
  BY <1>5, <1>6 DEF BackendTypeOK, ThreadTypes, ControlTypes, WorkTypes, StoreTypes, StreamTypes
<1>q. QED BY <1>4, <1>5, <1>7

\* An answer about a file is an answer to its own request.
LEMMA AnsweredKept ==
  ASSUME ControlTypes, NEW f \in Files, NEW s \in {"none", "awaiting", "pending", "ok", "failed"},
         call' = [call EXCEPT ![f] = s], UNCHANGED controlVars
  PROVE  ControlTypes' /\ call'["close"] = call["close"]
<1>1. f \in Calls /\ f # "close" /\ "close" \in Calls
  BY BackendAssumption DEF Calls
<1>q. QED BY <1>1 DEF ControlTypes, controlVars

\* The steps that only move an entry of the registry and answer.
LEMMA EntriesKept ==
  ASSUME IInv, NEW f \in Files,
         \/ BeginStore(f) \/ NotStored(f) \/ StoreFails(f) \/ BeginDiscard(f)
  PROVE  BackendTypeOK' /\ FilesInv' /\ WorkerInv' /\ ThreadAges
<1>1. ControlTypes /\ StoreTypes /\ StreamTypes /\ FileInv(f) /\ FilesInv
  BY BackendTypes DEF IInv, ServiceTypeOK, FilesInv
<1>2. UNCHANGED <<threadVars, controlVars, work, flow, got, disk, attempted, owned, closing, stuck>>
  BY DEF BeginStore, NotStored, StoreFails, BeginDiscard, streamVars
<1>3. PICK e \in {"none", "storing", "prepared", "claimed", "discarding", "undoing"}, s \in {"pending", "ok", "failed"} :
        /\ registry' = [registry EXCEPT ![f] = e] /\ call' = [call EXCEPT ![f] = s]
        /\ \/ e = "storing" /\ work[f] = "preparing" /\ registry[f] = "none" /\ closing = "no"
           \/ e = "none" /\ work[f] = "preparing" /\ registry[f] = "none"
           \/ e = "none" /\ registry[f] = "storing"
           \/ e = registry[f] \/ (e = "discarding" /\ registry[f] = "prepared" /\ closing = "no")
  <2>1. CASE BeginStore(f)
    BY <2>1 DEF BeginStore, Arrives, Admits, Ends, Answered
  <2>2. CASE NotStored(f)
    BY <2>2 DEF NotStored, Arrives, Ends, Answered
  <2>3. CASE StoreFails(f)
    BY <2>3 DEF StoreFails, Ends, Answered
  <2>4. CASE BeginDiscard(f)
    <3>1. registry[f] \in {"none", "storing", "prepared", "claimed", "discarding", "undoing"}
      BY <1>1 DEF StoreTypes
    <3>2. CASE closing # "no"
      BY <2>4, <3>1, <3>2 DEF BeginDiscard, Ends, Answered
    <3>3. CASE closing = "no" /\ registry[f] = "none"
      BY <2>4, <3>1, <3>3 DEF BeginDiscard, Ends, Answered
    <3>4. CASE closing = "no" /\ registry[f] = "prepared"
      BY <2>4, <3>1, <3>4 DEF BeginDiscard, Ends, Answered
    <3>5. CASE closing = "no" /\ registry[f] \notin {"none", "prepared"}
      BY <2>4, <3>1, <3>5 DEF BeginDiscard, Ends, Answered
    <3>q. QED BY <3>2, <3>3, <3>4, <3>5
  <2>q. QED BY <2>1, <2>2, <2>3, <2>4
<1>4. ControlTypes' /\ call'["close"] = call["close"]
  BY <1>1, <1>2, <1>3, AnsweredKept
<1>5. StoreTypes' /\ StreamTypes' /\ registry'[f] = e /\ \A g \in Files \ {f} : registry'[g] = registry[g]
  BY <1>1, <1>2, <1>3 DEF StoreTypes, StreamTypes
<1>6. Touches(f)
  BY <1>2, <1>4, <1>5 DEF Touches
<1>7. FileInv(f)'
  BY <1>1, <1>2, <1>3, <1>4, <1>5 DEF FileInv, FilesInv
<1>q. QED BY <1>6, <1>7, TouchesKept

\* The byte stream moves on or breaks.
LEMMA StreamsKept ==
  ASSUME IInv, NEW f \in Files, Pull(f) \/ Supply(f) \/ Receive(f) \/ Break(f)
  PROVE  BackendTypeOK' /\ FilesInv' /\ WorkerInv' /\ ThreadAges
<1>1. ControlTypes /\ StoreTypes /\ StreamTypes /\ FileInv(f) /\ Packets \in Nat
  BY BackendTypes, BackendAssumption DEF IInv, ServiceTypeOK, FilesInv
<1>2. UNCHANGED <<threadVars, controlVars, call, work, registry, disk, attempted, owned, closing, stuck>>
  BY DEF Pull, Supply, Receive, Break, storeVars
<1>3. PICK s \in {"idle", "pull", "data", "end", "broken"} :
        /\ flow' = [flow EXCEPT ![f] = s]
        /\ \/ UNCHANGED got /\ (s = "data" => got[f] < Packets)
           \/ s = "idle" /\ flow[f] = "data" /\ got' = [got EXCEPT ![f] = got[f] + 1]
  BY DEF Pull, Supply, Receive, Break
<1>4. got[f] \in 0..Packets /\ (flow[f] = "data" => got[f] + 1 \in 0..Packets)
  BY <1>1 DEF StreamTypes, FileInv
<1>5. StreamTypes' /\ flow'[f] = s /\ \A g \in Files \ {f} : flow'[g] = flow[g] /\ got'[g] = got[g]
  <2>1. flow' \in [Files -> {"idle", "pull", "data", "end", "broken"}] /\ flow'[f] = s
        /\ \A g \in Files \ {f} : flow'[g] = flow[g]
    BY <1>1, <1>3 DEF StreamTypes
  <2>2. got' \in [Files -> 0..Packets] /\ \A g \in Files \ {f} : got'[g] = got[g]
    BY <1>1, <1>3, <1>4 DEF StreamTypes
  <2>q. QED BY <2>1, <2>2 DEF StreamTypes
<1>6. Touches(f)
  BY <1>1, <1>2, <1>5 DEF Touches, ControlTypes, StoreTypes, controlVars
<1>7. FileInv(f)'
  BY <1>1, <1>2, <1>3, <1>5 DEF FileInv
<1>q. QED BY <1>6, <1>7, TouchesKept

\* A file enters the storage, and is undone when the registry was closed meanwhile.
LEMMA StoredKept ==
  ASSUME IInv, NEW f \in Files, Stored(f)
  PROVE  BackendTypeOK' /\ FilesInv' /\ WorkerInv' /\ ThreadAges
<1>1. ControlTypes /\ StoreTypes /\ StreamTypes /\ FileInv(f) /\ FilesInv
  BY BackendTypes DEF IInv, ServiceTypeOK, FilesInv
<1>2. /\ UNCHANGED <<threadVars, controlVars, work, flow, got, attempted, owned, closing, stuck>>
      /\ disk' = disk \cup {f} /\ registry[f] = "storing"
  BY DEF Stored, streamVars
<1>3. call[f] \in {"none", "awaiting", "pending", "ok", "failed"} /\ "close" \in Calls
  BY <1>1 DEF ControlTypes, Calls
<1>4. PICK e \in {"prepared", "undoing"} :
        /\ registry' = [registry EXCEPT ![f] = e]
        /\ \/ UNCHANGED call /\ e = "undoing"
           \/ closing = "no" /\ \E s \in {"none", "awaiting", "pending", "ok", "failed"} : call' = [call EXCEPT ![f] = s]
  BY <1>3 DEF Stored, MayRegister, Ends, Answered
<1>5. ControlTypes' /\ call'["close"] = call["close"]
  <2>1. CASE UNCHANGED call
    BY <1>1, <1>2, <2>1 DEF ControlTypes, controlVars
  <2>2. CASE \E s \in {"none", "awaiting", "pending", "ok", "failed"} : call' = [call EXCEPT ![f] = s]
    BY <1>1, <1>2, <2>2, AnsweredKept
  <2>q. QED BY <1>4, <2>1, <2>2
<1>6. StoreTypes' /\ StreamTypes' /\ registry'[f] = e /\ \A g \in Files \ {f} : registry'[g] = registry[g]
  BY <1>1, <1>2, <1>4 DEF StoreTypes, StreamTypes
<1>7. Touches(f)
  BY <1>2, <1>5, <1>6 DEF Touches
<1>8. FileInv(f)'
  BY <1>1, <1>2, <1>4, <1>5, <1>6 DEF FileInv, FilesInv
<1>q. QED BY <1>7, <1>8, TouchesKept

\* What is removed from the storage has not been claimed.
LEMMA RemovalsKept ==
  ASSUME IInv, NEW f \in Files, Undo(f) \/ EndDiscard(f) \/ CleanUp(f)
  PROVE  BackendTypeOK' /\ FilesInv' /\ WorkerInv' /\ ThreadAges
<1>1. ControlTypes /\ StoreTypes /\ StreamTypes /\ FileInv(f) /\ FilesInv
  BY BackendTypes DEF IInv, ServiceTypeOK, FilesInv
<1>2. /\ UNCHANGED <<threadVars, controlVars, work, flow, got, attempted, owned, closing>>
      /\ registry[f] \in {"undoing", "discarding", "prepared"}
  BY DEF Undo, EndDiscard, CleanUp, Removable, OnlyRegistry, streamVars
<1>3. call[f] \in {"none", "awaiting", "pending", "ok", "failed"} /\ "close" \in Calls
  BY <1>1 DEF ControlTypes, Calls
<1>4. \/ disk' = disk \ {f} /\ stuck' = stuck /\ registry' = [registry EXCEPT ![f] = "none"]
      \/ /\ disk' = disk /\ stuck' = stuck \cup {f}
         /\ \E e \in {"none", "prepared"} : registry' = [registry EXCEPT ![f] = e]
                                            /\ (e = "prepared" => registry[f] \in {"discarding", "prepared"})
  BY DEF Undo, EndDiscard, CleanUp, Removes, RemovalFails, Removable, OnlyRegistry, Ends
<1>5. \/ UNCHANGED call
      \/ /\ \E s \in {"none", "awaiting", "pending", "ok", "failed"} : call' = [call EXCEPT ![f] = s]
         /\ registry[f] \in {"undoing", "discarding"}
  BY <1>3 DEF Undo, EndDiscard, CleanUp, Removes, RemovalFails, Ends, Answered, OnlyRegistry
<1>6. ControlTypes' /\ call'["close"] = call["close"]
  <2>1. CASE UNCHANGED call
    BY <1>1, <1>2, <2>1 DEF ControlTypes, controlVars
  <2>2. CASE \E s \in {"none", "awaiting", "pending", "ok", "failed"} : call' = [call EXCEPT ![f] = s]
    BY <1>1, <1>2, <2>2, AnsweredKept
  <2>q. QED BY <1>5, <2>1, <2>2
<1>7. /\ StoreTypes' /\ StreamTypes' /\ \A g \in Files \ {f} : registry'[g] = registry[g]
      /\ registry'[f] \in {"none", "prepared"}
  BY <1>1, <1>2, <1>4 DEF StoreTypes, StreamTypes
<1>8. Touches(f)
  BY <1>2, <1>4, <1>6, <1>7 DEF Touches
<1>9. FileInv(f)'
  <2>1. CASE disk' = disk \ {f} /\ stuck' = stuck /\ registry' = [registry EXCEPT ![f] = "none"]
    <3>1. registry'[f] = "none" /\ f \notin disk' /\ f \notin attempted'
      BY <1>1, <1>2, <2>1 DEF StoreTypes, FileInv
    <3>q. QED BY <1>1, <1>2, <1>6, <3>1 DEF FileInv
  <2>2. CASE disk' = disk /\ stuck' = stuck \cup {f}
    BY <1>1, <1>2, <1>4, <1>6, <1>7, <2>2 DEF FileInv, StoreTypes
  <2>q. QED BY <1>4, <2>1, <2>2
<1>q. QED BY <1>8, <1>9, TouchesKept

\* A send claims a file that is prepared, and the message takes it over.
LEMMA ClaimsKept ==
  ASSUME IInv, NEW f \in Files, ClaimFile(f) \/ Transfer(f)
  PROVE  BackendTypeOK' /\ FilesInv' /\ WorkerInv' /\ ThreadAges
<1>1. ControlTypes /\ StoreTypes /\ StreamTypes /\ FileInv(f) /\ FilesInv
  BY BackendTypes DEF IInv, ServiceTypeOK, FilesInv
<1>2. UNCHANGED <<threadVars, controlVars, work, flow, got, disk, closing, stuck>> /\ work[f] = "sending"
  BY DEF ClaimFile, Transfer, streamVars
<1>3. /\ call[f] \in {"none", "awaiting", "pending", "ok", "failed"} /\ "close" \in Calls
      /\ registry[f] \in {"none", "storing", "undoing", "prepared", "claimed", "discarding"}
  BY <1>1 DEF ControlTypes, StoreTypes, Calls
<1>4. PICK s \in {"none", "awaiting", "pending", "ok", "failed"} : call' = [call EXCEPT ![f] = s]
  BY <1>3 DEF ClaimFile, Transfer, Ends, Answered
<1>5. ControlTypes' /\ call'["close"] = call["close"]
  BY <1>1, <1>2, <1>4, AnsweredKept
<1>6. \/ /\ registry[f] = "prepared" /\ closing = "no" /\ attempted' = attempted \cup {f} /\ owned' = owned
         /\ registry' = [registry EXCEPT ![f] = "claimed"]
      \/ attempted' = attempted /\ owned' = owned /\ registry' = [registry EXCEPT ![f] = registry[f]]
      \/ /\ registry[f] = "claimed" /\ owned' = owned \cup {f} /\ attempted' = attempted
         /\ registry' = [registry EXCEPT ![f] = "none"]
  BY DEF ClaimFile, Transfer, Claimable, Ends
<1>7. StoreTypes' /\ StreamTypes' /\ \A g \in Files \ {f} : registry'[g] = registry[g]
  <2>1. registry[f] = "claimed" => f \in attempted
    BY <1>1 DEF FileInv
  <2>2. owned' \in SUBSET attempted' /\ attempted' \in SUBSET Files
    BY <1>1, <1>6, <2>1 DEF StoreTypes
  <2>q. QED BY <1>1, <1>2, <1>3, <1>6, <2>2 DEF StoreTypes, StreamTypes
<1>8. Touches(f)
  BY <1>2, <1>5, <1>6, <1>7 DEF Touches
<1>9. registry'[f] = "claimed" \/ registry'[f] = registry[f] \/ (registry'[f] = "none" /\ registry[f] = "claimed")
  BY <1>1, <1>6 DEF StoreTypes
<1>10. FileInv(f)'
  <2>1. CASE registry[f] = "prepared" /\ closing = "no" /\ attempted' = attempted \cup {f} /\ registry' = [registry EXCEPT ![f] = "claimed"]
    <3>1. registry'[f] = "claimed" /\ f \in attempted' /\ f \in disk'
      BY <1>1, <1>2, <2>1 DEF StoreTypes, FileInv
    <3>q. QED BY <1>1, <1>2, <1>5, <2>1, <3>1 DEF FileInv
  <2>2. CASE attempted' = attempted /\ registry' = [registry EXCEPT ![f] = registry[f]]
    <3>1. registry'[f] = registry[f]
      BY <1>1, <2>2 DEF StoreTypes
    <3>q. QED BY <1>1, <1>2, <1>5, <2>2, <3>1 DEF FileInv
  <2>3. CASE registry[f] = "claimed" /\ attempted' = attempted /\ registry' = [registry EXCEPT ![f] = "none"]
    <3>1. registry'[f] = "none"
      BY <1>1, <2>3 DEF StoreTypes
    <3>q. QED BY <1>1, <1>2, <1>5, <2>3, <3>1 DEF FileInv
  <2>q. QED BY <1>6, <2>1, <2>2, <2>3
<1>q. QED BY <1>8, <1>10, TouchesKept

\* The registry is closed when nothing is under way and nothing removable is left.
LEMMA ClosesKept ==
  ASSUME IInv, CloseFiles \/ AwaitFiles \/ FilesClosed
  PROVE  BackendTypeOK' /\ FilesInv' /\ WorkerInv' /\ ThreadAges
<1>1. /\ ThreadTypes /\ ControlTypes /\ WorkTypes /\ StoreTypes /\ StreamTypes /\ FilesInv /\ WorkerInv
      /\ "close" \in Calls
  BY BackendTypes DEF IInv, ServiceTypeOK, Calls
<1>2. UNCHANGED <<threadVars, controlVars, work, flow, got, registry, disk, attempted, owned, stuck>>
  BY DEF CloseFiles, AwaitFiles, FilesClosed, streamVars
<1>3. /\ closing' \in {"waiting", "removing", "closed"} /\ closing # "closed"
      /\ ControlTypes'
  BY <1>1, <1>2 DEF CloseFiles, AwaitFiles, FilesClosed, ControlTypes, controlVars
<1>4. BackendTypeOK' /\ WorkerInv' /\ ThreadAges
  <2>1. ThreadTypes' /\ WorkTypes' /\ StoreTypes' /\ StreamTypes' /\ WorkerInv' /\ ThreadAges
    BY <1>1, <1>2, <1>3 DEF ThreadTypes, WorkTypes, StoreTypes, StreamTypes, WorkerInv, ThreadAges, InThread,
                            threadVars, controlVars
  <2>q. QED BY <1>3, <2>1 DEF BackendTypeOK, ThreadTypes, ControlTypes, WorkTypes, StoreTypes, StreamTypes
<1>5. call["close"] # "ok"
  BY <1>1, <1>3 DEF FilesInv
<1>6. ASSUME NEW f \in Files PROVE FileInv(f)'
  <2>1. FileInv(f) /\ registry[f] \in {"none", "storing", "undoing", "prepared", "claimed", "discarding"}
    BY <1>1 DEF FilesInv, StoreTypes
  <2>2. CASE CloseFiles
    BY <1>2, <1>5, <2>1, <2>2 DEF CloseFiles, FileInv
  <2>3. CASE AwaitFiles
    BY <1>2, <1>5, <2>1, <2>3 DEF AwaitFiles, UnderWay, FileInv
  <2>4. CASE FilesClosed
    <3>1. registry[f] \in {"none", "prepared", "claimed"} /\ closing' = "closed"
      BY <2>1, <2>4 DEF FilesClosed, FileInv
    <3>2. call'["close"] = "ok" => ~Removable(f)
      BY <1>1, <1>5, <2>4 DEF FilesClosed, ControlTypes
    <3>q. QED BY <1>2, <2>1, <3>1, <3>2 DEF FileInv, Removable
  <2>q. QED BY <2>2, <2>3, <2>4
<1>7. call'["close"] = "ok" => closing' = "closed"
  BY <1>5 DEF CloseFiles, AwaitFiles, FilesClosed
<1>q. QED BY <1>4, <1>6, <1>7 DEF FilesInv

LEMMA BackendKept ==
  ASSUME IInv, ThreadStep \/ ControllerStep \/ TimeUp
  PROVE  BackendTypeOK' /\ FilesInv' /\ WorkerInv' /\ ThreadAges
<1>1. ASSUME LeavesFiles, ThreadAges PROVE BackendTypeOK' /\ FilesInv' /\ WorkerInv' /\ ThreadAges
  BY <1>1, FilesLeft, TypesLeft DEF IInv, ServiceTypeOK, LeavesFiles
<1>2. CASE PreparedFilesClosed \/ TimeUp
  BY <1>1, <1>2, FinishKept DEF PreparedFilesClosed, TimeUp
<1>3. CASE \/ TakeLock \/ BootFails \/ Serve \/ ThreadDies \/ Terminated \/ Fatal \/ Initialized
           \/ \E c \in Calls : Answer(c) \/ Post(c)
           \/ \E f \in Files : SendFails(f)
  BY <1>1, <1>3, LifeKept
<1>4. CASE CloseFiles \/ AwaitFiles \/ FilesClosed
  BY <1>4, ClosesKept
<1>5. ASSUME NEW f \in Files,
             \/ BeginStore(f) \/ NotStored(f) \/ Pull(f) \/ Supply(f) \/ Receive(f) \/ Break(f) \/ Stored(f)
             \/ StoreFails(f) \/ Undo(f) \/ ClaimFile(f) \/ Transfer(f) \/ BeginDiscard(f) \/ EndDiscard(f)
             \/ CleanUp(f)
      PROVE  BackendTypeOK' /\ FilesInv' /\ WorkerInv' /\ ThreadAges
  BY <1>5, EntriesKept, StreamsKept, StoredKept, RemovalsKept, ClaimsKept
<1>q. QED BY <1>2, <1>3, <1>4, <1>5 DEF ThreadStep, ControllerStep

-----------------------------------------------------------------------------
(* The start, the loops and the closing.                                     *)

ServiceTypes ==
  /\ SupervisorTypeOK /\ config \in Configurations
  /\ pc \in {"registration", "proxy", "resources", "profile", "opening", "givingUp", "matrix",
             "owner", "media", "states", "listen", "runtime", "starting", "up", "failed",
             "closing"}
  /\ aborted \in BOOLEAN /\ expired \in BOOLEAN /\ profile \in BOOLEAN
  /\ resources \in {"none", "open", "closed"} /\ matrix \in {"none", "open", "closed"}
  /\ server \in {"none", "open", "closed"}
  /\ runtime \in {"none", "idle", "starting", "running", "stopping", "stopped"}
  /\ sync \in {"off", "waiting", "asking", "live", "over"}
  /\ delivery \in {"off", "idle", "request", "over"}
  /\ closeStep \in {"no", "proxy", "runtime", "profile", "thread", "matrix", "resources", "done"}
LEMMA ServiceTypeParts == ServiceTypeOK <=> BackendTypeOK /\ ServiceTypes
  BY DEF ServiceTypeOK, ServiceTypes

ServiceInv == ServiceTypes /\ OpenInv /\ CloseInv

\* The thread and its controller leave where the service is.
LEMMA ThreadLeavesService ==
  ASSUME IInv, ThreadAges, UNCHANGED <<serviceVars, supervisorVars>>
  PROVE  ServiceInv'
<1>1. ServiceTypes /\ OpenInv /\ CloseInv
  BY ServiceTypeParts DEF IInv
<1>2. /\ UNCHANGED <<config, pc, aborted, expired, resources, profile, matrix, server, runtime, sync, delivery,
                     closeStep, supervisor, loop, supervised, signal, cancelled, work>>
      /\ (thread' = "none" <=> thread = "none") /\ (InThread' => InThread)
  BY DEF serviceVars, supervisorVars, openVars, loopVars, ThreadAges
<1>3. ServiceTypes'
  BY <1>1, <1>2 DEF ServiceTypes, SupervisorTypeOK
<1>4. OpenInv'
  BY <1>1, <1>2 DEF OpenInv, FilesIdle, LoopsOver, Ended
<1>5. CloseInv'
  BY <1>1, <1>2 DEF CloseInv
<1>q. QED BY <1>3, <1>4, <1>5 DEF ServiceInv

\* The supervisor starts no child once its loop is over, or before it began.
LEMMA SupervisorKept ==
  ASSUME IInv, SupervisorStep, UNCHANGED <<serviceVars, backendVars>>
  PROVE  ServiceInv'
<1>1. ServiceTypes /\ OpenInv /\ CloseInv
  BY ServiceTypeParts DEF IInv
<1>2. UNCHANGED <<config, pc, aborted, expired, resources, profile, matrix, server, runtime, sync, delivery,
                  closeStep, thread, work>>
  BY DEF serviceVars, backendVars, fileVars, threadVars, openVars, loopVars
<1>3. /\ SupervisorTypeOK' /\ (loop \in {"none", "over"} => loop' = loop)
      /\ (supervised' # "none" => loop' = "child")
  <2>1. SupervisorTypeOK /\ (supervised # "none" => loop = "child")
    BY <1>1 DEF ServiceTypes, OpenInv
  <2>2. CASE Launch \/ VerifyFails \/ VerifyCancelled
    BY <2>1, <2>2 DEF Launch, VerifyFails, VerifyCancelled, Again, LoopOver, SupervisorTypeOK
  <2>3. CASE Spawned \/ Kill
    BY <2>1, <2>3 DEF Spawned, Kill, SupervisorTypeOK
  <2>4. CASE ChildCloses \/ Retry
    BY <2>1, <2>4 DEF ChildCloses, Retry, Again, LoopOver, SupervisorTypeOK
  <2>q. QED BY <2>2, <2>3, <2>4 DEF SupervisorStep
<1>4. ServiceTypes'
  BY <1>1, <1>2, <1>3 DEF ServiceTypes
<1>5. OpenInv'
  BY <1>1, <1>2, <1>3 DEF OpenInv, FilesIdle, LoopsOver, Ended, InThread
<1>6. CloseInv'
  BY <1>1, <1>2, <1>3 DEF CloseInv, InThread, ServerClosed, RuntimeEnded, ThreadEnded, MatrixClosed
<1>q. QED BY <1>4, <1>5, <1>6 DEF ServiceInv

\* The steps of the start: each finds what the one before it has opened.
LEMMA OpeningKept ==
  ASSUME IInv, OpeningStep \/ StepFails
  PROVE  ServiceInv'
<1>1. ServiceTypes /\ OpenInv /\ CloseInv /\ WorkerInv
  BY ServiceTypeParts DEF IInv
<1>2. UNCHANGED work
  BY DEF OpeningStep, StepFails, ReadRegistration, OpenProxy, OpenResources, OpenProfile, ProfileOpened,
         ProfileFails, ProfileGivenUp, OpenMatrix, OpenOwner, CreateMedia, CreateRuntime, Listen, StartRuntime,
         Started, StartFailed, Spawn, Apart, backendVars, fileVars
<1>3. UNCHANGED <<config, aborted, expired, closeStep>>
  BY DEF OpeningStep, StepFails, ReadRegistration, OpenProxy, OpenResources, OpenProfile, ProfileOpened,
         ProfileFails, ProfileGivenUp, OpenMatrix, OpenOwner, CreateMedia, CreateRuntime, Listen, StartRuntime,
         Started, StartFailed, At
<1> USE DEF At, Onward, Apart, openVars, loopVars, backendVars, threadVars, supervisorVars
<1>4. CASE ReadRegistration
  BY <1>1, <1>2, <1>4 DEF ReadRegistration, ServiceInv, ServiceTypes, OpenInv, CloseInv, ServerClosed, RuntimeEnded, ThreadEnded, MatrixClosed, SupervisorTypeOK,
     BeforeThread, BeforeRuntime, WithMatrix, InThread, FilesIdle, LoopsOver, Ended
<1>5. CASE OpenProxy
  <2>1. UNCHANGED supervisorVars \/ PrepareProxy
    BY <1>5 DEF OpenProxy
  <2>2. SupervisorTypeOK' /\ UNCHANGED <<loop, supervised>>
    BY <1>1, <2>1 DEF PrepareProxy, ServiceTypes, SupervisorTypeOK
  <2>q. QED
    BY <1>1, <1>2, <1>5, <2>2 DEF OpenProxy, ServiceInv, ServiceTypes, OpenInv, CloseInv, ServerClosed, RuntimeEnded, ThreadEnded,
     MatrixClosed,  BeforeThread, BeforeRuntime, WithMatrix, InThread, FilesIdle, LoopsOver, Ended
<1>6. CASE OpenResources
  BY <1>1, <1>2, <1>6 DEF OpenResources, ServiceInv, ServiceTypes, OpenInv, CloseInv, ServerClosed, RuntimeEnded, ThreadEnded, MatrixClosed, SupervisorTypeOK,
     BeforeThread, BeforeRuntime, WithMatrix, InThread, FilesIdle, LoopsOver, Ended
<1>7. CASE OpenProfile
  BY <1>1, <1>2, <1>7 DEF OpenProfile, Spawn, ServiceInv, ServiceTypes, OpenInv, CloseInv, ServerClosed, RuntimeEnded, ThreadEnded, MatrixClosed, SupervisorTypeOK,
     BeforeThread, BeforeRuntime, WithMatrix, InThread, FilesIdle, LoopsOver, Ended
<1>8. CASE ProfileOpened
  BY <1>1, <1>2, <1>8 DEF ProfileOpened, ServiceInv, ServiceTypes, OpenInv, CloseInv, ServerClosed, RuntimeEnded, ThreadEnded, MatrixClosed, SupervisorTypeOK,
     BeforeThread, BeforeRuntime, WithMatrix, InThread, FilesIdle, LoopsOver, Ended
<1>9. CASE ProfileFails
  BY <1>1, <1>2, <1>9 DEF ProfileFails, ServiceInv, ServiceTypes, OpenInv, CloseInv, ServerClosed, RuntimeEnded, ThreadEnded, MatrixClosed, SupervisorTypeOK,
     BeforeThread, BeforeRuntime, WithMatrix, InThread, FilesIdle, LoopsOver, Ended
<1>10. CASE ProfileGivenUp
  BY <1>1, <1>2, <1>10 DEF ProfileGivenUp, StopOver, WorkerInv, ServiceInv, ServiceTypes, OpenInv, CloseInv, ServerClosed, RuntimeEnded, ThreadEnded,
     MatrixClosed, SupervisorTypeOK, BeforeThread, BeforeRuntime, WithMatrix, InThread, FilesIdle, LoopsOver, Ended
<1>11. CASE OpenMatrix \/ OpenOwner
  BY <1>1, <1>2, <1>11 DEF OpenMatrix, OpenOwner, ServiceInv, ServiceTypes, OpenInv, CloseInv, ServerClosed, RuntimeEnded, ThreadEnded,
     MatrixClosed, SupervisorTypeOK, BeforeThread, BeforeRuntime, WithMatrix, InThread, FilesIdle, LoopsOver, Ended
<1>12. CASE CreateMedia \/ CreateRuntime
  BY <1>1, <1>2, <1>12 DEF CreateMedia, CreateRuntime, ServiceInv, ServiceTypes, OpenInv, CloseInv, ServerClosed, RuntimeEnded, ThreadEnded,
     MatrixClosed, SupervisorTypeOK, BeforeThread, BeforeRuntime, WithMatrix, InThread, FilesIdle, LoopsOver, Ended
<1>13. CASE Listen
  BY <1>1, <1>2, <1>13 DEF Listen, ServiceInv, ServiceTypes, OpenInv, CloseInv, ServerClosed, RuntimeEnded, ThreadEnded,
     MatrixClosed, SupervisorTypeOK, BeforeThread, BeforeRuntime, WithMatrix, InThread, FilesIdle, LoopsOver, Ended
<1>14. CASE StartRuntime
  <2>1. UNCHANGED supervisorVars \/ StartProxy
    BY <1>14 DEF StartRuntime
  <2>2. SupervisorTypeOK' /\ supervised' = supervised /\ supervised = "none" /\ closeStep = "no" /\ resources = "open"
    BY <1>1, <1>14, <2>1 DEF StartRuntime, StartProxy, ServiceTypes, SupervisorTypeOK, OpenInv, CloseInv, BeforeRuntime
  <2>q. QED
    BY <1>1, <1>2, <1>14, <2>2 DEF StartRuntime, ServiceInv, ServiceTypes, OpenInv, CloseInv, ServerClosed, RuntimeEnded, ThreadEnded,
     MatrixClosed,  BeforeThread, BeforeRuntime, WithMatrix, InThread, FilesIdle, LoopsOver, Ended
<1>15. CASE Started \/ StartFailed
  BY <1>1, <1>2, <1>15 DEF Started, StartFailed, ServiceInv, ServiceTypes, OpenInv, CloseInv, ServerClosed, RuntimeEnded, ThreadEnded,
     MatrixClosed, SupervisorTypeOK, BeforeThread, BeforeRuntime, WithMatrix, InThread, FilesIdle, LoopsOver, Ended
<1>16. CASE StepFails
  BY <1>1, <1>2, <1>16 DEF StepFails, ServiceInv, ServiceTypes, OpenInv, CloseInv, ServerClosed, RuntimeEnded, ThreadEnded,
     MatrixClosed, SupervisorTypeOK, BeforeThread, BeforeRuntime, WithMatrix, InThread, FilesIdle, LoopsOver, Ended
<1>q. QED
  BY <1>4, <1>5, <1>6, <1>7, <1>8, <1>9, <1>10, <1>11, <1>12, <1>13, <1>14, <1>15, <1>16 DEF OpeningStep

\* A loop that is over does not begin again; the files of an idle runtime are idle.
LEMMA LoopKept ==
  ASSUME IInv, LoopStep
  PROVE  ServiceInv'
<1>1. ServiceTypes /\ OpenInv /\ CloseInv
  BY ServiceTypeParts DEF IInv
<1>2. UNCHANGED <<config, pc, aborted, expired, resources, profile, matrix, server, closeStep, supervisor, loop,
                  supervised, signal, cancelled, thread>>
  BY DEF LoopStep, Activated, ActivationFails, RuntimeStopped, SyncAsks, SyncAnswered, SyncReset, SyncStops,
         DeliveryBegins, DeliveryEnds, DeliveryStops, AskPrepare, FilePrepared, AskSend, AskDiscard, FileSettled,
         Turns, AtRest, openVars, supervisorVars, backendVars, threadVars
<1>3. ASSUME UNCHANGED <<runtime, sync, delivery>>, runtime \in {"none", "idle", "starting", "stopped"} => work' = work
      PROVE  ServiceInv'
  <2>1. ServiceTypes'
    BY <1>1, <1>2, <1>3 DEF ServiceTypes, SupervisorTypeOK
  <2>2. OpenInv'
    BY <1>1, <1>2, <1>3 DEF OpenInv, InThread, FilesIdle, LoopsOver, Ended
  <2>3. CloseInv'
    BY <1>1, <1>2, <1>3 DEF CloseInv, InThread
  <2>q. QED BY <2>1, <2>2, <2>3 DEF ServiceInv
<1>4. ASSUME NEW f \in Files, runtime \in {"running", "stopping"}, NEW next, Turns(f, next)
      PROVE  ServiceInv'
  <2>1. UNCHANGED <<runtime, sync, delivery>>
    BY <1>4 DEF Turns, loopVars, AtRest
  <2>q. QED BY <1>3, <1>4, <2>1
<1>5. ASSUME NEW f \in Files, work[f] \in {"preparing", "sending", "discarding"} PROVE runtime \in {"running", "stopping"}
  <2>1. ~FilesIdle
    BY <1>5 DEF FilesIdle
  <2>q. QED BY <1>1, <2>1 DEF OpenInv, LoopsOver, ServiceTypes
<1> USE DEF AtRest, loopVars, backendVars, fileVars
<1>6. CASE Activated \/ ActivationFails
  <2>1. UNCHANGED work /\ runtime = "starting" /\ runtime' \in {"running", "stopping"}
        /\ sync' \in {"waiting", sync} /\ delivery' \in {"idle", delivery}
    BY <1>6 DEF Activated, ActivationFails, RuntimeStops
  <2>2. ServiceTypes'
    BY <1>1, <1>2, <2>1 DEF ServiceTypes, SupervisorTypeOK
  <2>3. OpenInv' /\ CloseInv'
    BY <1>1, <1>2, <2>1 DEF OpenInv, CloseInv, InThread, BeforeThread, BeforeRuntime, RuntimeEnded, ServiceTypes
  <2>q. QED BY <2>2, <2>3 DEF ServiceInv
<1>7. CASE RuntimeStopped
  <2>1. UNCHANGED <<work, sync, delivery>> /\ runtime = "stopping" /\ runtime' = "stopped" /\ LoopsOver
    BY <1>7 DEF RuntimeStopped
  <2>2. ServiceTypes'
    BY <1>1, <1>2, <2>1 DEF ServiceTypes, SupervisorTypeOK
  <2>3. OpenInv' /\ CloseInv'
    BY <1>1, <1>2, <2>1 DEF OpenInv, CloseInv, InThread, LoopsOver, FilesIdle, Ended
  <2>q. QED BY <2>2, <2>3 DEF ServiceInv
<1>8. CASE SyncAsks \/ SyncAnswered \/ SyncReset \/ SyncStops \/ DeliveryBegins \/ DeliveryEnds \/ DeliveryStops
  <2>1. /\ UNCHANGED <<work, runtime>>
        /\ ~(Ended(sync) /\ Ended(delivery)) \/ runtime \in {"running", "stopping"}
        /\ sync' \in {"off", "waiting", "asking", "live", "over"} /\ delivery' \in {"off", "idle", "request", "over"}
    BY <1>1, <1>8 DEF SyncAsks, SyncAnswered, SyncReset, SyncStops, DeliveryBegins, DeliveryEnds, DeliveryStops,
                      RuntimeReady, Ended, ServiceTypes
  <2>2. UNCHANGED <<work, runtime>>
    BY <1>8 DEF SyncAsks, SyncAnswered, SyncReset, SyncStops, DeliveryBegins, DeliveryEnds, DeliveryStops
  <2>3. runtime \in {"running", "stopping"}
    BY <1>1, <2>1 DEF OpenInv, LoopsOver, Ended, ServiceTypes
  <2>4. ServiceTypes'
    BY <1>1, <1>2, <2>1, <2>2 DEF ServiceTypes, SupervisorTypeOK
  <2>5. OpenInv' /\ CloseInv'
    BY <1>1, <1>2, <2>2, <2>3 DEF OpenInv, CloseInv, InThread
  <2>q. QED BY <2>4, <2>5 DEF ServiceInv
<1>9. ASSUME NEW f \in Files, AskPrepare(f) PROVE ServiceInv'
  BY <1>4, <1>9 DEF AskPrepare, RuntimeReady
<1>10. ASSUME NEW f \in Files, FilePrepared(f) PROVE ServiceInv'
  BY <1>4, <1>5, <1>10 DEF FilePrepared
<1>11. ASSUME NEW f \in Files, AskSend(f) PROVE ServiceInv'
  BY <1>4, <1>11 DEF AskSend, RuntimeReady
<1>12. ASSUME NEW f \in Files, AskDiscard(f) PROVE ServiceInv'
  BY <1>4, <1>12 DEF AskDiscard
<1>13. ASSUME NEW f \in Files, FileSettled(f) PROVE ServiceInv'
  BY <1>4, <1>5, <1>13 DEF FileSettled
<1>q. QED
  BY <1>6, <1>7, <1>8, <1>9, <1>10, <1>11, <1>12, <1>13 DEF LoopStep

\* Closing comes to an end in its order: what is closed has nobody left that uses it.
LEMMA ClosingKept ==
  ASSUME IInv, ClosingStep \/ Abort \/ StartupExpires
  PROVE  ServiceInv'
<1>1. ServiceTypes /\ OpenInv /\ CloseInv /\ WorkerInv
  BY ServiceTypeParts DEF IInv
<1>2. UNCHANGED <<config, work, thread, sync, delivery, profile>>
  BY DEF ClosingStep, CloseFailed, CloseServer, AwaitRuntime, CloseProfile, ProfileClosed, CloseMatrix,
         CloseResources, Abort, StartupExpires, Awaits, Apart, openVars, loopVars, backendVars, threadVars, fileVars
<1> USE DEF Awaits, Apart, openVars, loopVars, supervisorVars
<1>3. ASSUME BeginClose
      PROVE  SupervisorTypeOK' /\ UNCHANGED <<loop, supervised>> /\ closeStep' = "proxy" /\ pc' = "closing"
  BY <1>1, <1>3 DEF BeginClose, StopProxy, ServiceTypes, SupervisorTypeOK
<1>4. CASE CloseFailed
  <2>1. BeginClose /\ pc = "failed" /\ aborted' = TRUE /\ UNCHANGED <<expired, resources, matrix, server>>
        /\ runtime' \in {runtime, "stopping"} /\ (runtime \in {"none", "stopped"} => runtime' = runtime)
        /\ (runtime = "none" <=> runtime' = "none")
        /\ (runtime \notin {"none", "stopped"} => runtime' = "stopping")
    BY <1>4 DEF CloseFailed, RuntimeStops
  <2>2. ServiceTypes'
    BY <1>1, <1>2, <1>3, <2>1 DEF ServiceTypes
  <2>3. OpenInv'
    BY <1>1, <1>2, <1>3, <2>1 DEF OpenInv, InThread, LoopsOver, FilesIdle, Ended, BeforeThread, BeforeRuntime, WithMatrix
  <2>4. CloseInv'
    BY <1>1, <1>2, <1>3, <2>1 DEF CloseInv, InThread, ServerClosed, RuntimeEnded, ThreadEnded, MatrixClosed
  <2>q. QED BY <2>2, <2>3, <2>4 DEF ServiceInv
<1>5. CASE Abort
  <2>1. CASE pc = "up"
    <3>1. BeginClose /\ runtime' = "stopping" /\ runtime = "running" /\ aborted' = TRUE
          /\ UNCHANGED <<expired, resources, matrix, server>>
      BY <1>1, <1>5, <2>1 DEF Abort, OpenInv
    <3>2. ServiceTypes'
      BY <1>1, <1>2, <1>3, <3>1 DEF ServiceTypes
    <3>3. OpenInv'
      BY <1>1, <1>2, <1>3, <2>1, <3>1 DEF OpenInv, InThread, LoopsOver, FilesIdle, Ended, BeforeThread, BeforeRuntime,
         WithMatrix
    <3>4. CloseInv'
      BY <1>1, <1>2, <1>3, <2>1, <3>1 DEF CloseInv, InThread, ServerClosed, RuntimeEnded, ThreadEnded, MatrixClosed
    <3>q. QED BY <3>2, <3>3, <3>4 DEF ServiceInv
  <2>2. CASE pc # "up"
    <3>1. aborted' = TRUE /\ UNCHANGED <<pc, closeStep, expired, resources, matrix, server, runtime, supervisorVars>>
      BY <1>5, <2>2 DEF Abort
    <3>q. QED
      BY <1>1, <1>2, <3>1 DEF ServiceInv, ServiceTypes, SupervisorTypeOK, OpenInv, CloseInv, InThread, LoopsOver,
         FilesIdle, Ended
  <2>q. QED BY <2>1, <2>2
<1>6. CASE StartupExpires
  <2>1. expired' = TRUE /\ UNCHANGED <<pc, closeStep, aborted, resources, matrix, server, runtime, supervisorVars>>
    BY <1>6 DEF StartupExpires
  <2>q. QED
    BY <1>1, <1>2, <2>1 DEF ServiceInv, ServiceTypes, SupervisorTypeOK, OpenInv, CloseInv, InThread, LoopsOver,
       FilesIdle, Ended
<1>7. CASE CloseServer
  <2>1. /\ loop \in {"none", "over"} /\ closeStep = "proxy" /\ closeStep' = "runtime" /\ server' \in {"none", "closed"}
        /\ UNCHANGED <<pc, aborted, expired, resources, matrix, runtime, loop, supervised>> /\ SupervisorTypeOK'
        /\ (server = "none" => server' = "none")
    BY <1>1, <1>7 DEF CloseServer, ProxyStopped, ServiceTypes, SupervisorTypeOK
  <2>q. QED
    BY <1>1, <1>2, <2>1 DEF ServiceInv, ServiceTypes, OpenInv, CloseInv, InThread, LoopsOver, FilesIdle, Ended,
       ServerClosed, RuntimeEnded, ThreadEnded, MatrixClosed
<1>8. CASE AwaitRuntime \/ CloseProfile
  <2>1. /\ UNCHANGED <<pc, aborted, expired, resources, matrix, server, runtime, supervisorVars>>
        /\ \/ closeStep = "runtime" /\ runtime \in {"none", "stopped"} /\ closeStep' = "profile"
           \/ closeStep = "profile" /\ closeStep' = "thread"
    BY <1>8 DEF AwaitRuntime, CloseProfile, RuntimeOver
  <2>q. QED
    BY <1>1, <1>2, <2>1 DEF ServiceInv, ServiceTypes, SupervisorTypeOK, OpenInv, CloseInv, InThread, LoopsOver,
       FilesIdle, Ended, ServerClosed, RuntimeEnded, ThreadEnded, MatrixClosed
<1>9. CASE ProfileClosed
  <2>1. /\ UNCHANGED <<pc, aborted, expired, resources, matrix, server, runtime, supervisorVars>>
        /\ closeStep = "thread" /\ closeStep' = "matrix"
    BY <1>9 DEF ProfileClosed
  <2>2. ~InThread
    BY <1>1, <1>9 DEF ProfileClosed, StopOver, WorkerInv, InThread, OpenInv, CloseInv
  <2>q. QED
    BY <1>1, <1>2, <2>1, <2>2 DEF ServiceInv, ServiceTypes, SupervisorTypeOK, OpenInv, CloseInv, InThread, LoopsOver,
       FilesIdle, Ended, ServerClosed, RuntimeEnded, ThreadEnded, MatrixClosed
<1>10. CASE CloseMatrix
  <2>1. /\ UNCHANGED <<pc, aborted, expired, resources, server, runtime, supervisorVars>>
        /\ closeStep = "matrix" /\ closeStep' = "resources" /\ matrix' \in {"none", "closed"}
        /\ (matrix = "none" <=> matrix' = "none") /\ pc = "closing"
    BY <1>1, <1>10 DEF CloseMatrix, ServiceTypes, CloseInv
  <2>q. QED
    BY <1>1, <1>2, <2>1 DEF ServiceInv, ServiceTypes, SupervisorTypeOK, OpenInv, CloseInv, InThread, LoopsOver,
       FilesIdle, Ended, ServerClosed, RuntimeEnded, ThreadEnded, MatrixClosed, BeforeThread, BeforeRuntime, WithMatrix
<1>11. CASE CloseResources
  <2>1. /\ UNCHANGED <<pc, aborted, expired, matrix, server, runtime, supervisorVars>>
        /\ closeStep = "resources" /\ closeStep' = "done" /\ resources' \in {"none", "closed"}
        /\ (resources = "none" <=> resources' = "none") /\ pc = "closing"
    BY <1>1, <1>11 DEF CloseResources, ServiceTypes, CloseInv
  <2>q. QED
    BY <1>1, <1>2, <2>1 DEF ServiceInv, ServiceTypes, SupervisorTypeOK, OpenInv, CloseInv, InThread, LoopsOver,
       FilesIdle, Ended, ServerClosed, RuntimeEnded, ThreadEnded, MatrixClosed, BeforeThread, BeforeRuntime, WithMatrix
<1>q. QED BY <1>4, <1>5, <1>6, <1>7, <1>8, <1>9, <1>10, <1>11 DEF ClosingStep

-----------------------------------------------------------------------------
(* The theorems.                                                             *)

\* Every reachable state has the invariant: whatever step the start fails at, whenever
\* it is told to end, and whatever the thread does or fails to do.
THEOREM ServiceInvariance == Spec => []IInv
<1>1. Init => IInv
  <2> SUFFICES ASSUME Init PROVE IInv OBVIOUS
  <2> USE DEF Init, BackendInit, SupervisorInit, RuntimeInit
  <2>1. ThreadTypes /\ ControlTypes /\ WorkTypes /\ StoreTypes
    BY DEF ThreadTypes, ControlTypes, WorkTypes, StoreTypes
  <2>2. StreamTypes
    BY BackendAssumption DEF StreamTypes
  <2>3. ServiceTypes
    BY DEF ServiceTypes, SupervisorTypeOK
  <2>4. ServiceTypeOK
    BY <2>1, <2>2, <2>3, BackendTypes, ServiceTypeParts
  <2>5. FilesInv
    BY DEF FilesInv, FileInv, Calls
  <2>6. WorkerInv /\ OpenInv
    BY DEF WorkerInv, OpenInv, BeforeThread, BeforeRuntime, WithMatrix, InThread, FilesIdle, LoopsOver, Ended
  <2>7. CloseInv
    BY DEF CloseInv, ServerClosed, RuntimeEnded, ThreadEnded, MatrixClosed
  <2>q. QED BY <2>4, <2>5, <2>6, <2>7 DEF IInv
<1>2. IInv /\ [Next]_vars => IInv'
  <2> SUFFICES ASSUME IInv, [Next]_vars PROVE IInv' OBVIOUS
  <2>1. CASE OpeningStep \/ StepFails \/ LoopStep \/ ClosingStep \/ Abort \/ StartupExpires
    <3>1. LeavesFiles
      BY <2>1, OpeningAsks, LoopAsks, ClosingAsks
    <3>2. ServiceInv'
      BY <2>1, OpeningKept, LoopKept, ClosingKept
    <3>3. FilesInv' /\ BackendTypeOK' /\ WorkerInv'
      BY <3>1, FilesLeft, TypesLeft DEF IInv, ServiceTypeOK, LeavesFiles
    <3>q. QED BY <3>2, <3>3 DEF IInv, ServiceInv, ServiceTypeOK, ServiceTypes
  <2>2. CASE (ThreadStep \/ ControllerStep \/ TimeUp) /\ UNCHANGED <<serviceVars, supervisorVars>>
    <3>1. BackendTypeOK' /\ FilesInv' /\ WorkerInv' /\ ThreadAges
      BY <2>2, BackendKept
    <3>2. ServiceInv'
      BY <2>2, <3>1, ThreadLeavesService
    <3>q. QED BY <3>1, <3>2 DEF IInv, ServiceInv, ServiceTypeOK, ServiceTypes
  <2>3. CASE SupervisorStep /\ UNCHANGED <<serviceVars, backendVars>>
    <3>1. ServiceInv'
      BY <2>3, SupervisorKept
    <3>2. FilesInv' /\ BackendTypeOK' /\ WorkerInv'
      BY <2>3, NothingAsked, FilesLeft, TypesLeft DEF IInv, ServiceTypeOK, LeavesFiles
    <3>q. QED BY <3>1, <3>2 DEF IInv, ServiceInv, ServiceTypeOK, ServiceTypes
  <2>4. CASE UNCHANGED vars
    <3>1. UNCHANGED backendVars /\ UNCHANGED <<serviceVars, supervisorVars>>
      BY <2>4 DEF vars
    <3>2. FilesInv' /\ BackendTypeOK' /\ WorkerInv'
      BY <3>1, NothingAsked, FilesLeft, TypesLeft DEF IInv, ServiceTypeOK, LeavesFiles
    <3>3. ThreadAges
      BY <3>1 DEF ThreadAges, InThread, backendVars, threadVars, fileVars
    <3>4. ServiceInv'
      BY <3>1, <3>3, ThreadLeavesService
    <3>q. QED BY <3>2, <3>4 DEF IInv, ServiceInv, ServiceTypeOK, ServiceTypes
  <2>q. QED BY <2>1, <2>2, <2>3, <2>4 DEF Next
<1>q. QED BY <1>1, <1>2, PTL DEF Spec

\* The stores, their keys and locks outlive the thread, the loops, the Matrix session, the
\* server and the child of the proxy, in whatever order the start got them and wherever it
\* failed; Matrix outlives the loops; and only a living thread holds the profile's lock.
THEOREM ResourcesLiveLonger == Spec => []ResourcesOutlive
<1>1. IInv => ResourcesOutlive
  <2> SUFFICES ASSUME IInv PROVE ResourcesOutlive OBVIOUS
  <2>1. ServiceTypeOK /\ ServiceTypes /\ OpenInv /\ CloseInv /\ WorkerInv
    BY ServiceTypeParts DEF IInv
  <2>2. runtime \in {"none", "stopped"} => LoopsOver /\ delivery # "request"
    BY <2>1 DEF OpenInv, LoopsOver, Ended
  <2>3. ASSUME resources = "none"
        PROVE  ~InThread /\ matrix # "open" /\ server # "open" /\ LoopsOver /\ supervised = "none"
    BY <2>1, <2>2, <2>3 DEF OpenInv, InThread
  <2>4. ASSUME resources = "closed"
        PROVE  ~InThread /\ matrix # "open" /\ server # "open" /\ LoopsOver /\ supervised = "none"
    BY <2>1, <2>2, <2>4 DEF CloseInv, OpenInv, InThread, ServerClosed, RuntimeEnded, ThreadEnded, MatrixClosed
  <2>5. ASSUME matrix # "open" PROVE LoopsOver /\ delivery # "request"
    BY <2>1, <2>2, <2>5 DEF CloseInv, OpenInv, ServerClosed, RuntimeEnded, ThreadEnded, MatrixClosed, ServiceTypes
  <2>q. QED BY <2>1, <2>3, <2>4, <2>5 DEF ResourcesOutlive, WorkerInv, InThread, ServiceTypes
<1>q. QED BY <1>1, ServiceInvariance, PTL

\* No file that a send has claimed is ever removed, every other file on disk has an entry
\* that will remove it, or its removal failed, and an answered removal of the prepared files
\* leaves none: however store, send, discard, failure and the graceful stop interleave.
THEOREM FilesStayKept == Spec => []FilesKept
<1>1. IInv => FilesKept
  <2> SUFFICES ASSUME IInv PROVE FilesKept OBVIOUS
  <2>1. \A f \in Files : FileInv(f)
    BY DEF IInv, FilesInv
  <2>2. attempted \subseteq Files /\ disk \subseteq Files
    BY DEF IInv, ServiceTypeOK, BackendTypeOK
  <2>3. attempted \subseteq disk
    BY <2>1, <2>2 DEF FileInv
  <2>4. \A f \in disk : f \in attempted \cup stuck \/ registry[f] \in {"undoing", "prepared", "discarding"}
    BY <2>1, <2>2 DEF FileInv
  <2>5. ASSUME call["close"] = "ok" PROVE disk \subseteq attempted \cup stuck
    BY <2>1, <2>2, <2>5 DEF FileInv
  <2>q. QED BY <2>3, <2>4, <2>5 DEF FilesKept
<1>q. QED BY <1>1, ServiceInvariance, PTL

-----------------------------------------------------------------------------
States == {"stopped", "starting", "opened", "running"}
Steps == {"idle", "look", "stop", "profile", "bridge", "copy", "publish", "synchronize",
          "retain", "start"}
Operations == {"idle", "fill", "synchronize", "link", "return", "remove"}

(* The parts of the host's state that the two properties depend on. *)
HostTypes ==
  /\ bridge \in States /\ phase \in Steps
  /\ version \in 0..2
  /\ lock \in [Roots -> {Script, Bridge, None}]
  /\ copied \in [Roots -> {None} \cup 0..3]

(* Who has a lock, by what it is doing. *)
LocksHeld ==
  /\ phase \in {"bridge", "copy"} => lock["profile"] = Script
  /\ phase = "copy" => lock["bridge"] = Script
  /\ bridge \in {"opened", "running"} => lock["bridge"] = Bridge
  /\ bridge = "running" => lock["profile"] = Bridge

(* What has been copied under the locks is the data as it is. *)
CopiesCurrent ==
  /\ phase = "copy" => \A r \in Roots : copied[r] \in {None, version}
  /\ phase = "publish" => Closed(copied)
  /\ phase \notin {"copy", "publish"} => copied = Nothing

HostInv == HostTypes /\ LocksHeld /\ CopiesCurrent /\ ArchivesSound

(* The operator's state, and what each step has behind it. *)
PlaceTypes ==
  /\ op \in Operations /\ place \in Places
  /\ held \in [Places -> SUBSET Roots] /\ durable \in [Places -> SUBSET Roots]
  /\ shown \in [Places -> {"no", "yes", "durably"}]
  /\ spoiled \in [Places -> BOOLEAN]

StepsBehind ==
  /\ op \in {"fill", "synchronize", "link"} => shown[place] = "no"
  /\ op \in {"synchronize", "link", "return"} => held[place] = Roots
  /\ op \in {"link", "return"} => durable[place] = Roots
  /\ op = "remove" => shown[place] = "no" \/ spoiled[place]

PlaceInv == PlaceTypes /\ StepsBehind /\ PublishedWhole

(***************************************************************************)
(* Archives.                                                               *)
(***************************************************************************)

LEMMA HostInitially == BackupInit => HostInv
BY BackupAssumption
   DEF BackupInit, HostInv, HostTypes, LocksHeld, CopiesCurrent, ArchivesSound, Nothing, Roots, States, Steps

(* A release takes a lock from nobody but the one who releases. *)
LEMMA ReleaseKeepsOthers ==
  ASSUME HostTypes, NEW who \in {Script, Bridge}
  PROVE /\ Unheld(who) \in [Roots -> {Script, Bridge, None}]
        /\ \A r \in Roots : lock[r] # who => Unheld(who)[r] = lock[r]
BY BackupAssumption DEF HostTypes, Unheld, Roots

(* The steps of the bridge, which can only be at the databases while the script does not copy. *)
LEMMA BridgeKeepsHost ==
  ASSUME HostInv, BridgeStep \/ BridgeDies \/ StartByHand PROVE HostInv'
<1> USE BackupAssumption
    DEF HostInv, HostTypes, LocksHeld, CopiesCurrent, ArchivesSound, Closed, Nothing, Roots, States,
        Steps, Unlocked, scriptVars, archiveVars
<1>1. CASE BridgeOpens
  <2>1. phase # "copy"
    BY <1>1 DEF BridgeOpens
  <2>2. version' \in 0..2
    BY <1>1 DEF BridgeOpens
  <2>q. QED BY <1>1, <2>1, <2>2 DEF BridgeOpens
<1>2. CASE BridgeGivesUp
  BY <1>2, ReleaseKeepsOthers DEF BridgeGivesUp
<1>3. CASE BridgeDies
  BY <1>3, ReleaseKeepsOthers DEF BridgeDies
<1>4. CASE StartByHand
  BY <1>4 DEF StartByHand
<1>q. QED BY <1>1, <1>2, <1>3, <1>4 DEF BridgeStep

(* The steps of the script, a failed one among them. *)
LEMMA ScriptKeepsHost ==
  ASSUME HostInv, Begin \/ ScriptStep \/ ScriptFails PROVE HostInv'
<1> USE BackupAssumption
    DEF HostInv, HostTypes, LocksHeld, CopiesCurrent, ArchivesSound, Nothing, Roots, States,
        Steps, Unlocked, ScriptAt, Goto, bridgeVars, archiveVars
<1>1. CASE Begin
  BY <1>1 DEF Begin
<1>2. CASE Look
  BY <1>2 DEF Look
<1>3. CASE StopBridge
  BY <1>3, ReleaseKeepsOthers DEF StopBridge
<1>4. ASSUME NEW r \in Roots, LockRoot(r) PROVE HostInv'
  BY <1>4 DEF LockRoot
<1>5. ASSUME NEW r \in Roots, CopyRoot(r) PROVE HostInv'
  <2>1. ~OpenBy(r)
    BY <1>5 DEF CopyRoot, OpenBy
  <2>2. copied' = [copied EXCEPT ![r] = version]
    BY <1>5, <2>1 DEF CopyRoot
  <2>q. QED BY <1>5, <2>2 DEF CopyRoot
<1>6. CASE Close
  <2>1. Closed(copied)
    BY <1>6 DEF Close, Closed
  <2>q. QED BY <1>6, <2>1, ReleaseKeepsOthers DEF Close, Closed
<1>7. ASSUME NEW n \in Names, Publish(n) PROVE HostInv'
  BY <1>7 DEF Publish
<1>8. CASE Synchronize
  BY <1>8 DEF Synchronize
<1>9. CASE Prune
  BY <1>9 DEF Prune
<1>10. CASE Stuck \/ ScriptFails
  BY <1>10, ReleaseKeepsOthers DEF Stuck, ScriptFails, ScriptEnds
<1>11. CASE Start
  BY <1>11 DEF Start
<1>q. QED BY <1>1, <1>2, <1>3, <1>4, <1>5, <1>6, <1>7, <1>8, <1>9, <1>10, <1>11 DEF ScriptStep

(* The operator's steps leave the host's state alone; a power loss clears it. *)
LEMMA OthersKeepHost ==
  ASSUME HostInv, OperatorStep \/ OperationFails \/ PowerLoss \/ UNCHANGED backupVars PROVE HostInv'
<1> USE DEF HostInv, HostTypes, LocksHeld, CopiesCurrent, ArchivesSound, Closed
<1>1. CASE OperatorStep \/ OperationFails \/ UNCHANGED backupVars
  <2>1. UNCHANGED <<bridgeVars, scriptVars, archiveVars>>
    BY <1>1 DEF OperatorStep, OperationFails, Reserve, Discard, Fill, Check, SynchronizeTree,
                Link, Return, Remove, backupVars
  <2>q. QED BY <2>1 DEF bridgeVars, scriptVars, archiveVars
<1>2. CASE PowerLoss
  BY <1>2, BackupAssumption DEF PowerLoss, Nothing, Roots, States, Steps
<1>q. QED BY <1>1, <1>2

(* Every archive holds a whole state that the bridge left when it had closed: backup/snapshot.ts *)
(* copies under both of the locks that service/resources.ts and the backend thread hold while    *)
(* they have their databases open.                                                               *)
THEOREM ArchivesAreSound == BackupSpec => []ArchivesSound
<1>1. HostInv /\ [BackupNext]_backupVars => HostInv'
  BY BridgeKeepsHost, ScriptKeepsHost, OthersKeepHost DEF BackupNext
<1>2. HostInv => ArchivesSound
  BY DEF HostInv
<1>q. QED BY HostInitially, <1>1, <1>2, PTL DEF BackupSpec

(***************************************************************************)
(* Workspaces and installations.                                           *)
(***************************************************************************)

LEMMA PlacesInitially == BackupInit => PlaceInv
BY DEF BackupInit, PlaceInv, PlaceTypes, StepsBehind, PublishedWhole, Places, Roots, Operations

(* The operator's steps, a failed one among them. *)
LEMMA OperatorKeepsPlaces ==
  ASSUME PlaceInv, OperatorStep \/ OperationFails PROVE PlaceInv'
<1> USE DEF PlaceInv, PlaceTypes, StepsBehind, PublishedWhole, Operations
<1>1. ASSUME NEW p \in Places, Reserve(p) PROVE PlaceInv'
  BY <1>1 DEF Reserve
<1>2. ASSUME NEW p \in Places, Discard(p) PROVE PlaceInv'
  BY <1>2 DEF Discard, Emptied
<1>3. CASE Fill
  <2>1. PICK r \in Wanted(place) \ held[place] : held' = [held EXCEPT ![place] = @ \cup {r}]
    BY <1>3 DEF Fill
  <2>2. r \in Roots
    BY <2>1 DEF Wanted, Places
  <2>q. QED BY <1>3, <2>1, <2>2 DEF Fill
<1>4. CASE Check
  BY <1>4 DEF Check
<1>5. CASE SynchronizeTree
  BY <1>5 DEF SynchronizeTree, Synchronized
<1>6. CASE Link
  BY <1>6 DEF Link
<1>7. CASE Return
  BY <1>7 DEF Return
<1>8. CASE Remove
  <2>1. CASE Emptied(place) /\ op' = "idle"
    BY <1>8, <2>1 DEF Remove, Emptied
  <2>2. ASSUME NEW r \in held[place],
               held' = [held EXCEPT ![place] = @ \ {r}],
               durable' = [durable EXCEPT ![place] = @ \ {r}],
               UNCHANGED <<op, shown, spoiled>>
        PROVE PlaceInv'
    <3>1. UNCHANGED place /\ op = "remove" BY <1>8 DEF Remove
    <3>2. PlaceTypes' BY <2>2, <3>1 DEF PlaceTypes
    <3>3. StepsBehind' BY <2>2, <3>1 DEF StepsBehind
    <3>4. PublishedWhole' BY <2>2, <3>1 DEF PublishedWhole
    <3>q. QED BY <3>2, <3>3, <3>4
  <2>q. QED BY <1>8, <2>1, <2>2 DEF Remove
<1>9. CASE OperationFails
  BY <1>9 DEF OperationFails
<1>q. QED BY <1>1, <1>2, <1>3, <1>4, <1>5, <1>6, <1>7, <1>8, <1>9 DEF OperatorStep

(* A power loss leaves the durable roots in place and ends the operation. *)
LEMMA PowerLossKeepsPlaces ==
  ASSUME PlaceInv, PowerLoss PROVE PlaceInv'
<1> USE DEF PlaceInv, PlaceTypes, StepsBehind, PublishedWhole, Operations
<1>1. PICK h \in [Places -> SUBSET Roots] :
        /\ \A p \in Places : durable[p] \subseteq h[p] /\ h[p] \subseteq held[p]
        /\ held' = h /\ durable' = h
  BY DEF PowerLoss
<1>2. \A p \in Places : shown'[p] # "no" => shown[p] # "no"
  BY DEF PowerLoss
<1>3. PlaceTypes' /\ op' = "idle" /\ spoiled' = spoiled
  BY <1>1 DEF PowerLoss
<1>4. ASSUME NEW p \in Places, shown'[p] # "no", ~spoiled'[p]
      PROVE held'[p] = Roots /\ durable'[p] = Roots
  <2>1. durable[p] = Roots /\ held[p] = Roots
    BY <1>2, <1>3, <1>4
  <2>q. QED BY <1>1, <2>1
<1>q. QED BY <1>3, <1>4

(* Whatever bears the name that makes it usable, RESTORE-COMPLETE.json or bridge.yaml, is whole  *)
(* and would be so after a power loss, unless its removal has begun: restore-backup.ts and       *)
(* adopt-workspace.ts synchronize every file before they link that name.                         *)
THEOREM PublishedIsWhole == BackupSpec => []PublishedWhole
<1>1. PlaceInv /\ [BackupNext]_backupVars => PlaceInv'
  <2> SUFFICES ASSUME PlaceInv, [BackupNext]_backupVars PROVE PlaceInv' OBVIOUS
  <2>1. CASE OperatorStep \/ OperationFails
    BY <2>1, OperatorKeepsPlaces
  <2>2. CASE PowerLoss
    BY <2>2, PowerLossKeepsPlaces
  <2>3. CASE BridgeStep \/ BridgeDies \/ StartByHand \/ Begin \/ ScriptStep \/ ScriptFails \/ UNCHANGED backupVars
    <3>1. UNCHANGED placeVars
      BY <2>3 DEF BridgeStep, BridgeOpens, BridgeGivesUp, BridgeDies, StartByHand, Begin, ScriptStep,
                  Look, StopBridge, LockRoot, CopyRoot, Close, Publish, Synchronize, Prune, Stuck, ScriptFails,
                  ScriptEnds, Start, backupVars
    <3>q. QED BY <3>1 DEF placeVars, PlaceInv, PlaceTypes, StepsBehind, PublishedWhole
  <2>q. QED BY <2>1, <2>2, <2>3 DEF BackupNext
<1>2. PlaceInv => PublishedWhole
  BY DEF PlaceInv
<1>q. QED BY PlacesInitially, <1>1, <1>2, PTL DEF BackupSpec
=============================================================================
