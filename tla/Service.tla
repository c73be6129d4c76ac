------------------------------ MODULE Service ------------------------------
(***************************************************************************)
(* The life of the service: it opens its stores, the thread of the         *)
(* profile, the Matrix session, the server and the runtime one after       *)
(* another, runs the loops, and closes everything in an order that leaves  *)
(* nobody with a closed store or key: after a failed step, after the time  *)
(* limit of the start, and when it is told to end, at any moment.          *)
(***************************************************************************)
EXTENDS BackendThread, ProcessSupervisor

CONSTANT Configurations   \* whether the service runs a proxy and sends media

ASSUME ConfigurationAssumption == Configurations \subseteq [proxy : BOOLEAN, media : BOOLEAN]

VARIABLES
  config,      \* the configuration it is started with
  pc,          \* startService: the step it is at, "up", "failed" or "closing"
  aborted,     \* told to end
  expired,     \* the start took too long
  resources,   \* stores, their keys and locks
  profile,     \* openSavedProfile has returned
  matrix,      \* Matrix session: "none", "open", "closed"
  server,      \* server of transactions and health
  runtime,     \* state of the profile runtime
  sync,        \* its synchroniser
  delivery,    \* its loops that send to Matrix
  closeStep    \* close: what it waits for

openVars == <<resources, profile, matrix, server>>
loopVars == <<runtime, sync, delivery>>
serviceVars == <<config, pc, aborted, expired, openVars, loopVars, closeStep>>
vars == <<serviceVars, backendVars, supervisorVars>>

ServiceTypeOK ==
  /\ BackendTypeOK /\ SupervisorTypeOK /\ config \in Configurations
  /\ pc \in {"registration", "proxy", "resources", "profile", "opening", "givingUp", "matrix",
             "owner", "media", "states", "listen", "runtime", "starting", "up", "failed",
             "closing"}
  /\ aborted \in BOOLEAN /\ expired \in BOOLEAN /\ profile \in BOOLEAN
  /\ resources \in {"none", "open", "closed"} /\ matrix \in {"none", "open", "closed"}
  /\ server \in {"none", "open", "closed"}
  /\ runtime \in {"none", "idle", "starting", "running", "stopping", "stopped"}
  /\ sync \in {"off", "waiting", "asking", "live", "over"}
  /\ delivery \in {"off", "idle", "request", "over"}
  /\ closeStep \in {"no", "proxy", "runtime", "profile", "thread", "matrix", "resources", "done"}

RuntimeInit == runtime = "none" /\ sync = "off" /\ delivery = "off"
Init ==
  /\ BackendInit /\ SupervisorInit /\ RuntimeInit /\ config \in Configurations
  /\ pc = "registration" /\ aborted = FALSE /\ expired = FALSE
  /\ resources = "none" /\ profile = FALSE /\ matrix = "none" /\ server = "none"
  /\ closeStep = "no"

-----------------------------------------------------------------------------
(* Opening.                                                                *)

Cancelled == aborted \/ expired
\* The checks between the steps give up after a step that has been done.
Onward(next) == pc' = IF Cancelled THEN "failed" ELSE next
At(step) == pc = step /\ UNCHANGED <<config, aborted, expired, closeStep>>
Apart(others) == UNCHANGED <<backendVars, supervisorVars, others>>

ReadRegistration ==
  /\ At("registration") /\ Onward("proxy") /\ Apart(<<openVars, loopVars>>)
OpenProxy ==
  /\ At("proxy")
  /\ IF Cancelled THEN pc' = "failed" /\ UNCHANGED supervisorVars
     ELSE /\ pc' = "resources"
          /\ IF config.proxy THEN PrepareProxy ELSE UNCHANGED supervisorVars
  /\ UNCHANGED <<backendVars, openVars, loopVars>>
OpenResources ==
  /\ At("resources") /\ resources' = "open" /\ pc' = "profile"
  /\ Apart(<<profile, matrix, server, loopVars>>)
OpenProfile ==
  /\ At("profile")
  /\ IF Cancelled THEN pc' = "failed" /\ UNCHANGED <<threadVars, controlVars, call, fileVars>>
     ELSE pc' = "opening" /\ Spawn /\ Asked("open")
  /\ UNCHANGED <<supervisorVars, openVars, loopVars>>
ProfileOpened ==
  /\ At("opening") /\ call["open"] = "ok" /\ ~Cancelled
  /\ profile' = TRUE /\ pc' \in {"matrix", "failed"}
  /\ Apart(<<resources, matrix, server, loopVars>>)
ProfileFails ==
  /\ At("opening") /\ (call["open"] = "failed" \/ (call["open"] = "ok" /\ Cancelled))
  /\ pc' = "givingUp" /\ Stop
  /\ UNCHANGED <<threadVars, fileVars, supervisorVars, openVars, loopVars>>
ProfileGivenUp ==
  /\ At("givingUp") /\ StopOver /\ pc' = "failed" /\ Apart(<<openVars, loopVars>>)
OpenMatrix ==
  /\ At("matrix") /\ matrix' = "open" /\ Onward("owner")
  /\ Apart(<<resources, profile, server, loopVars>>)
OpenOwner == At("owner") /\ Onward("media") /\ Apart(<<openVars, loopVars>>)
CreateMedia == At("media") /\ Onward("states") /\ Apart(<<openVars, loopVars>>)
CreateRuntime ==
  /\ At("states") /\ runtime' = "idle" /\ pc' = "listen" /\ Apart(<<openVars, sync, delivery>>)
Listen ==
  /\ At("listen") /\ server' = "open" /\ Onward("runtime")
  /\ Apart(<<resources, profile, matrix, loopVars>>)
StartRuntime ==
  /\ At("runtime") /\ pc' = "starting" /\ runtime' = "starting" /\ Asked("start")
  /\ IF supervisor = "none" THEN UNCHANGED supervisorVars ELSE StartProxy
  /\ UNCHANGED <<threadVars, controlVars, fileVars, openVars, sync, delivery>>
Started ==
  /\ At("starting") /\ runtime = "running" /\ Onward("up") /\ Apart(<<openVars, loopVars>>)
StartFailed ==
  /\ At("starting") /\ runtime = "stopped" /\ pc' = "failed" /\ Apart(<<openVars, loopVars>>)

\* A file, a request or a check of such a step fails; what it began it has undone.
StepFails ==
  /\ pc \in {"registration", "proxy", "resources", "profile", "matrix", "owner", "media",
             "states", "listen"}
  /\ pc' = "failed" /\ UNCHANGED <<config, aborted, expired, closeStep>>
  /\ Apart(<<openVars, loopVars>>)

OpeningStep ==
  \/ ReadRegistration \/ OpenProxy \/ OpenResources \/ OpenProfile \/ ProfileOpened
  \/ ProfileFails \/ ProfileGivenUp \/ OpenMatrix \/ OpenOwner \/ CreateMedia
  \/ CreateRuntime \/ Listen \/ StartRuntime \/ Started \/ StartFailed

-----------------------------------------------------------------------------
(* Running.                                                                *)

Live == closeStep = "no" /\ ~aborted
ProxyReady == supervisor \in {"none", "running"}
RuntimeReady == runtime = "running" /\ sync = "live" /\ matrix = "open"
Ready == Live /\ ProxyReady /\ RuntimeReady /\ resources = "open"

AtRest(others) ==
  UNCHANGED <<config, pc, aborted, expired, openVars, closeStep, supervisorVars, others>>

\* stop: readiness is dropped, every loop told to end and the thread stopped, at once.
RuntimeStops ==
  /\ runtime' = IF runtime \in {"none", "stopped"} THEN runtime ELSE "stopping"
  /\ IF runtime \in {"none", "stopping", "stopped"} THEN UNCHANGED <<controlVars, call>> ELSE Stop

Activated ==
  /\ runtime = "starting" /\ call["start"] = "ok" /\ runtime' = "running"
  /\ sync' = "waiting" /\ delivery' = "idle"
  /\ AtRest(backendVars)
ActivationFails ==
  /\ runtime = "starting" /\ call["start"] \in {"ok", "failed"} /\ RuntimeStops
  /\ AtRest(<<threadVars, fileVars, sync, delivery>>)

FilesIdle == \A f \in Files : work[f] \in {"new", "prepared", "doomed", "over"}
Ended(loopState) == loopState \in {"off", "over"}
LoopsOver == Ended(sync) /\ Ended(delivery) /\ FilesIdle
RuntimeStopped ==
  /\ runtime = "stopping" /\ LoopsOver /\ StopOver /\ runtime' = "stopped"
  /\ AtRest(<<backendVars, sync, delivery>>)

\* Synchronisation: an epoch is asked for, lives until its watches report a reset or
\* are closed, and is asked for again; without a thread every attempt fails.
SyncAsks ==
  /\ runtime = "running" /\ sync = "waiting" /\ sync' = "asking" /\ Asked("sync")
  /\ AtRest(<<threadVars, controlVars, fileVars, runtime, delivery>>)
SyncAnswered ==
  /\ sync = "asking" /\ call["sync"] \in {"ok", "failed"}
  /\ sync' = IF call["sync"] = "ok" THEN "live" ELSE "waiting"
  /\ call' = [call EXCEPT !["sync"] = "none"]
  /\ AtRest(<<threadVars, controlVars, fileVars, runtime, delivery>>)
SyncReset ==
  /\ sync = "live" /\ sync' = "waiting" /\ AtRest(<<backendVars, runtime, delivery>>)
WatchesIgnored == FALSE /\ SyncReset        \* a bug in WatchesClosed: close is no reset
WatchesClosed == thread = "gone" /\ SyncReset
SyncStops ==
  /\ runtime = "stopping" /\ sync \in {"waiting", "live"} /\ sync' = "over"
  /\ AtRest(<<backendVars, runtime, delivery>>)

DeliveryBegins ==
  /\ delivery = "idle" /\ RuntimeReady /\ delivery' = "request"
  /\ AtRest(<<backendVars, runtime, sync>>)
DeliveryEnds ==
  /\ delivery = "request" /\ delivery' = "idle" /\ AtRest(<<backendVars, runtime, sync>>)
DeliveryStops ==
  /\ runtime = "stopping" /\ delivery = "idle" /\ delivery' = "over"
  /\ AtRest(<<backendVars, runtime, sync>>)

\* The media loop: one file at a time is prepared and sent; one that is prepared and
\* not sent is discarded, again later when that fails; a send is never repeated.
Turns(f, next) ==
  /\ work' = [work EXCEPT ![f] = next]
  /\ AtRest(<<threadVars, controlVars, storeVars, streamVars, loopVars>>)
AskPrepare(f) ==
  /\ config.media /\ RuntimeReady /\ FilesIdle /\ work[f] = "new"
  /\ ~\E g \in Files : work[g] = "prepared"
  /\ Asked(f) /\ Turns(f, "preparing")
FilePrepared(f) ==
  /\ work[f] = "preparing" /\ call[f] \in {"ok", "failed"} /\ UNCHANGED call
  /\ Turns(f, IF call[f] = "ok" /\ runtime = "running" THEN "prepared" ELSE "over")
AskSend(f) ==
  /\ RuntimeReady /\ work[f] = "prepared" /\ Asked(f) /\ Turns(f, "sending")
AskDiscard(f) ==
  /\ runtime \in {"running", "stopping"}
  /\ work[f] = "prepared" \/ (work[f] = "doomed" /\ runtime = "running")
  /\ Asked(f) /\ Turns(f, "discarding")
FileSettled(f) ==
  /\ work[f] \in {"sending", "discarding"} /\ call[f] \in {"ok", "failed"} /\ UNCHANGED call
  /\ Turns(f, IF work[f] = "discarding" /\ call[f] = "failed" THEN "doomed" ELSE "over")

LoopStep ==
  \/ Activated \/ ActivationFails \/ RuntimeStopped
  \/ SyncAsks \/ SyncAnswered \/ SyncReset \/ SyncStops
  \/ DeliveryBegins \/ DeliveryEnds \/ DeliveryStops
  \/ \E f \in Files :
       AskPrepare(f) \/ FilePrepared(f) \/ AskSend(f) \/ AskDiscard(f) \/ FileSettled(f)

-----------------------------------------------------------------------------
(* Closing.                                                                *)

\* The thread is stopped as soon as the profile's signal is aborted.
BeginClose ==
  /\ closeStep' = "proxy" /\ pc' = "closing"
  /\ IF supervisor = "none" THEN UNCHANGED supervisorVars ELSE StopProxy
AbortThread == IF thread = "none" THEN UNCHANGED <<controlVars, call>> ELSE Stop
Abort ==
  /\ pc \notin {"failed", "closing"} /\ ~aborted /\ aborted' = TRUE
  /\ AbortThread
  /\ IF pc = "up" THEN BeginClose /\ runtime' = "stopping"
     ELSE UNCHANGED <<pc, closeStep, runtime, supervisorVars>>
  /\ UNCHANGED <<config, expired, openVars, sync, delivery, threadVars, fileVars>>
StartupExpires ==
  /\ pc \notin {"up", "failed", "closing"} /\ ~expired /\ expired' = TRUE
  /\ AbortThread
  /\ UNCHANGED <<config, pc, aborted, closeStep, openVars, loopVars, supervisorVars, threadVars,
                 fileVars>>

\* After a failed start.
CloseFailed ==
  /\ pc = "failed" /\ BeginClose /\ aborted' = TRUE
  /\ RuntimeStops
  /\ UNCHANGED <<config, expired, openVars, sync, delivery, threadVars, fileVars>>

Awaits(step, next) ==
  closeStep = step /\ closeStep' = next /\ UNCHANGED <<config, pc, aborted, expired, loopVars>>
CloseServer ==
  /\ ProxyStopped /\ Awaits("proxy", "runtime")
  /\ server' = IF server = "open" THEN "closed" ELSE server
  /\ supervisor' = IF supervisor = "none" THEN "none" ELSE "stopped"
  /\ UNCHANGED <<loop, supervised, signal, cancelled, backendVars, resources, profile, matrix>>
RuntimeOverSoon == TRUE                          \* a bug in RuntimeOver: nobody waits
RuntimeOver == runtime \in {"none", "stopped"}
AwaitRuntime ==
  /\ RuntimeOver /\ Awaits("runtime", "profile") /\ Apart(openVars)
CloseProfile ==
  /\ Awaits("profile", "thread")
  /\ IF profile THEN Stop ELSE UNCHANGED <<controlVars, call>>
  /\ UNCHANGED <<threadVars, fileVars, supervisorVars, openVars>>
ProfileClosed ==
  /\ ~profile \/ StopOver
  /\ Awaits("thread", "matrix") /\ Apart(openVars)
CloseMatrix ==
  /\ Awaits("matrix", "resources") /\ matrix' = IF matrix = "open" THEN "closed" ELSE matrix
  /\ Apart(<<resources, profile, server>>)
CloseResources ==
  /\ Awaits("resources", "done")
  /\ resources' = IF resources = "open" THEN "closed" ELSE resources
  /\ Apart(<<profile, matrix, server>>)

ClosingStep ==
  CloseFailed \/ CloseServer \/ AwaitRuntime \/ CloseProfile \/ ProfileClosed \/ CloseMatrix
    \/ CloseResources

-----------------------------------------------------------------------------
Next ==
  \/ OpeningStep \/ StepFails \/ LoopStep \/ ClosingStep \/ Abort \/ StartupExpires
  \/ (ThreadStep \/ ControllerStep \/ TimeUp) /\ UNCHANGED <<serviceVars, supervisorVars>>
  \/ SupervisorStep /\ UNCHANGED <<serviceVars, backendVars>>

Spec == Init /\ [][Next]_vars

\* The code's own steps happen, its timers fire, a terminated thread and a killed child
\* end, and requests to Matrix and files end.  Nothing is assumed of the answers of the
\* thread, of what kills it, of resets or of the signal to end.
Backend(A) == A /\ UNCHANGED <<serviceVars, supervisorVars>>
Proxy(A) == A /\ UNCHANGED <<serviceVars, backendVars>>
Fairness ==
  /\ WF_vars(OpeningStep) /\ WF_vars(ClosingStep) /\ WF_vars(StartupExpires)
  /\ WF_vars(Backend(\E c \in Calls : Post(c))) /\ WF_vars(Backend(Fatal))
  /\ WF_vars(Backend(TimeUp)) /\ WF_vars(Backend(Terminated))
  /\ WF_vars(Proxy(Kill)) /\ WF_vars(Proxy(KilledCloses)) /\ WF_vars(Proxy(Retry))
  /\ WF_vars(Proxy(Launch \/ VerifyFails \/ VerifyCancelled))
  /\ WF_vars(Activated \/ ActivationFails) /\ WF_vars(RuntimeStopped)
  /\ WF_vars(SyncAnswered) /\ WF_vars(SyncStops) /\ WF_vars(WatchesClosed)
  /\ WF_vars(DeliveryEnds) /\ WF_vars(DeliveryStops)
  /\ WF_vars(\E f \in Files : FilePrepared(f) \/ FileSettled(f))
FairSpec == Spec /\ Fairness

-----------------------------------------------------------------------------
(* Properties.                                                             *)

\* The stores, their keys and locks are open as long as anybody uses them: a loop, the
\* thread, a Matrix client or the server, whenever and wherever start or stop fails;
\* Matrix outlives the loops, and the profile is locked by a living thread only.  (With
\* the types of the modules.)
ResourcesOutlive ==
  /\ ServiceTypeOK
  /\ resources # "open" => /\ ~InThread /\ matrix # "open" /\ server # "open" /\ LoopsOver
                           /\ supervised = "none"
  /\ matrix # "open" => LoopsOver /\ delivery # "request"
  /\ locked => InThread

\* A file a send has claimed or a message refers to is never removed; every other file
\* on disk is still accounted for, unless its removal failed or the thread is gone; and
\* when the thread has removed its prepared files, none is left or on its way.
FilesKept ==
  /\ attempted \subseteq disk
  /\ thread # "gone" =>
       \A f \in disk : \/ f \in attempted \cup stuck
                       \/ registry[f] \in {"undoing", "prepared", "discarding"}
  /\ call["close"] = "ok" => disk \subseteq attempted \cup stuck

\* The start comes to an end within its limit, and whoever ends the service sees
\* everything released: no request, loop, thread, lock or child is left.
Released ==
  /\ closeStep = "done" /\ ~InThread /\ ~locked /\ supervised = "none" /\ LoopsOver
  /\ \A c \in Calls : ~Unsettled(c)
Settles == (aborted \/ pc \notin {"up", "closing"}) ~> (Released \/ (pc = "up" /\ ~aborted))

\* A service whose thread is gone stops to report that it is ready.
DeadNotReady == thread = "gone" ~> [](~Ready)
=============================================================================
