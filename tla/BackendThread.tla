--------------------------- MODULE BackendThread ---------------------------
(***************************************************************************)
(* The worker thread that owns the Threema profile, the controller that    *)
(* the service talks to it through, and the files that are prepared in it: *)
(* start, requests, graceful stop, failure, and the registry that hands a  *)
(* prepared file to exactly one message or removes it.                     *)
(*                                                                         *)
(* A request waits for the thread to be initialised, is posted, and is     *)
(* answered, refused or rejected when the thread is given up.  "open" is   *)
(* the opening of the saved profile, "start" what the runtime asks before  *)
(* its loops run, "sync" an epoch of synchronisation, "close" the removal  *)
(* of prepared files when the thread is stopped; a file has one request    *)
(* at a time.  The thread need not answer anything.                        *)
(***************************************************************************)
EXTENDS Naturals, FiniteSets

CONSTANTS
  Files,      \* files that are prepared for messages, one each
  Capacity,   \* of the registry (16 files)
  Packets     \* of a file's byte stream

ASSUME BackendAssumption ==
  /\ Capacity \in Nat /\ Packets \in Nat
  /\ Files \cap {"open", "start", "sync", "close"} = {}

VARIABLES
  thread,     \* life of the worker; "failing" reports that it could not start
  locked,     \* the thread holds the lock of its profile
  ready,      \* the controller's promise that the thread is initialised
  stopped,    \* the controller: no request is posted any more
  draining,   \* a graceful stop has begun
  graceful,   \* its course
  stopping,   \* termination of the worker
  call,       \* requests of the controller
  work,       \* what the service does with a file
  registry,   \* entry of a file in the thread
  disk,       \* files in the thread's storage
  attempted,  \* files a send has claimed
  owned,      \* files that a message of Threema refers to
  flow,       \* byte stream of a file: the receiver's demand and its answer
  got,        \* packets received
  closing,    \* the registry: "no", "waiting" for work under way, "removing", "closed"
  stuck       \* files whose removal failed

controlVars == <<ready, stopped, draining, graceful, stopping>>
threadVars == <<thread, locked>>
streamVars == <<flow, got>>
storeVars == <<registry, disk, attempted, owned, closing, stuck>>
fileVars == <<work, streamVars, storeVars>>
backendVars == <<threadVars, controlVars, call, fileVars>>

Calls == {"open", "start", "sync", "close"} \cup Files

BackendTypeOK ==
  /\ thread \in {"none", "booting", "serving", "failing", "gone"} /\ locked \in BOOLEAN
  /\ ready \in {"pending", "yes", "no"} /\ stopped \in BOOLEAN /\ draining \in BOOLEAN
  /\ graceful \in {"no", "closing", "over"} /\ stopping \in {"no", "asked", "done"}
  /\ call \in [Calls -> {"none", "awaiting", "pending", "ok", "failed"}]
  /\ work \in [Files -> {"new", "preparing", "prepared", "doomed", "sending",
                         "discarding", "over"}]
  /\ registry \in [Files -> {"none", "storing", "undoing", "prepared", "claimed", "discarding"}]
  /\ disk \in SUBSET Files /\ attempted \in SUBSET Files /\ owned \in SUBSET attempted
  /\ stuck \in SUBSET Files
  /\ flow \in [Files -> {"idle", "pull", "data", "end", "broken"}]
  /\ got \in [Files -> 0..Packets]
  /\ closing \in {"no", "waiting", "removing", "closed"}

BackendInit ==
  /\ thread = "none" /\ locked = FALSE
  /\ ready = "pending" /\ stopped = FALSE /\ draining = FALSE
  /\ graceful = "no" /\ stopping = "no"
  /\ call = [c \in Calls |-> "none"]
  /\ work = [f \in Files |-> "new"] /\ registry = [f \in Files |-> "none"]
  /\ disk = {} /\ attempted = {} /\ owned = {} /\ stuck = {}
  /\ flow = [f \in Files |-> "idle"] /\ got = [f \in Files |-> 0]
  /\ closing = "no"

Unsettled(c) == call[c] \in {"awaiting", "pending"}
InThread == thread \in {"booting", "serving", "failing"}
Serving(c) == thread = "serving" /\ call[c] = "pending"

-----------------------------------------------------------------------------
(* The controller.                                                         *)

\* Every posted request is rejected, and whoever waits for the thread gives up.
RejectAll ==
  /\ stopped' = TRUE
  /\ ready' = IF ready = "pending" THEN "no" ELSE ready
  /\ call' = [c \in Calls |-> IF call[c] = "pending" THEN "failed" ELSE call[c]]

StopWithError ==
  IF stopping = "no" THEN RejectAll /\ stopping' = "asked"
                     ELSE UNCHANGED <<stopped, ready, call, stopping>>

Spawn ==
  /\ thread' = "booting"
  /\ UNCHANGED <<locked, controlVars, fileVars>>

\* Requests begin with the steps of the service, and of the files below.
Asked(c) == call' = [call EXCEPT ![c] = "awaiting"]
Answered(c, result) == call' = [call EXCEPT ![c] = result]

\* A request that waited for the thread is posted, or refused.
Refused(c) == stopped \/ (draining /\ c # "close")
Post(c) ==
  /\ call[c] = "awaiting" /\ ready # "pending"
  /\ Answered(c, IF ready = "no" \/ Refused(c) THEN "failed" ELSE "pending")
  /\ UNCHANGED <<threadVars, controlVars, fileVars>>

\* A graceful stop asks for the removal of prepared files and terminates the
\* thread then, or after two seconds; sources of streams are destroyed at once.
Stop ==
  IF stopping # "no" \/ graceful # "no"
  THEN UNCHANGED <<controlVars, call>>
  ELSE /\ draining' = TRUE /\ graceful' = "closing" /\ Asked("close")
       /\ UNCHANGED <<ready, stopped, stopping>>

FinishGracefulStop ==
  /\ graceful = "closing" /\ graceful' = "over"
  /\ StopWithError
  /\ UNCHANGED <<threadVars, draining, fileVars>>
PreparedFilesClosed == call["close"] \in {"ok", "failed"} /\ FinishGracefulStop
TimeUpNever == FALSE /\ FinishGracefulStop             \* a bug in TimeUp: no timer
TimeUp == FinishGracefulStop

Terminated ==
  /\ stopping = "asked" /\ stopping' = "done"
  /\ thread' = "gone" /\ locked' = FALSE
  /\ UNCHANGED <<ready, stopped, draining, graceful, call, fileVars>>

StopOver == stopping = "done" /\ graceful # "closing"

\* The worker fails or exits by itself.
ThreadDies ==
  /\ InThread /\ thread' = "gone" /\ locked' = FALSE
  /\ RejectAll
  /\ UNCHANGED <<draining, graceful, stopping, fileVars>>

-----------------------------------------------------------------------------
(* The thread.                                                             *)

\* The profile is locked for as long as the thread lives; another process may have
\* it, and the initialisation may fail.
TakeLock ==
  /\ thread = "booting" /\ ~locked /\ locked' = TRUE
  /\ UNCHANGED <<thread, controlVars, call, fileVars>>
BootFails ==
  /\ thread = "booting" /\ thread' = "failing" /\ locked' = FALSE
  /\ UNCHANGED <<controlVars, call, fileVars>>
Fatal ==
  /\ thread = "failing" /\ ~stopped /\ StopWithError
  /\ UNCHANGED <<threadVars, draining, graceful, fileVars>>
Serve ==
  /\ thread = "booting" /\ locked /\ thread' = "serving"
  /\ UNCHANGED <<locked, controlVars, call, fileVars>>
Initialized ==
  /\ thread = "serving" /\ ~stopped /\ ready = "pending" /\ ready' = "yes"
  /\ UNCHANGED <<threadVars, stopped, draining, graceful, stopping, call, fileVars>>

\* Opening, starting and synchronising are answered in the end, or never.
Answer(c) ==
  /\ c \in {"open", "start", "sync"} /\ Serving(c)
  /\ \E result \in {"ok", "failed"} : Answered(c, result)
  /\ UNCHANGED <<threadVars, controlVars, fileVars>>

-----------------------------------------------------------------------------
(* Prepared files: the registry of the thread.                             *)

Held == {f \in Files : registry[f] \in {"storing", "prepared", "claimed", "discarding"}}
Ends(f, entry, result) ==
  /\ registry' = [registry EXCEPT ![f] = entry] /\ Answered(f, result)
OnlyRegistry(f, entry) ==
  /\ registry' = [registry EXCEPT ![f] = entry]
  /\ UNCHANGED <<threadVars, controlVars, call, work>>

\* A file is taken in while the registry is open and has room ...
Arrives(f) == Serving(f) /\ work[f] = "preparing" /\ registry[f] = "none"
Admits == closing = "no" /\ Cardinality(Held) < Capacity
BeginStore(f) ==
  /\ Arrives(f) /\ Admits /\ Ends(f, "storing", "pending")
  /\ UNCHANGED <<threadVars, controlVars, work, streamVars, disk, attempted, owned, closing, stuck>>

\* ... and refused otherwise, or when its conversation is not one to send to.
NotStored(f) ==
  /\ Arrives(f) /\ Ends(f, "none", "failed")
  /\ UNCHANGED <<threadVars, controlVars, work, streamVars, disk, attempted, owned, closing, stuck>>

\* The byte stream: one packet for each demand, "end" after the last; it breaks
\* when either end is closed, times out or reports an error.
Source(f) == Unsettled(f) /\ ~draining
Pull(f) ==
  /\ thread = "serving" /\ registry[f] = "storing" /\ flow[f] = "idle"
  /\ flow' = [flow EXCEPT ![f] = "pull"]
  /\ UNCHANGED <<threadVars, controlVars, call, work, got, storeVars>>
Supply(f) ==
  /\ flow[f] = "pull" /\ Source(f)
  /\ flow' = [flow EXCEPT ![f] = IF got[f] < Packets THEN "data" ELSE "end"]
  /\ UNCHANGED <<threadVars, controlVars, call, work, got, storeVars>>
Receive(f) ==
  /\ thread = "serving" /\ registry[f] = "storing" /\ flow[f] = "data"
  /\ flow' = [flow EXCEPT ![f] = "idle"] /\ got' = [got EXCEPT ![f] = @ + 1]
  /\ UNCHANGED <<threadVars, controlVars, call, work, storeVars>>
Break(f) ==
  /\ thread = "serving" /\ registry[f] = "storing" /\ flow[f] # "broken"
  /\ flow' = [flow EXCEPT ![f] = "broken"]
  /\ UNCHANGED <<threadVars, controlVars, call, work, got, storeVars>>

\* A stored file gets a token, unless the registry was closed meanwhile.
MayRegister(f) == closing = "no"
Stored(f) ==
  /\ thread = "serving" /\ registry[f] = "storing" /\ flow[f] = "end"
  /\ disk' = disk \cup {f}
  /\ IF MayRegister(f) THEN Ends(f, "prepared", IF call[f] = "pending" THEN "ok" ELSE call[f])
     ELSE registry' = [registry EXCEPT ![f] = "undoing"] /\ UNCHANGED call
  /\ UNCHANGED <<threadVars, controlVars, work, streamVars, attempted, owned, closing, stuck>>
StoreFails(f) ==
  /\ thread = "serving" /\ registry[f] = "storing" /\ flow[f] = "broken"
  /\ Ends(f, "none", "failed")
  /\ UNCHANGED <<threadVars, controlVars, work, streamVars, disk, attempted, owned, closing, stuck>>

\* What the storage makes of a removal.
Removes(f) == disk' = disk \ {f} /\ UNCHANGED stuck
RemovalFails(f) == stuck' = stuck \cup {f} /\ UNCHANGED disk
Undo(f) ==
  /\ thread = "serving" /\ registry[f] = "undoing"
  /\ Removes(f) \/ RemovalFails(f)
  /\ Ends(f, "none", "failed")
  /\ UNCHANGED <<threadVars, controlVars, work, streamVars, attempted, owned, closing>>

\* A send claims the file for good; the message owns it then, or the outcome is
\* uncertain and the file stays.
Claimable(f) == closing = "no" /\ registry[f] = "prepared"
ClaimFile(f) ==
  /\ Serving(f) /\ work[f] = "sending" /\ registry[f] # "claimed"
  /\ IF Claimable(f)
     THEN Ends(f, "claimed", "pending") /\ attempted' = attempted \cup {f}
     ELSE Ends(f, registry[f], "failed") /\ UNCHANGED attempted
  /\ UNCHANGED <<threadVars, controlVars, work, streamVars, disk, owned, closing, stuck>>
Transfer(f) ==
  /\ thread = "serving" /\ work[f] = "sending" /\ registry[f] = "claimed"
  /\ owned' = owned \cup {f} /\ Ends(f, "none", IF call[f] = "pending" THEN "ok" ELSE call[f])
  /\ UNCHANGED <<threadVars, controlVars, work, streamVars, disk, attempted, closing, stuck>>
SendFails(f) ==
  /\ Serving(f) /\ work[f] = "sending" /\ registry[f] = "claimed"
  /\ Answered(f, "failed")
  /\ UNCHANGED <<threadVars, controlVars, fileVars>>

BeginDiscard(f) ==
  /\ Serving(f) /\ work[f] = "discarding" /\ registry[f] # "discarding"
  /\ CASE closing # "no" -> Ends(f, registry[f], "failed")
       [] closing = "no" /\ registry[f] = "none" -> Ends(f, "none", "ok")
       [] closing = "no" /\ registry[f] = "prepared" -> Ends(f, "discarding", "pending")
       [] OTHER -> Ends(f, registry[f], "failed")
  /\ UNCHANGED <<threadVars, controlVars, work, streamVars, disk, attempted, owned, closing, stuck>>
EndDiscard(f) ==
  /\ thread = "serving" /\ registry[f] = "discarding"
  /\ \/ Removes(f) /\ Ends(f, "none", IF call[f] = "pending" THEN "ok" ELSE call[f])
     \/ RemovalFails(f) /\ Ends(f, "prepared", IF call[f] = "pending" THEN "failed" ELSE call[f])
  /\ UNCHANGED <<threadVars, controlVars, work, streamVars, attempted, owned, closing>>

\* The registry is closed: nothing enters or is claimed, work under way is awaited,
\* and whatever no send has claimed is removed.
CloseFiles ==
  /\ Serving("close") /\ closing = "no" /\ closing' = "waiting"
  /\ UNCHANGED <<threadVars, controlVars, call, work, streamVars, registry, disk, attempted, owned,
                 stuck>>
UnderWayDiscards(f) == registry[f] = "discarding"                \* a bug in UnderWay
UnderWay(f) == registry[f] \in {"storing", "undoing", "discarding"}
AwaitFiles ==
  /\ thread = "serving" /\ closing = "waiting" /\ ~\E f \in Files : UnderWay(f)
  /\ closing' = "removing"
  /\ UNCHANGED <<threadVars, controlVars, call, work, streamVars, registry, disk, attempted, owned,
                 stuck>>
RemovableAll(f) == registry[f] \in {"prepared", "claimed"}      \* a bug in Removable
Removable(f) == registry[f] = "prepared"
CleanUp(f) ==
  /\ thread = "serving" /\ closing = "removing" /\ Removable(f) /\ f \notin stuck
  /\ \/ Removes(f) /\ OnlyRegistry(f, "none")
     \/ RemovalFails(f) /\ OnlyRegistry(f, registry[f])
  /\ UNCHANGED <<streamVars, attempted, owned, closing>>
FilesClosed ==
  /\ thread = "serving" /\ closing = "removing"
  /\ \A f \in Files : Removable(f) => f \in stuck
  /\ closing' = "closed"
  /\ call' = IF call["close"] # "pending" THEN call
             ELSE [call EXCEPT !["close"] =
                     IF \E f \in Files : Removable(f) THEN "failed" ELSE "ok"]
  /\ UNCHANGED <<threadVars, controlVars, work, streamVars, registry, disk, attempted, owned,
                 stuck>>

ThreadStep ==
  \/ TakeLock \/ BootFails \/ Serve \/ ThreadDies
  \/ \E c \in Calls : Answer(c)
  \/ \E f \in Files :
       \/ BeginStore(f) \/ NotStored(f)
       \/ Pull(f) \/ Receive(f) \/ Break(f) \/ Stored(f) \/ StoreFails(f)
       \/ Undo(f) \/ ClaimFile(f) \/ Transfer(f) \/ SendFails(f)
       \/ BeginDiscard(f) \/ EndDiscard(f) \/ CleanUp(f)
  \/ CloseFiles \/ AwaitFiles \/ FilesClosed

ControllerStep ==
  \/ \E c \in Calls : Post(c)
  \/ \E f \in Files : Supply(f)
  \/ PreparedFilesClosed \/ Terminated \/ Fatal \/ Initialized
=============================================================================
