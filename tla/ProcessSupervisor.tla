------------------------ MODULE ProcessSupervisor ------------------------
(***************************************************************************)
(* The supervisor of one child process, the proxy of the homeserver: it is *)
(* verified and started, started again after a failure, left alone after a *)
(* clean exit, and stopped with SIGTERM and, when that is ignored, with    *)
(* SIGKILL.                                                                *)
(***************************************************************************)
EXTENDS Naturals

VARIABLES
  supervisor,    \* "none", or the state it reports
  loop,          \* its loop: verifying, with a child, or over
  supervised,    \* the child process
  signal,        \* what the child was sent
  cancelled      \* the supervisor was told to stop

supervisorVars == <<supervisor, loop, supervised, signal, cancelled>>

SupervisorTypeOK ==
  /\ supervisor \in {"none", "idle", "starting", "running", "backoff", "stopped"}
  /\ loop \in {"none", "verify", "child", "backoff", "over"}
  /\ supervised \in {"none", "launched", "alive"}
  /\ signal \in {"none", "SIGTERM", "SIGKILL"} /\ cancelled \in BOOLEAN

SupervisorInit ==
  /\ supervisor = "none" /\ loop = "none" /\ supervised = "none"
  /\ signal = "none" /\ cancelled = FALSE

PrepareProxy == supervisor' = "idle" /\ UNCHANGED <<loop, supervised, signal, cancelled>>

StartProxy ==
  /\ supervisor' = "starting" /\ loop' = "verify"
  /\ UNCHANGED <<supervised, signal, cancelled>>

\* Told to stop: a child is asked to end.
StopProxy ==
  /\ cancelled' = TRUE
  /\ signal' = IF loop = "child" /\ signal = "none" THEN "SIGTERM" ELSE signal
  /\ UNCHANGED <<supervisor, loop, supervised>>
ProxyStopped == loop \in {"none", "over"}

LoopOver == loop' = "over" /\ supervisor' = "stopped"
Again == loop' = "backoff" /\ supervisor' = "backoff"

\* The executable has the expected checksum; a cancelled supervisor starts nothing.
Launch ==
  /\ loop = "verify" /\ ~cancelled
  /\ loop' = "child" /\ supervised' = "launched" /\ signal' = "none"
  /\ UNCHANGED <<supervisor, cancelled>>
VerifyFails ==
  /\ loop = "verify" /\ Again
  /\ ~cancelled /\ UNCHANGED <<supervised, signal, cancelled>>
VerifyCancelled ==
  /\ loop = "verify" /\ cancelled /\ LoopOver
  /\ UNCHANGED <<supervised, signal, cancelled>>

Spawned ==
  /\ supervised = "launched" /\ supervised' = "alive"
  /\ supervisor' = IF cancelled THEN supervisor ELSE "running"
  /\ signal' = IF cancelled /\ signal = "none" THEN "SIGTERM" ELSE signal
  /\ UNCHANGED <<loop, cancelled>>

\* The child is gone, by itself, failing to start, or by a signal.
ChildCloses ==
  /\ loop = "child" /\ supervised' = "none"
  /\ \E clean \in BOOLEAN :
       IF cancelled \/ clean THEN LoopOver ELSE Again
  /\ UNCHANGED <<signal, cancelled>>

Kill ==
  /\ supervised # "none" /\ signal = "SIGTERM" /\ signal' = "SIGKILL"
  /\ UNCHANGED <<supervisor, loop, supervised, cancelled>>
KilledCloses == signal = "SIGKILL" /\ ChildCloses

Retry ==
  /\ loop = "backoff"
  /\ IF cancelled THEN LoopOver ELSE loop' = "verify" /\ supervisor' = "starting"
  /\ UNCHANGED <<supervised, signal, cancelled>>

SupervisorStep ==
  \/ Launch \/ VerifyFails \/ VerifyCancelled \/ Spawned \/ ChildCloses \/ Kill \/ Retry
=============================================================================
