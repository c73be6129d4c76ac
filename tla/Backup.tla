-------------------------------- MODULE Backup --------------------------------
(***************************************************************************)
(* Backups of a bridge on its host, and what is made of one.               *)
(*                                                                         *)
(* deploy/backup.sh runs from a timer or by hand; flock ends a run at once *)
(* while there is another.  It stops the bridge, has a container copy the  *)
(* profile and the bridge's databases under both profile locks into an     *)
(* encrypted archive, prunes old archives and, however it ends, starts a   *)
(* bridge it has stopped.  The bridge takes the same locks when it starts, *)
(* in the other order, one in its service and one in its backend thread.   *)
(* The record of the result, and the notice made from it, are left out.    *)
(*                                                                         *)
(* An operator restores an archive into a workspace and adopts that as an  *)
(* installation.  Each is a directory that is filled, checked, made        *)
(* durable and then published by a link: RESTORE-COMPLETE.json for the     *)
(* one, bridge.yaml for the other.                                         *)
(*                                                                         *)
(* A power loss ends every process and takes back what is not durable, or  *)
(* part of it.  Docker is external: it starts the bridge again whenever it *)
(* exits, and after a power loss unless it had been stopped.               *)
(***************************************************************************)
EXTENDS Naturals, FiniteSets

CONSTANTS
  Script, Bridge, \* the two that take the locks
  None,
  MaxName,   \* the names of archives, which are times: 1..MaxName
  Keep,      \* BACKUP_KEEP
  MaxFaults  \* bound on failed steps, deaths, power losses and starts by hand

ASSUME BackupAssumption ==
  /\ Script # Bridge /\ None \notin {Script, Bridge} \cup 0..3
  /\ MaxName \in Nat /\ Keep \in Nat \ {0, 1} /\ MaxFaults \in Nat

VARIABLES
  bridge,    \* "stopped", "starting", "opened" (its databases) or "running"
  version,   \* of the data: every run of the bridge changes it (modulo 3)
  lock,      \* the holder of each profile lock
  phase, was, \* of the script: its next step; had it found the bridge running?
  failed,    \* is its result a failure?
  copied,    \* what its container has copied of each root, and
  name,      \* under which name it publishes that
  archives,  \* the archives one can see
  sound,     \* of them: those that hold a whole, closed state
  fresh,     \* of them: those a power loss may still take
  abandoned, \* has a power loss or a failed start left a stopped bridge behind?
  op, place, \* the operator's next step, and where
  held,      \* the roots that are in a place, and
  durable,   \* those a power loss leaves there
  shown,     \* its published name: "no", "yes", or "durably"
  spoiled,   \* was it being removed after it had been published?
  faults

bridgeVars == <<bridge, version, lock>>
scriptVars == <<phase, was, failed, copied, name>>
archiveVars == <<archives, sound, fresh>>
placeVars == <<op, place, held, durable, shown, spoiled>>
backupVars == <<bridgeVars, scriptVars, archiveVars, abandoned, placeVars, faults>>

Roots == {"profile", "bridge"}
Places == {"workspace", "installation"}
Names == 1..MaxName
Nothing == [r \in Roots |-> None]

BackupInit ==
  /\ bridge = "starting" /\ version = 0 /\ lock = Nothing
  /\ phase = "idle" /\ was = FALSE /\ failed = FALSE /\ copied = Nothing /\ name = 0
  /\ archives = {} /\ sound = {} /\ fresh = {}
  /\ abandoned = FALSE
  /\ op = "idle" /\ place = "workspace"
  /\ held = [p \in Places |-> {}] /\ durable = held
  /\ shown = [p \in Places |-> "no"] /\ spoiled = [p \in Places |-> FALSE]
  /\ faults = 0

Fault == faults < MaxFaults /\ faults' = faults + 1

(* Plausible bugs; each stands in place of the definition named beside it. *)
AnyHolder(r) == TRUE                                    \* Unlocked
OnSuccess == was /\ ~failed                             \* StartsAgain
AfterwardsOnly(p) == durable[p]                         \* Synchronized

(***************************************************************************)
(* The bridge.  A lock that is busy is not waited for.                     *)
(***************************************************************************)

Unlocked(r) == lock[r] = None
Unheld(who) == [r \in Roots |-> IF lock[r] = who THEN None ELSE lock[r]]

(* openBridgeResources has the databases' lock first, the backend thread then the profile's. *)
BridgeOpens ==
  /\ \/ /\ bridge = "starting" /\ Unlocked("bridge")
        /\ lock' = [lock EXCEPT !["bridge"] = Bridge] /\ bridge' = "opened"
     \/ /\ bridge = "opened" /\ Unlocked("profile")
        /\ lock' = [lock EXCEPT !["profile"] = Bridge] /\ bridge' = "running"
  /\ version' = (version + 1) % 3
  /\ UNCHANGED <<scriptVars, archiveVars, abandoned, placeVars, faults>>

(* profile-in-use: the service closes what it has opened, exits and is started again. *)
BridgeGivesUp ==
  /\ bridge = "opened" /\ ~Unlocked("profile")
  /\ bridge' = "starting" /\ lock' = Unheld(Bridge)
  /\ UNCHANGED <<version, scriptVars, archiveVars, abandoned, placeVars, faults>>

BridgeDies ==
  /\ Fault /\ bridge \in {"opened", "running"}
  /\ bridge' = "starting" /\ lock' = Unheld(Bridge)
  /\ UNCHANGED <<version, scriptVars, archiveVars, abandoned, placeVars>>

(* Somebody starts the container while it is stopped, in the middle of a backup too. *)
StartByHand ==
  /\ Fault /\ bridge = "stopped"
  /\ bridge' = "starting" /\ abandoned' = FALSE
  /\ UNCHANGED <<version, lock, scriptVars, archiveVars, placeVars>>

(***************************************************************************)
(* backup.sh.  A step that fails ends the script by its trap, which starts *)
(* the bridge and records the result.                                      *)
(***************************************************************************)

Goto(step) == phase' = step
ScriptAt(step) == phase = step

Begin ==
  /\ ScriptAt("idle") /\ Goto("look") /\ failed' = FALSE
  /\ UNCHANGED <<bridgeVars, was, copied, name, archiveVars, abandoned, placeVars, faults>>

(* A container that exits and is started again is, in between, not one that runs. *)
Look ==
  /\ ScriptAt("look") /\ Goto("stop")
  /\ \E found \in BOOLEAN :
       /\ bridge = "stopped" => ~found
       /\ bridge \in {"opened", "running"} => found
       /\ was' = found
  /\ UNCHANGED <<bridgeVars, failed, copied, name, archiveVars, abandoned, placeVars, faults>>

StopBridge ==
  /\ ScriptAt("stop") /\ Goto("profile")
  /\ bridge' = "stopped" /\ lock' = Unheld(Bridge)
  /\ abandoned' = (abandoned \/ (bridge # "stopped" /\ ~was))
  /\ UNCHANGED <<version, was, failed, copied, name, archiveVars, placeVars, faults>>

(* captureSnapshot: the profile's lock, then the databases', then both are copied. *)
LockRoot(r) ==
  /\ ScriptAt(r) /\ Unlocked(r)
  /\ lock' = [lock EXCEPT ![r] = Script]
  /\ Goto(IF r = "profile" THEN "bridge" ELSE "copy")
  /\ UNCHANGED <<bridge, version, was, failed, copied, name, archiveVars, abandoned, placeVars, faults>>

(* What is copied from under a bridge that has it open is of no version. *)
OpenBy(r) == IF r = "bridge" THEN bridge \in {"opened", "running"} ELSE bridge = "running"
CopyRoot(r) ==
  /\ ScriptAt("copy") /\ copied[r] = None
  /\ copied' = [copied EXCEPT ![r] = IF OpenBy(r) THEN 3 ELSE version]
  /\ UNCHANGED <<bridgeVars, phase, was, failed, name, archiveVars, abandoned, placeVars, faults>>

Close ==
  /\ ScriptAt("copy") /\ \A r \in Roots : copied[r] # None
  /\ lock' = Unheld(Script) /\ Goto("publish")
  /\ UNCHANGED <<bridge, version, was, failed, copied, name, archiveVars, abandoned, placeVars, faults>>

(* The archive is written and synchronized under another name, and linked.  Its own name is *)
(* the time, and the host's clock may have been set back.                                   *)
Closed(c) == c["profile"] = c["bridge"] /\ c["profile"] \in 0..2
Publish(n) ==
  /\ ScriptAt("publish") /\ n \notin archives
  /\ archives' = archives \cup {n} /\ fresh' = fresh \cup {n}
  /\ sound' = IF Closed(copied) THEN sound \cup {n} ELSE sound
  /\ name' = n /\ copied' = Nothing
  /\ Goto("synchronize")
  /\ UNCHANGED <<bridgeVars, was, failed, abandoned, placeVars, faults>>

Synchronize ==
  /\ ScriptAt("synchronize") /\ Goto("retain")
  /\ fresh' = fresh \ {name}
  /\ UNCHANGED <<bridgeVars, was, failed, copied, name, archives, sound, abandoned, placeVars, faults>>

(* retainBackups: nothing is pruned unless the new archive has the youngest name of all. *)
Newest(n) == \A m \in archives : m <= n
Surplus == {m \in archives : Cardinality({k \in archives : k > m}) >= Keep}
Prune ==
  /\ ScriptAt("retain") /\ Newest(name)
  /\ IF Surplus = {}
     THEN Goto("start") /\ UNCHANGED <<archives, sound, fresh>>
     ELSE /\ \E m \in Surplus :
               /\ \A k \in Surplus : k <= m
               /\ archives' = archives \ {m} /\ sound' = sound \ {m} /\ fresh' = fresh \ {m}
          /\ UNCHANGED phase
  /\ UNCHANGED <<bridgeVars, was, failed, copied, name, abandoned, placeVars, faults>>

(* What cannot go on: a busy lock, a name that is taken, an archive that is not the newest. *)
Blocked ==
  \/ \E r \in Roots : ScriptAt(r) /\ ~Unlocked(r)
  \/ ScriptAt("publish") /\ archives = Names
  \/ ScriptAt("retain") /\ ~Newest(name)
ScriptEnds ==
  /\ failed' = TRUE /\ Goto("start")
  /\ lock' = Unheld(Script) /\ copied' = Nothing
  /\ UNCHANGED <<bridge, version, was, name, archiveVars, abandoned, placeVars>>
Stuck == Blocked /\ ScriptEnds /\ UNCHANGED faults
ScriptFails == Fault /\ phase \notin {"idle", "start"} /\ ScriptEnds

(* finish_backup; to start a container that runs does nothing. *)
StartsAgain == was
Start ==
  /\ ScriptAt("start") /\ Goto("idle")
  /\ IF StartsAgain
     THEN \/ /\ bridge' = IF bridge = "stopped" THEN "starting" ELSE bridge
             /\ UNCHANGED <<abandoned, faults>>
          \/ /\ Fault /\ abandoned' = (abandoned \/ bridge = "stopped")
             /\ UNCHANGED bridge
     ELSE UNCHANGED <<bridge, abandoned, faults>>
  /\ was' = FALSE /\ failed' = FALSE /\ name' = 0
  /\ UNCHANGED <<version, lock, copied, archiveVars, placeVars>>

(***************************************************************************)
(* Restoring and adopting.                                                 *)
(***************************************************************************)

(* What a place is filled from: an archive, which is authenticated, or the workspace. *)
Wanted(p) == IF p = "workspace" THEN Roots ELSE held["workspace"]
Verified(p) == shown[p] # "no" /\ held[p] = Roots
Reserve(p) ==
  /\ op = "idle" /\ shown[p] = "no" /\ held[p] = {} /\ durable[p] = {}
  /\ IF p = "workspace" THEN sound # {} ELSE Verified("workspace")
  /\ op' = "fill" /\ place' = p
  /\ UNCHANGED <<bridgeVars, scriptVars, archiveVars, abandoned, held, durable, shown, spoiled, faults>>

Fill ==
  /\ op = "fill"
  /\ \E r \in Wanted(place) \ held[place] : held' = [held EXCEPT ![place] = @ \cup {r}]
  /\ UNCHANGED <<bridgeVars, scriptVars, archiveVars, abandoned, op, place, durable, shown, spoiled, faults>>

(* Every file is compared with the manifest, in the copy too. *)
Check ==
  /\ op = "fill" /\ Wanted(place) \subseteq held[place]
  /\ op' = IF held[place] = Roots THEN "synchronize" ELSE "remove"
  /\ UNCHANGED <<bridgeVars, scriptVars, archiveVars, abandoned, place, held, durable, shown, spoiled, faults>>

Synchronized(p) == held[p]
SynchronizeTree ==
  /\ op = "synchronize" /\ op' = "link"
  /\ durable' = [durable EXCEPT ![place] = Synchronized(place)]
  /\ UNCHANGED <<bridgeVars, scriptVars, archiveVars, abandoned, place, held, shown, spoiled, faults>>

Link ==
  /\ op = "link" /\ op' = "return"
  /\ shown' = [shown EXCEPT ![place] = "yes"]
  /\ UNCHANGED <<bridgeVars, scriptVars, archiveVars, abandoned, place, held, durable, spoiled, faults>>

Return ==
  /\ op = "return" /\ op' = "idle"
  /\ shown' = [shown EXCEPT ![place] = "durably"]
  /\ UNCHANGED <<bridgeVars, scriptVars, archiveVars, abandoned, place, held, durable, spoiled, faults>>

(* A step that fails, the last ones too, has what was made removed again, piece by piece. *)
OperationFails ==
  /\ Fault /\ op \notin {"idle", "remove"} /\ op' = "remove"
  /\ spoiled' = [spoiled EXCEPT ![place] = shown[place] # "no"]
  /\ UNCHANGED <<bridgeVars, scriptVars, archiveVars, abandoned, place, held, durable, shown>>

Emptied(p) ==
  /\ held' = [held EXCEPT ![p] = {}] /\ durable' = [durable EXCEPT ![p] = {}]
  /\ shown' = [shown EXCEPT ![p] = "no"] /\ spoiled' = [spoiled EXCEPT ![p] = FALSE]
Remove ==
  /\ op = "remove"
  /\ \/ /\ \E r \in held[place] :
             /\ held' = [held EXCEPT ![place] = @ \ {r}]
             /\ durable' = [durable EXCEPT ![place] = @ \ {r}]
        /\ UNCHANGED <<op, shown, spoiled>>
     \/ Emptied(place) /\ op' = "idle"
  /\ UNCHANGED <<bridgeVars, scriptVars, archiveVars, abandoned, place, faults>>

(* The operator clears a place away, as they must after an interrupted attempt. *)
Discard(p) ==
  /\ op = "idle" /\ (held[p] # {} \/ shown[p] # "no") /\ Emptied(p)
  /\ UNCHANGED <<bridgeVars, scriptVars, archiveVars, abandoned, op, place, faults>>

(***************************************************************************)
(* The host loses its power.                                               *)
(***************************************************************************)

PowerLoss ==
  /\ Fault
  /\ bridge' = IF bridge = "stopped" THEN "stopped" ELSE "starting"
  /\ abandoned' = (abandoned \/ (bridge = "stopped" /\ was))
  /\ lock' = Nothing
  /\ phase' = "idle" /\ was' = FALSE /\ failed' = FALSE /\ copied' = Nothing /\ name' = 0
  /\ \E lost \in SUBSET fresh : archives' = archives \ lost /\ sound' = sound \ lost
  /\ fresh' = {} /\ op' = "idle"
  /\ \E h \in [Places -> SUBSET Roots] :
       /\ \A p \in Places : durable[p] \subseteq h[p] /\ h[p] \subseteq held[p]
       /\ held' = h /\ durable' = h
  /\ shown' \in {sh \in [Places -> {"no", "durably"}] :
                   \A p \in Places : shown[p] # "yes" => sh[p] = shown[p]}
  /\ UNCHANGED <<version, place, spoiled>>

BridgeStep == \/ BridgeOpens \/ BridgeGivesUp
ScriptStep == \/ Look \/ StopBridge \/ (\E r \in Roots : LockRoot(r) \/ CopyRoot(r))
                 \/ Close \/ (\E n \in Names : Publish(n)) \/ Synchronize \/ Prune
                 \/ Stuck \/ Start
OperatorStep == \/ (\E p \in Places : Reserve(p) \/ Discard(p))
                \/ Fill \/ Check \/ SynchronizeTree \/ Link \/ Return \/ Remove

BackupNext ==
  \/ BridgeStep \/ BridgeDies \/ StartByHand
  \/ Begin \/ ScriptStep \/ ScriptFails
  \/ OperatorStep \/ OperationFails
  \/ PowerLoss

BackupSpec == BackupInit /\ [][BackupNext]_backupVars

(* A script that has begun goes on, and Docker starts the bridge. *)
FairBackupSpec == BackupSpec /\ WF_backupVars(BridgeStep) /\ WF_backupVars(ScriptStep)

(***************************************************************************)
(* Properties.                                                             *)
(***************************************************************************)

(* An archive holds what one run of the bridge left when it had closed, whoever starts the *)
(* bridge while it is made.                                                                *)
ArchivesSound == archives = sound

(* What one can start is whole and stays so, unless its removal has begun. *)
PublishedWhole ==
  \A p \in Places : shown[p] # "no" /\ ~spoiled[p] => held[p] = Roots /\ durable[p] = Roots

(* The bridge comes back from a backup, however that ends, unless the next follows too soon. *)
BridgeReturns == []<>(phase # "idle") \/ []<>(bridge = "running" \/ abandoned)
=============================================================================
