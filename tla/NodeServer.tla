----------------------------- MODULE NodeServer -----------------------------
(***************************************************************************)
(* The node plugin (pkg/driver): NodeServer's CSI handlers and the health  *)
(* monitor working on one volume.  All state of the NodeServer is keyed by *)
(* volume ID, so one volume shows every interleaving.  The mount service   *)
(* is called as a whole (its inside is module MountManager); the kernel's  *)
(* mounts are the staging mount and the publish binds, each naming the     *)
(* FUSE session (the weed process) behind it.                              *)
(***************************************************************************)
EXTENDS Integers

CONSTANTS
    Rpcs,         \* CSI calls in flight at once
    Monitors,     \* the volume's health-check goroutine: at most one
    Paths,        \* publish target paths
    Calls,        \* CSI calls the orchestrator makes in this instance
    Mutexes, Vols, Gens,  \* mutex objects, *Volume objects, FUSE sessions (bounds)
    None,         \* nil, nothing mounted, not in the map
    Bare,         \* a bind of the bare staging directory, no FUSE behind it
    UnstageOverlaps,  \* a volume may be unstaged while its health is being checked
    HasContext,   \* the requests carry a volume context
    DeviceLookupFails,    \* restoreVolume may fail to read the device
    MaxFaults, MaxRestarts   \* bounds on failures and on plugin restarts

Tasks == Rpcs \cup Monitors

ASSUME CallsAssumption == Calls \subseteq {"stage", "publish", "unpublish", "unstage"}
ASSUME NamesAssumption ==
    /\ None \notin Tasks \cup Paths \cup Mutexes \cup Vols \cup Gens
    /\ Bare \notin Gens \cup {None}
ASSUME VolsAssumption == Vols # {}
ASSUME ContextAssumption == HasContext \in BOOLEAN /\ UnstageOverlaps \in BOOLEAN
ASSUME MonitorsAssumption ==   \* activeRecoveries
    Rpcs \cap Monitors = {} /\ \A m, n \in Monitors : m = n
ASSUME BoundsAssumption == MaxFaults \in Nat /\ MaxRestarts \in Nat

VARIABLES
    mutexMap,   \* KeyMutex.mutexes: the mutex object stored for the volume
    holder,     \* which task holds each mutex object
    task,       \* the goroutines: program counter and locals
    volumes,    \* NodeServer.volumes: the *Volume stored for the volume
    volObj,     \* the *Volume objects
    throttled,  \* inside the recovery backoff window
    mgr,        \* the mount service's entry
    fuse,       \* the FUSE sessions
    staging,    \* what is mounted at the staging path
    bind,       \* what is bound at each publish path
    staged,     \* the orchestrator's view: NodeStage has succeeded
    wanted,     \* its view of each publish path: "no", "maybe" or "yes"
    deleted,    \* what a RemoveAll has run through: a FUSE mount that serves I/O,
                \* made by a request its caller had given up on, or any other
    faults, restarts,
    late,       \* requests the mount service is still to serve after the client gave up
    stray       \* the session that such a request mounted last

lockVars == <<mutexMap, holder>>
nodeVars == <<mutexMap, holder, volumes, volObj, throttled>>
hostVars == <<mgr, fuse, staging, bind>>
ghostVars == <<staged, wanted, deleted>>
lateVars == <<late, stray>>
vars == <<mutexMap, holder, task, volumes, volObj, throttled, mgr, fuse, staging,
          bind, staged, wanted, deleted, faults, restarts, late, stray>>

NoVolume == [paths |-> {}, unmounter |-> FALSE, context |-> FALSE]
Idle == [pc |-> "idle", op |-> "none", path |-> None, mutex |-> None,
         vol |-> None, new |-> None, pubs |-> {}, left |-> {}, torn |-> {}]

Init ==
    /\ mutexMap = None /\ holder = [m \in Mutexes |-> None]
    /\ task = [t \in Tasks |-> Idle]
    /\ volumes = None /\ volObj = [o \in Vols |-> NoVolume]
    /\ throttled = FALSE
    /\ mgr = None /\ fuse = [g \in Gens |-> "dead"]
    /\ staging = None /\ bind = [p \in Paths |-> None]
    /\ staged = FALSE /\ wanted = [p \in Paths |-> "no"]
    /\ deleted = {}
    /\ faults = 0 /\ restarts = 0
    /\ late = {} /\ stray = None

-----------------------------------------------------------------------------
(* A "live" session answers everything; a "slow" one answers GETATTR but   *)
(* not statfs in time; a "hung" one answers nothing in time: a stat of it  *)
(* may come from the cache, or block (Blocked, below); of a "cached" one   *)
(* the process is gone but the kernel still answers stat from the          *)
(* attribute cache; a "dead" one is corrupted to everybody.  A bare bind   *)
(* answers like any directory.                                             *)
Is(g, states) == g \in Gens /\ fuse[g] \in states
Serves(g) == Is(g, {"live", "slow", "hung"})
Stats(g) == Is(g, {"live", "slow", "hung", "cached"})
Healthy == Is(staging, {"live"})
Live == Is(staging, {"live", "slow", "cached"})
PathHealthy(p) == bind[p] = Bare \/ Is(bind[p], {"live"})

(* Outcomes that go wrong, and restarts, use up the budget of faults.      *)
Fault == faults < MaxFaults /\ faults' = faults + 1
NoFault == UNCHANGED faults

At(t, l) == task[t].pc = l
Goto(t, l) == task' = [task EXCEPT ![t].pc = l]
VolOf(t) == volObj[task[t].vol]

(* New objects are any that nothing refers to, as long as there are some   *)
(* (bounds).                                                               *)
Pick(S) == CHOOSE x \in S : TRUE
InUse(o, t) == \E u \in Tasks \ {t} : o \in {task[u].vol, task[u].new}
FreshVols == {o \in Vols : o # volumes /\ ~InUse(o, None)}
FreshGens == {g \in Gens : ~Serves(g) /\ g \notin {mgr, staging} \cup {bind[p] : p \in Paths}}
FreshMutexes == {m \in Mutexes : m # mutexMap /\ holder[m] = None /\ \A u \in Tasks : task[u].mutex # m}

(* The handler returns: it unlocks and drops its locals.  An object that   *)
(* neither the map nor another goroutine refers to is forgotten.           *)
Finish(t, current, objs) ==
    /\ holder' = [holder EXCEPT ![task[t].mutex] = None]
    /\ task' = [task EXCEPT ![t] = Idle]
    /\ volObj' = [o \in Vols |-> IF o = current \/ InUse(o, t) THEN objs[o] ELSE NoVolume]

Return(t) == Finish(t, volumes, volObj) /\ UNCHANGED <<mutexMap, volumes, throttled>>

(* Mutant of Fail: a failed recovery removes the mutex as well.            *)
FailRemovesMutex(t) ==
    /\ Finish(t, volumes, volObj)
    /\ mutexMap' = None
    /\ UNCHANGED <<volumes, throttled>>

(* A failed stage: NodeStage and NodePublish remove the mutex from the map *)
(* while they hold it, recovery does not.                                  *)
Fail(t) ==
    /\ Finish(t, volumes, volObj)
    /\ mutexMap' = IF task[t].op = "recover" THEN mutexMap ELSE None
    /\ UNCHANGED <<volumes, throttled>>

(* Calls to the mount service.  Mount answers at once for an entry whose   *)
(* process has not exited, whatever is at the path; a process that is dead *)
(* may not have been seen to exit yet.                                     *)
MountAtManager ==
    \/ mgr # None /\ UNCHANGED <<mgr, fuse, staging>>
    \/ /\ ~Serves(mgr) /\ FreshGens # {}
       /\ LET g == Pick(FreshGens) IN mgr' = g /\ staging' = g /\ fuse' = [fuse EXCEPT ![g] = "live"]

UnmountAtManager ==
    IF mgr = None
    THEN UNCHANGED <<mgr, fuse, staging>> /\ NoFault
    ELSE /\ mgr' = None
         /\ fuse' = [fuse EXCEPT ![mgr] = "dead"]
         /\ \/ staging' = (IF staging = mgr THEN None ELSE staging) /\ NoFault
            \/ staging = mgr /\ UNCHANGED staging /\ Fault

(* The client gives up on a call after its timeout; the service does not   *)
(* learn of it and may serve the request later.                            *)
GivesUp(request) == late' = late \cup {request}

(* stop() times out: the entry stays, the process may still be gone.  Or   *)
(* the client's timeout comes first.                                       *)
UnmountAtManagerFails ==
    /\ mgr # None /\ Fault
    /\ \/ fuse' \in {fuse, [fuse EXCEPT ![mgr] = "dead"]} /\ UNCHANGED late
       \/ GivesUp("unmount") /\ UNCHANGED fuse
    /\ UNCHANGED <<mgr, staging, stray>>

-----------------------------------------------------------------------------
(* The orchestrator's calls.  It publishes what it has staged and unstages *)
(* what it has unpublished; it may repeat a call whose deadline passed     *)
(* while the handler is still running.                                     *)
Call(t, o, p) ==
    /\ At(t, "idle") /\ o \in Calls
    /\ task' = [task EXCEPT ![t] = [Idle EXCEPT !.pc = "getMutex", !.op = o, !.path = p]]
    /\ UNCHANGED <<nodeVars, hostVars, deleted, faults, restarts, lateVars>>

CallStage(t) == Call(t, "stage", None) /\ UNCHANGED <<staged, wanted>>

CallPublish(t, p) ==
    /\ staged /\ Call(t, "publish", p)
    /\ wanted' = [wanted EXCEPT ![p] = IF @ = "yes" THEN @ ELSE "maybe"]
    /\ UNCHANGED staged

CallUnpublish(t, p) ==
    /\ wanted[p] # "no" /\ Call(t, "unpublish", p)
    /\ wanted' = [wanted EXCEPT ![p] = "maybe"]
    /\ UNCHANGED staged

CallUnstage(t) ==
    /\ \A p \in Paths : wanted[p] = "no"
    /\ UnstageOverlaps \/ \A m \in Monitors : At(m, "idle")
    /\ Call(t, "unstage", None)
    /\ staged' = FALSE /\ UNCHANGED wanted

(* KeyMutex.GetMutex, ...                                                  *)
GetMutex(t) ==
    /\ At(t, "getMutex")
    /\ mutexMap # None \/ FreshMutexes # {}
    /\ mutexMap' = IF mutexMap = None THEN Pick(FreshMutexes) ELSE mutexMap
    /\ task' = [task EXCEPT ![t].mutex = mutexMap', ![t].pc = "lock"]
    /\ UNCHANGED <<holder, volumes, volObj, throttled, hostVars, ghostVars, faults, restarts, lateVars>>

(* ... then Lock on the object it returned.                                *)
Lock(t) ==
    /\ At(t, "lock") /\ holder[task[t].mutex] = None
    /\ holder' = [holder EXCEPT ![task[t].mutex] = t]
    /\ Goto(t, "load")
    /\ UNCHANGED <<mutexMap, volumes, volObj, throttled, hostVars, ghostVars, faults, restarts, lateVars>>

(* volumes.Load(volumeID): what each handler does with a known and with an *)
(* unknown volume.  NodeStage of a known volume succeeds at once; the      *)
(* monitor leaves an unknown one alone.                                    *)
Known == [publish |-> "bind", unpublish |-> "unbind", unstage |-> "unstage",
          recover |-> "recheck", retry |-> "retryCheck"]
Unknown == [stage |-> "probe", publish |-> "probe", unpublish |-> "unbindUnknown",
            unstage |-> "unstageUnknown"]
AfterLoad == IF volumes # None THEN Known ELSE Unknown

Load(t) ==
    /\ At(t, "load") /\ task[t].op \in DOMAIN AfterLoad
    /\ task' = [task EXCEPT ![t].vol = volumes, ![t].pc = AfterLoad[task[t].op]]
    /\ UNCHANGED <<nodeVars, hostVars, ghostVars, faults, restarts, lateVars>>

LoadAndReturn(t) ==
    /\ At(t, "load") /\ task[t].op \notin DOMAIN AfterLoad
    /\ staged' = (staged \/ task[t].op = "stage")
    /\ Return(t)
    /\ UNCHANGED <<hostVars, wanted, deleted, faults, restarts, lateVars>>

-----------------------------------------------------------------------------
(* NodeStage and NodePublish of an unknown volume probe the staging path.  *)
Probe(t) ==
    /\ At(t, "probe")
    /\ Goto(t, IF Healthy THEN "rebuild" ELSE "unmountStale")
    /\ UNCHANGED <<nodeVars, hostVars, ghostVars, faults, restarts, lateVars>>

(* A volume object takes its place in the map: NodeStage returns,          *)
(* NodePublish goes on to bind.                                            *)
StoreVolume(t, o, obj) ==
    /\ volumes' = o
    /\ IF task[t].op = "stage"
       THEN Finish(t, o, [volObj EXCEPT ![o] = obj]) /\ staged' = TRUE
       ELSE /\ task' = [task EXCEPT ![t].vol = o, ![t].pc = "bind"]
            /\ volObj' = [volObj EXCEPT ![o] = obj]
            /\ UNCHANGED <<holder, staged>>
    /\ UNCHANGED <<mutexMap, throttled, wanted, deleted>>

(* rebuildVolumeFromStaging: no unmounter, no publish paths.               *)
Rebuild(t) ==
    /\ At(t, "rebuild") /\ FreshVols # {}
    /\ StoreVolume(t, Pick(FreshVols), [NoVolume EXCEPT !.context = HasContext])
    /\ UNCHANGED <<hostVars, faults, restarts, lateVars>>

(* cleanupStaleStagingPath: unmount, which may fail (a busy mount), then   *)
(* look whether the path is still mounted, then remove the directory.      *)
UnmountStale(t) ==
    /\ At(t, "unmountStale")
    /\ Goto(t, "checkStale")
    /\ \/ staging' = None /\ NoFault
       \/ staging # None /\ UNCHANGED staging /\ Fault
    /\ UNCHANGED <<nodeVars, mgr, fuse, bind, ghostVars, restarts, lateVars>>

(* Mutant of CheckStale: the directory is removed without looking again.   *)
RemoveUnchecked(t) ==
    /\ At(t, "checkStale")
    /\ Goto(t, "removeAll")
    /\ UNCHANGED <<nodeVars, hostVars, ghostVars, faults, restarts, lateVars>>

(* A corrupted mount is left to cleanupCorruptedStagingPath: it cleans up, *)
(* or, if that fails, detaches the mount and then removes the directory.   *)
CheckStale(t) ==
    /\ At(t, "checkStale")
    /\ \/ staging = None /\ Goto(t, "removeAll")
       \/ staging # None /\ ~Stats(staging) /\ (Goto(t, "stage") \/ Goto(t, "removeAll"))
    /\ staging' = None
    /\ UNCHANGED <<nodeVars, mgr, fuse, bind, ghostVars, faults, restarts, lateVars>>

RefuseStale(t) ==
    /\ At(t, "checkStale") /\ staging # None
    /\ (Stats(staging) /\ NoFault) \/ (~Stats(staging) /\ Fault)
    /\ Fail(t)
    /\ UNCHANGED <<hostVars, ghostVars, restarts, lateVars>>

RemoveAll(t) ==
    /\ At(t, "removeAll")
    /\ deleted' = deleted \cup (IF ~Serves(staging) THEN {}
                                ELSE IF staging = stray THEN {"late"} ELSE {"other"})
    /\ Goto(t, "stage")
    /\ UNCHANGED <<nodeVars, hostVars, staged, wanted, faults, restarts, lateVars>>

(* stageNewVolume up to Volume.Stage's own unmount, whose error is         *)
(* ignored; reading the attributes, validating them or checking the mount  *)
(* may fail.                                                               *)
StageUnmount(t) ==
    /\ At(t, "stage")
    /\ Goto(t, "mount")
    /\ \/ staging' = None /\ NoFault
       \/ staging # None /\ UNCHANGED staging /\ Fault
    /\ UNCHANGED <<nodeVars, mgr, fuse, bind, ghostVars, restarts, lateVars>>

StageFails(t) ==
    /\ At(t, "stage") /\ Fault
    /\ Fail(t)
    /\ UNCHANGED <<hostVars, ghostVars, restarts, lateVars>>

(* mounter.Mount; a call that fails may have taken effect, and one that    *)
(* timed out may take effect later.                                        *)
Mount(t) ==
    /\ At(t, "mount")
    /\ MountAtManager
    /\ stray' = None
    /\ Goto(t, "quota")
    /\ UNCHANGED <<nodeVars, bind, ghostVars, faults, restarts, late>>

MountFails(t) ==
    /\ At(t, "mount") /\ Fault
    /\ \/ MountAtManager /\ stray' = None /\ UNCHANGED late
       \/ (GivesUp("mount") \/ UNCHANGED late) /\ UNCHANGED <<mgr, fuse, staging, stray>>
    /\ Fail(t)
    /\ UNCHANGED <<bind, ghostVars, restarts>>

(* The quota is set and the new *Volume handed to the caller.              *)
Staged(t) ==
    /\ At(t, "quota") /\ FreshVols # {}
    /\ LET obj == [NoVolume EXCEPT !.unmounter = TRUE, !.context = TRUE]
           o == Pick(FreshVols) IN
       IF task[t].op = "recover"
       THEN /\ volObj' = [volObj EXCEPT ![o] = obj]
            /\ task' = [task EXCEPT ![t].new = o, ![t].pc = "tear", ![t].left = task[t].pubs]
            /\ UNCHANGED <<lockVars, volumes, throttled, ghostVars>>
       ELSE StoreVolume(t, o, obj)
    /\ UNCHANGED <<hostVars, faults, restarts, lateVars>>

(* Volume.Quota fails: Volume.Unstage undoes the mount, errors are logged. *)
QuotaFails(t) ==
    /\ At(t, "quota") /\ Fault
    /\ \/ /\ mgr # None
          /\ mgr' = None
          /\ fuse' = [fuse EXCEPT ![mgr] = "dead"]
          /\ staging' = IF staging = mgr THEN None ELSE staging
       \/ UNCHANGED <<mgr, fuse, staging>>
    /\ Fail(t)
    /\ UNCHANGED <<bind, ghostVars, restarts, lateVars>>

-----------------------------------------------------------------------------
(* What a bind mount of the staging path puts at a path: None if it fails. *)
(* An unmounted staging path is a bare directory, or is gone.              *)
BindResults ==
    IF staging = None THEN {Bare, None} ELSE IF Stats(staging) THEN {staging} ELSE {None}

(* Volume.Publish: any mount that can be read counts as published; a       *)
(* corrupted one is unmounted first.                                       *)
PublishTo(p) ==
    IF bind[p] = Bare \/ Stats(bind[p])
    THEN UNCHANGED bind
    ELSE \E b \in BindResults : bind' = [bind EXCEPT ![p] = b]

Publish(t) ==
    /\ At(t, "bind")
    /\ PublishTo(task[t].path)
    /\ IF bind'[task[t].path] # None
       THEN Goto(t, "track") /\ UNCHANGED nodeVars
       ELSE Return(t)
    /\ UNCHANGED <<mgr, fuse, staging, ghostVars, faults, restarts, lateVars>>

PublishFails(t) ==
    /\ At(t, "bind") /\ Fault
    /\ Return(t)
    /\ UNCHANGED <<hostVars, ghostVars, restarts, lateVars>>

(* Mutant of Track: the staging path is recorded, not the target path.     *)
TrackStaging(t) ==
    /\ At(t, "track")
    /\ Finish(t, volumes, [volObj EXCEPT ![task[t].vol].paths = @ \cup {None}])
    /\ wanted' = [wanted EXCEPT ![task[t].path] = "yes"]
    /\ UNCHANGED <<mutexMap, volumes, throttled, hostVars, staged, deleted, faults, restarts, lateVars>>

(* AddPublishPath on the object loaded before, and success.                *)
Track(t) ==
    /\ At(t, "track")
    /\ Finish(t, volumes, [volObj EXCEPT ![task[t].vol].paths = @ \cup {task[t].path}])
    /\ wanted' = [wanted EXCEPT ![task[t].path] = "yes"]
    /\ UNCHANGED <<mutexMap, volumes, throttled, hostVars, staged, deleted, faults, restarts, lateVars>>

(* NodeUnpublish: Volume.Unpublish, then RemovePublishPath.                *)
Unpublish(t) ==
    /\ At(t, "unbind")
    /\ bind' = [bind EXCEPT ![task[t].path] = None]
    /\ Goto(t, "untrack")
    /\ UNCHANGED <<nodeVars, mgr, fuse, staging, ghostVars, faults, restarts, lateVars>>

UnpublishFails(t) ==
    /\ At(t, "unbind") /\ Fault
    /\ bind' \in {bind, [bind EXCEPT ![task[t].path] = None]}
    /\ Return(t)
    /\ UNCHANGED <<mgr, fuse, staging, ghostVars, restarts, lateVars>>

Untrack(t) ==
    /\ At(t, "untrack")
    /\ Finish(t, volumes, [volObj EXCEPT ![task[t].vol].paths = @ \ {task[t].path}])
    /\ wanted' = [wanted EXCEPT ![task[t].path] = "no"]
    /\ UNCHANGED <<mutexMap, volumes, throttled, hostVars, staged, deleted, faults, restarts, lateVars>>

(* An unknown volume: the path is cleaned up if that works.                *)
UnpublishUnknown(t) ==
    /\ At(t, "unbindUnknown")
    /\ \/ bind' = [bind EXCEPT ![task[t].path] = None] /\ NoFault
       \/ UNCHANGED bind /\ Fault
    /\ Return(t)
    /\ wanted' = [wanted EXCEPT ![task[t].path] = "no"]
    /\ UNCHANGED <<mgr, fuse, staging, staged, deleted, restarts, lateVars>>

(* NodeUnstage: Volume.Unstage through the unmounter, or by path without   *)
(* one; success forgets the volume, its mutex and its backoff.             *)
Forget(t, current) ==
    /\ Finish(t, current, volObj)
    /\ volumes' = current /\ mutexMap' = None /\ throttled' = FALSE

Unstage(t) ==
    /\ At(t, "unstage")
    /\ IF VolOf(t).unmounter
       THEN UnmountAtManager
       ELSE staging' = None /\ UNCHANGED <<mgr, fuse>> /\ NoFault
    /\ IF staging' = None THEN Forget(t, None) ELSE Return(t)
    /\ UNCHANGED <<bind, ghostVars, restarts, lateVars>>

UnstageFails(t) ==
    /\ At(t, "unstage")
    /\ IF VolOf(t).unmounter
       THEN UnmountAtManagerFails
       ELSE Fault /\ UNCHANGED <<mgr, fuse, staging, lateVars>>
    /\ Return(t)
    /\ UNCHANGED <<bind, ghostVars, restarts>>

(* An unknown volume: success whether or not the path could be cleaned up. *)
UnstageUnknown(t) ==
    /\ At(t, "unstageUnknown")
    /\ \/ staging' = None /\ NoFault
       \/ staging # None /\ UNCHANGED staging /\ Fault
    /\ Forget(t, volumes)
    /\ UNCHANGED <<mgr, fuse, bind, ghostVars, restarts, lateVars>>

-----------------------------------------------------------------------------
(* The health monitor: one goroutine at a time for a volume in the map.    *)
Sweep(t) ==
    /\ At(t, "idle") /\ volumes # None
    /\ UnstageOverlaps \/ \A u \in Rpcs : task[u].op # "unstage"
    /\ task' = [task EXCEPT ![t].pc = "sweep", ![t].vol = volumes]
    /\ UNCHANGED <<nodeVars, hostVars, ghostVars, faults, restarts, lateVars>>

(* performVolumeHealthCheck and recoverVolume's throttle check.            *)
SweepVerdict(t) ==
    /\ At(t, "sweep")
    /\ LET next == IF Healthy
                   THEN IF \E p \in VolOf(t).paths : ~PathHealthy(p) THEN "retry" ELSE "none"
                   ELSE IF throttled THEN "none" ELSE "recover"
       IN task' = [task EXCEPT ![t] =
                     IF next = "none" THEN Idle ELSE [Idle EXCEPT !.pc = "getMutex", !.op = next]]
    /\ throttled' = (throttled /\ ~Healthy)
    /\ volObj' = [o \in Vols |-> IF o = volumes \/ InUse(o, t) THEN volObj[o] ELSE NoVolume]
    /\ UNCHANGED <<lockVars, volumes, hostVars, ghostVars, faults, restarts, lateVars>>

(* recoverVolume under the lock: healthy again, or nothing to stage from.  *)
RecoverNotNeeded(t) ==
    /\ At(t, "recheck")
    /\ Healthy \/ ~VolOf(t).context
    /\ Finish(t, volumes, volObj)
    /\ throttled' = (throttled /\ ~Healthy)
    /\ UNCHANGED <<mutexMap, volumes, hostVars, ghostVars, faults, restarts, lateVars>>

(* It collects the publish paths, then asks whether the mount is live.     *)
RecoverCollect(t) ==
    /\ At(t, "recheck")
    /\ ~Healthy /\ VolOf(t).context
    /\ task' = [task EXCEPT ![t].pubs = VolOf(t).paths, ![t].pc = "decide"]
    /\ UNCHANGED <<nodeVars, hostVars, ghostVars, faults, restarts, lateVars>>

(* Mutants of SparesLive: the health probe decides, so that a slow mount   *)
(* is torn down; every mount with publish paths is spared, also a dead one.*)
SparesHealthy(t) == task[t].pubs # {} /\ Healthy
SparesAll(t) == task[t].pubs # {}

SparesLive(t) == task[t].pubs # {} /\ Live

(* Mutant of RecoverSkipLive: it waits, with the mutex held, for the mount *)
(* to become healthy or to die.                                            *)
SkipLiveWaits(t) ==
    /\ At(t, "decide") /\ SparesLive(t)
    /\ throttled' = TRUE
    /\ Goto(t, "recheck")
    /\ UNCHANGED <<lockVars, volumes, volObj, hostVars, ghostVars, faults, restarts, lateVars>>

RecoverSkipLive(t) ==
    /\ At(t, "decide") /\ SparesLive(t)
    /\ throttled' = TRUE
    /\ Finish(t, volumes, volObj)
    /\ UNCHANGED <<mutexMap, volumes, hostVars, ghostVars, faults, restarts, lateVars>>

RecoverGoAhead(t) ==
    /\ At(t, "decide") /\ ~SparesLive(t)
    /\ throttled' = TRUE
    /\ Goto(t, IF VolOf(t).unmounter THEN "stop" ELSE "guard")
    /\ UNCHANGED <<lockVars, volumes, volObj, hostVars, ghostVars, faults, restarts, lateVars>>

RecoverStop(t) ==
    /\ At(t, "stop")
    /\ UnmountAtManager
    /\ Goto(t, "guard")
    /\ UNCHANGED <<nodeVars, bind, ghostVars, restarts, lateVars>>

RecoverStopFails(t) ==
    /\ At(t, "stop")
    /\ UnmountAtManagerFails
    /\ Return(t)
    /\ UNCHANGED <<bind, ghostVars, restarts>>

(* Still a mount point: one that is dead behind the cache is detached; a   *)
(* corrupted one fails the check and is left to the cleanup; any other     *)
(* aborts the recovery.                                                    *)
RecoverGuard(t) ==
    /\ At(t, "guard")
    /\ ~Serves(staging)
    /\ staging' = IF Stats(staging) THEN None ELSE staging
    /\ Goto(t, "unmountStale")
    /\ UNCHANGED <<nodeVars, mgr, fuse, bind, ghostVars, faults, restarts, lateVars>>

RecoverAborts(t) ==
    /\ At(t, "guard")
    /\ Stats(staging)
    /\ IF Serves(staging) THEN NoFault ELSE Fault
    /\ Return(t)
    /\ UNCHANGED <<hostVars, ghostVars, restarts, lateVars>>

(* Every old bind is torn down, if it can be.                              *)
RecoverTear(t) ==
    /\ At(t, "tear")
    /\ \E p \in task[t].left :
        \/ /\ bind' = [bind EXCEPT ![p] = None] /\ NoFault
           /\ task' = [task EXCEPT ![t].left = @ \ {p}, ![t].torn = @ \cup {p}]
        \/ /\ bind[p] # None /\ UNCHANGED bind /\ Fault
           /\ task' = [task EXCEPT ![t].left = @ \ {p}]
    /\ UNCHANGED <<nodeVars, mgr, fuse, staging, ghostVars, restarts, lateVars>>

RecoverTorn(t) ==
    /\ At(t, "tear") /\ task[t].left = {}
    /\ task' = [task EXCEPT ![t].pc = "rebind", ![t].left = task[t].pubs]
    /\ UNCHANGED <<nodeVars, hostVars, ghostVars, faults, restarts, lateVars>>

(* Mutant of RecoverRebind: only the paths that could be torn down stay    *)
(* tracked.                                                                *)
RebindTornOnly(t) ==
    /\ At(t, "rebind")
    /\ \E p \in task[t].left :
        /\ task' = [task EXCEPT ![t].left = @ \ {p}]
        /\ IF p \in task[t].torn
           THEN PublishTo(p) /\ volObj' = [volObj EXCEPT ![task[t].new].paths = @ \cup {p}]
           ELSE UNCHANGED <<bind, volObj>>
    /\ UNCHANGED <<lockVars, volumes, throttled, mgr, fuse, staging, ghostVars, faults, restarts, lateVars>>

(* Every collected path is tracked by the new volume, and bound again if   *)
(* it was torn down.                                                       *)
RecoverRebind(t) ==
    /\ At(t, "rebind")
    /\ \E p \in task[t].left :
        /\ task' = [task EXCEPT ![t].left = @ \ {p}]
        /\ volObj' = [volObj EXCEPT ![task[t].new].paths = @ \cup {p}]
        /\ \/ p \notin task[t].torn /\ UNCHANGED bind /\ NoFault
           \/ p \in task[t].torn /\ PublishTo(p) /\ NoFault
           \/ p \in task[t].torn /\ UNCHANGED bind /\ Fault
    /\ UNCHANGED <<lockVars, volumes, throttled, mgr, fuse, staging, ghostVars, restarts, lateVars>>

RecoverStore(t) ==
    /\ At(t, "rebind") /\ task[t].left = {}
    /\ volumes' = task[t].new
    /\ Finish(t, task[t].new, volObj)
    /\ UNCHANGED <<mutexMap, throttled, hostVars, ghostVars, faults, restarts, lateVars>>

(* retryPublishPaths: only while the staging mount is healthy.             *)
RetryStart(t) ==
    /\ At(t, "retryCheck") /\ Healthy
    /\ task' = [task EXCEPT ![t].pc = "retry", ![t].left = VolOf(t).paths]
    /\ UNCHANGED <<nodeVars, hostVars, ghostVars, faults, restarts, lateVars>>

(* An unhealthy path is torn down and bound again, if both work.           *)
RetryPath(t) ==
    /\ At(t, "retry")
    /\ \E p \in task[t].left :
        /\ task' = [task EXCEPT ![t].left = @ \ {p}]
        /\ \/ PathHealthy(p) /\ UNCHANGED bind /\ NoFault
           \/ /\ ~PathHealthy(p) /\ NoFault
              /\ \E b \in BindResults : bind' = [bind EXCEPT ![p] = b]
           \/ ~PathHealthy(p) /\ bind' \in {bind, [bind EXCEPT ![p] = None]} /\ Fault
    /\ UNCHANGED <<nodeVars, mgr, fuse, staging, ghostVars, restarts, lateVars>>

RetryReturn(t) ==
    /\ (At(t, "retryCheck") /\ ~Healthy) \/ (At(t, "retry") /\ task[t].left = {})
    /\ Return(t)
    /\ UNCHANGED <<hostVars, ghostVars, faults, restarts, lateVars>>

(* The backoff window ends.                                                *)
BackoffEnds ==
    /\ throttled /\ throttled' = FALSE
    /\ UNCHANGED <<lockVars, task, volumes, volObj, hostVars, ghostVars, faults, restarts, lateVars>>

-----------------------------------------------------------------------------
(* The outside.  A session slows down, hangs or dies; a slow one catches   *)
(* up; the attribute cache of a dead one expires; the process whose last   *)
(* mount is gone exits.                                                    *)
SessionFails ==
    /\ Fault
    /\ \E g \in Gens, s \in {"slow", "hung", "cached", "dead"} :
        /\ fuse[g] = "live" \/ (fuse[g] = "slow" /\ s # "slow") \/ (fuse[g] = "hung" /\ s \in {"cached", "dead"})
        /\ fuse' = [fuse EXCEPT ![g] = s]
    /\ UNCHANGED <<nodeVars, task, mgr, staging, bind, ghostVars, restarts, lateVars>>

Mounted(g) == staging = g \/ \E p \in Paths : bind[p] = g

SessionMoves(from, to) ==
    /\ \E g \in Gens : fuse[g] = from /\ fuse' = [fuse EXCEPT ![g] = to]
    /\ UNCHANGED <<nodeVars, task, mgr, staging, bind, ghostVars, faults, restarts, lateVars>>

SessionEases == SessionMoves("slow", "live")
CacheExpires == SessionMoves("cached", "dead")

SessionEnds ==
    /\ \E g \in Gens : Serves(g) /\ ~Mounted(g) /\ fuse' = [fuse EXCEPT ![g] = "dead"]
    /\ UNCHANGED <<nodeVars, task, mgr, staging, bind, ghostVars, faults, restarts, lateVars>>

(* The mount service reaps an exited process: it unmounts the path, if it  *)
(* can, and drops its entry.                                               *)
Reap ==
    /\ mgr # None /\ ~Serves(mgr)
    /\ mgr' = None
    /\ \/ staging' = (IF staging = mgr THEN None ELSE staging) /\ NoFault
       \/ staging = mgr /\ UNCHANGED staging /\ Fault
    /\ UNCHANGED <<nodeVars, task, fuse, bind, ghostVars, restarts, lateVars>>

(* The mount service serves a request that its caller has given up on, at  *)
(* any time later.                                                         *)
LateMount ==
    /\ "mount" \in late /\ late' = late \ {"mount"}
    /\ MountAtManager
    /\ stray' = IF mgr' = mgr THEN stray ELSE mgr'
    /\ UNCHANGED <<nodeVars, task, bind, ghostVars, faults, restarts>>

LateUnmount ==
    /\ "unmount" \in late /\ late' = late \ {"unmount"}
    /\ UnmountAtManager
    /\ UNCHANGED <<nodeVars, task, bind, ghostVars, restarts, stray>>

(* Mutant of RestoredPaths: the volume is adopted without publish paths.   *)
RestoredNone == {}

(* The plugin restarts: NewNodeServer begins with an empty map and         *)
(* restoreVolumes adopts the volume if the service can be asked, lists it  *)
(* and its mount is live, with the publish paths that share its device.    *)
RestoredPaths == {p \in Paths : bind[p] = staging}

Restored(found) == [paths |-> found, unmounter |-> TRUE, context |-> TRUE]

Restart ==
    /\ restarts < MaxRestarts /\ restarts' = restarts + 1 /\ Fault
    /\ mutexMap' = None /\ holder' = [m \in Mutexes |-> None]
    /\ task' = [t \in Tasks |-> Idle]
    /\ throttled' = FALSE
    /\ \/ /\ Serves(mgr) /\ Live
          /\ volumes' = Pick(Vols)
          /\ \E found \in {RestoredPaths} \cup (IF DeviceLookupFails THEN {{}} ELSE {}) :
                volObj' = [o \in Vols |-> IF o = volumes' THEN Restored(found) ELSE NoVolume]
       \/ /\ volumes' = None
          /\ volObj' = [o \in Vols |-> NoVolume]
    /\ UNCHANGED <<hostVars, ghostVars, lateVars>>

StageStep(t) ==
    \/ Probe(t) \/ Rebuild(t) \/ UnmountStale(t) \/ CheckStale(t) \/ RefuseStale(t)
    \/ RemoveAll(t) \/ StageUnmount(t) \/ StageFails(t) \/ Mount(t) \/ MountFails(t)
    \/ Staged(t) \/ QuotaFails(t)

PublishStep(t) ==
    \/ Publish(t) \/ PublishFails(t) \/ Track(t) \/ Unpublish(t) \/ UnpublishFails(t)
    \/ Untrack(t) \/ UnpublishUnknown(t) \/ Unstage(t) \/ UnstageFails(t) \/ UnstageUnknown(t)

RecoverStep(t) ==
    \/ RecoverNotNeeded(t) \/ RecoverCollect(t) \/ RecoverSkipLive(t) \/ RecoverGoAhead(t)
    \/ RecoverStop(t) \/ RecoverStopFails(t) \/ RecoverGuard(t) \/ RecoverAborts(t)
    \/ RecoverTear(t) \/ RecoverTorn(t) \/ RecoverRebind(t) \/ RecoverStore(t)
    \/ RetryStart(t) \/ RetryPath(t) \/ RetryReturn(t)

Step(t) ==
    GetMutex(t) \/ Load(t) \/ LoadAndReturn(t) \/ StageStep(t) \/ PublishStep(t) \/ RecoverStep(t)

Environment ==
    \/ SessionFails \/ SessionEases \/ CacheExpires \/ SessionEnds \/ Reap \/ Restart
    \/ LateMount \/ LateUnmount

Next ==
    \/ \E t \in Rpcs : CallStage(t) \/ CallUnstage(t)
    \/ \E t \in Rpcs, p \in Paths : CallPublish(t, p) \/ CallUnpublish(t, p)
    \/ \E t \in Tasks : Lock(t) \/ Step(t)
    \/ \E t \in Monitors : Sweep(t) \/ SweepVerdict(t)
    \/ BackoffEnds \/ Environment

Spec == Init /\ [][Next]_vars

(* The sessions a task asks by a call that has no timeout, all of them     *)
(* made with the mutex held: stat and mount-point checks of the staging    *)
(* path and of publish paths, their unmounts, Configure for the quota.     *)
(* Health probes, the live check and the mount service's client have one.  *)
Touches(t) ==
    CASE task[t].pc \in {"probe", "unmountStale", "checkStale", "removeAll", "stage", "guard",
                         "unstageUnknown"} -> {staging}
      [] task[t].pc = "unstage" -> IF VolOf(t).unmounter THEN {} ELSE {staging}
      [] task[t].pc = "quota" -> {mgr}
      [] task[t].pc = "bind" -> {staging, bind[task[t].path]}
      [] task[t].pc \in {"unbind", "unbindUnknown"} -> {bind[task[t].path]}
      [] task[t].pc \in {"tear", "rebind", "retry"} -> {staging} \cup {bind[p] : p \in task[t].left}
      [] OTHER -> {}

Blocked(t) == \E g \in Touches(t) : Is(g, {"hung"})

(* Goroutines make progress unless a hung daemon blocks them, a waiting    *)
(* mutex is obtained in time, ticks keep coming, windows end, and the      *)
(* kernel and the mount service do their part; a request that was given up *)
(* on may never be served.  Nothing says that the orchestrator calls again.*)
Fairness ==
    /\ \A t \in Tasks : WF_vars(Step(t) /\ ~Blocked(t)) /\ SF_vars(Lock(t))
    /\ \A t \in Monitors : WF_vars(Sweep(t)) /\ WF_vars(SweepVerdict(t))
    /\ WF_vars(BackoffEnds) /\ WF_vars(CacheExpires) /\ WF_vars(SessionEnds) /\ WF_vars(Reap)

FairSpec == Spec /\ Fairness

-----------------------------------------------------------------------------
Objects == [paths : SUBSET Paths, unmounter : BOOLEAN, context : BOOLEAN]
Locals == [pc : {"idle", "sweep", "getMutex", "lock", "load", "probe", "rebuild", "unmountStale", "checkStale",
                 "removeAll", "stage", "mount", "quota", "bind", "track", "unbind", "untrack", "unbindUnknown",
                 "unstage", "unstageUnknown", "recheck", "decide", "stop", "guard", "tear", "rebind",
                 "retryCheck", "retry"},
           op : {"none", "stage", "publish", "unpublish", "unstage", "recover", "retry"},
           path : Paths \cup {None}, mutex : Mutexes \cup {None}, vol : Vols \cup {None}, new : Vols \cup {None},
           pubs : SUBSET Paths, left : SUBSET Paths, torn : SUBSET Paths]

TypeOK ==
    /\ mutexMap \in Mutexes \cup {None}
    /\ holder \in [Mutexes -> Tasks \cup {None}]
    /\ task \in [Tasks -> Locals]
    /\ volumes \in Vols \cup {None}
    /\ volObj \in [Vols -> Objects]
    /\ throttled \in BOOLEAN
    /\ mgr \in Gens \cup {None}
    /\ fuse \in [Gens -> {"live", "slow", "hung", "cached", "dead"}]
    /\ staging \in Gens \cup {None}
    /\ bind \in [Paths -> Gens \cup {None, Bare}]
    /\ staged \in BOOLEAN /\ wanted \in [Paths -> {"no", "maybe", "yes"}]
    /\ deleted \subseteq {"late", "other"}
    /\ late \subseteq {"mount", "unmount"} /\ stray \in Gens \cup {None}
    /\ faults \in 0..MaxFaults /\ restarts \in 0..MaxRestarts

InCriticalSection(t) == task[t].pc \notin {"idle", "sweep", "getMutex", "lock"}

(* The per-volume mutex serializes the handlers and the monitor's recovery *)
(* on the same volume, although a failed stage throws the mutex away while *)
(* it is held.                                                             *)
VolumeSerialized ==
    \A t, u \in Tasks : InCriticalSection(t) /\ InCriticalSection(u) => t = u

(* The safety invariant of cleanupStaleStagingPath: RemoveAll never walks  *)
(* into a FUSE mount that still serves I/O, whoever mounted it between the *)
(* mount-point check and the removal.                                      *)
NoDeletionThroughMount == deleted = {}

(* How far it holds: RemoveAll may meet a mount that the service made for  *)
(* a request whose caller had given up on it, and no other, however        *)
(* handlers, recoveries, failed steps, reaped and dying sessions fall      *)
(* between the check and the removal.                                      *)
OnlyLateDeletion == "other" \notin deleted

(* A publish path kubelet was told is published is tracked by the volume   *)
(* in the map, through every replacement of the *Volume by a recovery; one *)
(* it was told is unpublished is not.                                      *)
TrackingExact ==
    \A p \in Paths :
        /\ wanted[p] = "yes" => volumes # None /\ p \in volObj[volumes].paths
        /\ wanted[p] = "no" /\ volumes # None => p \notin volObj[volumes].paths

(* The staged and bound session that still answers is never stopped by the *)
(* health monitor, however slow it is.                                     *)
Spared(g) == fuse[g] \in {"live", "slow"} /\ staging = g /\ \E p \in Paths : bind[p] = g

NoLiveTeardown ==
    [][\A t \in Monitors : RecoverStop(t) => \A g \in Gens : Spared(g) => Serves(g)']_vars

(* A task that a hung daemon holds up, under itself or under the task that *)
(* has the mutex.                                                          *)
Stalled(t) ==
    \/ Blocked(t)
    \/ At(t, "lock") /\ \E u \in Tasks : holder[task[t].mutex] = u /\ Blocked(u)

(* Every CSI call is answered and every health check ends: no task waits   *)
(* for ever for the volume's mutex, which a recovery may hold or a failed  *)
(* stage may have thrown away, unless a hung daemon stalls it in one of    *)
(* the calls without a timeout.                                            *)
EveryCallReturns ==
    \A t \in Tasks : task[t].pc # "idle" ~> (task[t].pc = "idle" \/ Stalled(t))

(* A recoverable volume whose staging mount has died, hung or vanished is  *)
(* staged again on a session that answers, unless it is unstaged or a hung *)
(* daemon stalls the monitor.                                              *)
StagingRecovers ==
    (volumes # None /\ volObj[volumes].context /\ volObj[volumes].unmounter /\ ~Live)
        ~> (volumes = None \/ Live \/ \E t \in Monitors : Stalled(t))

(* What health_monitor.go says of a publish path that could not be re-     *)
(* bound: the next sweeps bring it back to the session that is staged.     *)
PublishPathsRecover ==
    \A p \in Paths :
        (wanted[p] = "yes")
            ~> (wanted[p] # "yes" \/ (bind[p] = staging /\ staging # None) \/ \E t \in Tasks : Stalled(t))
=============================================================================
