-------------------------- MODULE NodeServer_proofs --------------------------
(***************************************************************************)
(* Safety of the CSI handlers and the health monitor on one volume, for    *)
(* any publish paths, objects, sessions, faults and restarts.  The types   *)
(* hold for any number of concurrent calls.  The rest is proved for what   *)
(* kubelet does, one call at a time for a volume, and for volumes that are *)
(* not unstaged while their health is being checked: NodeUnstage throws    *)
(* the mutex away while the monitor may be waiting for it, after which     *)
(* nothing serializes the two.                                             *)
(***************************************************************************)
EXTENDS NodeServer, TLAPS

OneCallAtATime == \A r, s \in Rpcs : r = s
Kubelet == OneCallAtATime /\ ~UnstageOverlaps
-----------------------------------------------------------------------------
(* Where a task of each kind can be, and the locals it has there.          *)
Begin == {"getMutex", "lock", "load"}
Rebuilding == {"probe", "rebuild"}
Staging == {"unmountStale", "checkStale", "removeAll", "stage", "mount", "quota"}
Recovering == {"recheck", "decide", "stop", "guard", "tear", "rebind"}
Retrying == {"retryCheck", "retry"}
KnownPlaces == {"sweep", "bind", "track", "unbind", "untrack", "unstage"} \cup Recovering \cup Retrying

PlaceOK(t, l) ==
    /\ l.op = "none" => l.pc \in {"idle", "sweep"}
    /\ l.op = "stage" => l.pc \in Begin \cup Rebuilding \cup Staging
    /\ l.op = "publish" => l.pc \in Begin \cup Rebuilding \cup Staging \cup {"bind", "track"} /\ l.path \in Paths
    /\ l.op = "unpublish" => l.pc \in Begin \cup {"unbind", "untrack", "unbindUnknown"} /\ l.path \in Paths
    /\ l.op = "unstage" => l.pc \in Begin \cup {"unstage", "unstageUnknown"}
    /\ l.op = "recover" => l.pc \in Begin \cup Recovering \cup Staging
    /\ l.op = "retry" => l.pc \in Begin \cup Retrying
    /\ l.op \in {"recover", "retry"} \/ l.pc = "sweep" => t \in Monitors
    /\ l.op \in {"stage", "publish", "unpublish", "unstage"} => t \in Rpcs /\ l.op \in Calls
    /\ l.pc \in KnownPlaces \/ (l.op = "recover" /\ l.pc \in Staging) => l.vol \in Vols
    /\ l.pc \in {"tear", "rebind"} => l.new \in Vols

PlaceInv == \A t \in Tasks : PlaceOK(t, task[t])

TypeInv == TypeOK /\ PlaceInv

-----------------------------------------------------------------------------
(* The parts of the state.                                                 *)
LockTypes == mutexMap \in Mutexes \cup {None} /\ holder \in [Mutexes -> Tasks \cup {None}]
TaskTypes == task \in [Tasks -> Locals] /\ PlaceInv
VolumeTypes == volumes \in Vols \cup {None} /\ volObj \in [Vols -> Objects] /\ throttled \in BOOLEAN
HostTypes ==
    /\ mgr \in Gens \cup {None} /\ fuse \in [Gens -> {"live", "slow", "hung", "cached", "dead"}]
    /\ staging \in Gens \cup {None} /\ bind \in [Paths -> Gens \cup {None, Bare}]
GhostTypes ==
    /\ staged \in BOOLEAN /\ wanted \in [Paths -> {"no", "maybe", "yes"}] /\ deleted \subseteq {"late", "other"}
    /\ faults \in 0..MaxFaults /\ restarts \in 0..MaxRestarts
LateTypes == late \subseteq {"mount", "unmount"} /\ stray \in Gens \cup {None}

LEMMA Parts == TypeInv <=> LockTypes /\ TaskTypes /\ VolumeTypes /\ HostTypes /\ GhostTypes /\ LateTypes
BY DEF TypeInv, TypeOK, LockTypes, TaskTypes, VolumeTypes, HostTypes, GhostTypes, LateTypes

LEMMA IdleLocals == Idle \in Locals /\ \A t : PlaceOK(t, Idle)
<1>1. Idle \in Locals
  BY DEF Idle, Locals
<1>2. \A t : PlaceOK(t, Idle)
  BY DEF Idle, PlaceOK, KnownPlaces, Recovering, Retrying
<1> QED
  BY <1>1, <1>2

(* A step changes the locals of one task.                                  *)
LEMMA OneTask ==
    ASSUME TaskTypes, NEW t \in Tasks, NEW l \in Locals, PlaceOK(t, l), task' = [task EXCEPT ![t] = l]
    PROVE  TaskTypes'
BY DEF TaskTypes, PlaceInv

LEMMA PickTypes ==
    /\ FreshVols # {} => Pick(FreshVols) \in FreshVols /\ Pick(FreshVols) \in Vols
    /\ FreshGens # {} => Pick(FreshGens) \in FreshGens /\ Pick(FreshGens) \in Gens
    /\ FreshMutexes # {} => Pick(FreshMutexes) \in FreshMutexes /\ Pick(FreshMutexes) \in Mutexes
    /\ Pick(Vols) \in Vols
<1>1. \A S : S # {} => Pick(S) \in S
  BY DEF Pick
<1> QED
  BY <1>1, VolsAssumption DEF FreshVols, FreshGens, FreshMutexes

(* A task goes on, or returns.                                             *)
LEMMA Goes ==
    ASSUME TaskTypes, NEW t \in Tasks, NEW x, Goto(t, x), PlaceOK(t, [task[t] EXCEPT !.pc = x]),
           x \in Begin \cup Rebuilding \cup Staging \cup KnownPlaces \cup {"unbindUnknown", "unstageUnknown"}
    PROVE  TaskTypes'
<1>1. [task[t] EXCEPT !.pc = x] \in Locals
  BY DEF TaskTypes, Locals, Begin, Rebuilding, Staging, KnownPlaces, Recovering, Retrying
<1>2. task' = [task EXCEPT ![t] = [task[t] EXCEPT !.pc = x]]
  BY DEF Goto
<1> QED
  BY <1>1, <1>2, OneTask

LEMMA Ends ==
    ASSUME LockTypes, TaskTypes, NEW t \in Tasks, NEW current, NEW objs \in [Vols -> Objects],
           Finish(t, current, objs)
    PROVE  TaskTypes' /\ holder' \in [Mutexes -> Tasks \cup {None}] /\ volObj' \in [Vols -> Objects]
<1>1. TaskTypes'
  BY IdleLocals, OneTask DEF Finish
<1>2. holder' \in [Mutexes -> Tasks \cup {None}]
  BY DEF Finish, LockTypes
<1>3. NoVolume \in Objects
  BY DEF NoVolume, Objects
<1>4. volObj' \in [Vols -> Objects]
  BY <1>3 DEF Finish
<1> QED
  BY <1>1, <1>2, <1>4

LEMMA Returns ==
    ASSUME LockTypes, TaskTypes, VolumeTypes, NEW t \in Tasks, Return(t) \/ Fail(t)
    PROVE  LockTypes' /\ TaskTypes' /\ VolumeTypes'
<1>1. Finish(t, volumes, volObj)
  BY DEF Return, Fail
<1>2. TaskTypes' /\ holder' \in [Mutexes -> Tasks \cup {None}] /\ volObj' \in [Vols -> Objects]
  BY <1>1, Ends DEF VolumeTypes
<1> QED
  BY <1>2 DEF Return, Fail, LockTypes, VolumeTypes

LEMMA Faults == ASSUME GhostTypes, Fault \/ NoFault PROVE faults' \in 0..MaxFaults
BY BoundsAssumption DEF GhostTypes, Fault, NoFault

-----------------------------------------------------------------------------
LEMMA ManagerTypes ==
    ASSUME HostTypes, UNCHANGED bind,
           MountAtManager \/ UnmountAtManager \/ UnmountAtManagerFails \/ UNCHANGED <<mgr, fuse, staging>>
    PROVE  HostTypes'
<1>1. CASE MountAtManager
  BY <1>1, PickTypes DEF MountAtManager, HostTypes
<1>2. CASE UnmountAtManager
  BY <1>2 DEF UnmountAtManager, HostTypes
<1>3. CASE UnmountAtManagerFails \/ UNCHANGED <<mgr, fuse, staging>>
  BY <1>3 DEF UnmountAtManagerFails, HostTypes
<1> QED
  BY <1>1, <1>2, <1>3

LEMMA BindTypes ==
    ASSUME HostTypes, NEW p
    PROVE  /\ PublishTo(p) => bind' \in [Paths -> Gens \cup {None, Bare}]
           /\ \A b \in BindResults : b \in Gens \cup {None, Bare}
BY DEF HostTypes, PublishTo, BindResults

LEMMA HostStep ==
    ASSUME TypeInv, [Next]_vars
    PROVE  HostTypes'
<1>0. HostTypes
  BY Parts
<1>1. CASE UNCHANGED hostVars
  BY <1>0, <1>1 DEF HostTypes, hostVars
<1>2. CASE UNCHANGED <<mgr, fuse, bind>> /\ staging' \in {None, staging}
  BY <1>0, <1>2 DEF HostTypes
<1>3. CASE UNCHANGED <<mgr, fuse, staging>> /\ bind' \in [Paths -> Gens \cup {None, Bare}]
  BY <1>0, <1>3 DEF HostTypes
<1>4. ASSUME NEW t \in Tasks, Step(t) PROVE HostTypes'
  <2>1. CASE GetMutex(t) \/ Load(t) \/ LoadAndReturn(t) \/ Probe(t) \/ Rebuild(t) \/ RefuseStale(t) \/ RemoveAll(t)
             \/ StageFails(t) \/ Staged(t) \/ PublishFails(t) \/ Track(t) \/ Untrack(t)
    BY <1>1, <2>1 DEF GetMutex, Load, LoadAndReturn, Probe, Rebuild, RefuseStale, RemoveAll, StageFails, Staged,
                      PublishFails, Track, Untrack
  <2>2. CASE RecoverNotNeeded(t) \/ RecoverCollect(t) \/ RecoverSkipLive(t) \/ RecoverGoAhead(t) \/ RecoverAborts(t)
             \/ RecoverTorn(t) \/ RecoverStore(t) \/ RetryStart(t) \/ RetryReturn(t)
    BY <1>1, <2>2 DEF RecoverNotNeeded, RecoverCollect, RecoverSkipLive, RecoverGoAhead, RecoverAborts, RecoverTorn,
                      RecoverStore, RetryStart, RetryReturn
  <2>3. CASE UnmountStale(t) \/ CheckStale(t) \/ StageUnmount(t) \/ UnstageUnknown(t) \/ RecoverGuard(t)
    BY <1>2, <2>3 DEF UnmountStale, CheckStale, StageUnmount, UnstageUnknown, RecoverGuard
  <2>4. CASE Mount(t) \/ MountFails(t) \/ RecoverStop(t) \/ RecoverStopFails(t)
    BY <1>0, <2>4, ManagerTypes DEF Mount, MountFails, RecoverStop, RecoverStopFails
  <2>5. CASE UnstageFails(t)
    BY <1>0, <2>5, ManagerTypes DEF UnstageFails
  <2>6. CASE Unstage(t)
    BY <1>0, <1>2, <2>6, ManagerTypes DEF Unstage
  <2>7. CASE QuotaFails(t)
    BY <1>0, <2>7 DEF QuotaFails, HostTypes
  <2>8. CASE Publish(t)
    BY <1>0, <1>3, <2>8, BindTypes DEF Publish
  <2>9. CASE Unpublish(t) \/ UnpublishFails(t) \/ UnpublishUnknown(t)
    BY <1>0, <2>9 DEF Unpublish, UnpublishFails, UnpublishUnknown, HostTypes
  <2>10. CASE RecoverTear(t)
    BY <1>0, <2>10 DEF RecoverTear, HostTypes
  <2>11. CASE RecoverRebind(t)
    <3>1. bind' \in [Paths -> Gens \cup {None, Bare}]
      BY <1>0, <2>11, BindTypes DEF RecoverRebind, HostTypes
    <3> QED
      BY <1>3, <2>11, <3>1 DEF RecoverRebind
  <2>12. CASE RetryPath(t)
    <3>1. bind' \in [Paths -> Gens \cup {None, Bare}]
      BY <1>0, <2>12, BindTypes DEF RetryPath, HostTypes
    <3> QED
      BY <1>3, <2>12, <3>1 DEF RetryPath
  <2> QED
    BY <1>4, <2>1, <2>2, <2>3, <2>4, <2>5, <2>6, <2>7, <2>8, <2>9, <2>10, <2>11, <2>12
       DEF Step, StageStep, PublishStep, RecoverStep
<1>5. CASE SessionFails \/ SessionEases \/ CacheExpires \/ SessionEnds
  BY <1>0, <1>5 DEF SessionFails, SessionEases, CacheExpires, SessionMoves, SessionEnds, HostTypes
<1>6. CASE Reap
  BY <1>0, <1>6 DEF Reap, HostTypes
<1>9. CASE LateMount \/ LateUnmount
  BY <1>0, <1>9, ManagerTypes DEF LateMount, LateUnmount
<1>7. CASE Restart \/ BackoffEnds \/ UNCHANGED vars
  BY <1>1, <1>7 DEF Restart, BackoffEnds, vars, hostVars
<1>8. ASSUME NEW t \in Tasks, NEW p, CallStage(t) \/ CallUnstage(t) \/ CallPublish(t, p) \/ CallUnpublish(t, p)
                                     \/ Lock(t) \/ Sweep(t) \/ SweepVerdict(t)
      PROVE  HostTypes'
  BY <1>1, <1>8 DEF CallStage, CallUnstage, CallPublish, CallUnpublish, Call, Lock, Sweep, SweepVerdict
<1> QED
  BY <1>4, <1>5, <1>6, <1>7, <1>8, <1>9 DEF Next, Environment, Tasks

LEMMA GhostStep ==
    ASSUME TypeInv, [Next]_vars
    PROVE  GhostTypes'
<1>0. GhostTypes /\ TaskTypes
  BY Parts
<1> USE BoundsAssumption
<1>1. CASE UNCHANGED ghostVars /\ (Fault \/ NoFault) /\ UNCHANGED restarts
  BY <1>0, <1>1, Faults DEF GhostTypes, ghostVars
<1>2. CASE /\ staged' \in BOOLEAN /\ wanted' \in [Paths -> {"no", "maybe", "yes"}] 
           /\ deleted' \subseteq {"late", "other"}
           /\ Fault \/ NoFault
           /\ UNCHANGED restarts
  BY <1>0, <1>2, Faults DEF GhostTypes
<1>3. ASSUME NEW t \in Tasks, Step(t) PROVE GhostTypes'
  <2>1. CASE GetMutex(t) \/ Load(t) \/ Probe(t) \/ UnmountStale(t) \/ CheckStale(t) \/ RefuseStale(t)
             \/ StageUnmount(t) \/ StageFails(t) \/ Mount(t) \/ MountFails(t) \/ QuotaFails(t)
    BY <1>1, <2>1 DEF GetMutex, Load, Probe, UnmountStale, CheckStale, RefuseStale, StageUnmount, StageFails, Mount,
                      MountFails, QuotaFails, NoFault
  <2>2. CASE Publish(t) \/ PublishFails(t) \/ Unpublish(t) \/ UnpublishFails(t) \/ Unstage(t) \/ UnstageFails(t)
             \/ UnstageUnknown(t)
    BY <1>1, <2>2 DEF Publish, PublishFails, Unpublish, UnpublishFails, Unstage, UnstageFails, UnstageUnknown,
                      UnmountAtManager, UnmountAtManagerFails, NoFault
  <2>3. CASE RecoverStep(t)
    BY <1>1, <2>3 DEF RecoverStep, RecoverNotNeeded, RecoverCollect, RecoverSkipLive, RecoverGoAhead, RecoverStop,
                      RecoverStopFails, RecoverGuard, RecoverAborts, RecoverTear, RecoverTorn, RecoverRebind,
                      RecoverStore, RetryStart, RetryPath, RetryReturn, UnmountAtManager, UnmountAtManagerFails, NoFault
  <2>4. CASE LoadAndReturn(t)
    BY <1>0, <1>2, <2>4 DEF LoadAndReturn, NoFault, GhostTypes
  <2>5. CASE Rebuild(t) \/ Staged(t)
    <3>1. staged' \in BOOLEAN /\ UNCHANGED <<wanted, deleted, faults, restarts>>
      BY <1>0, <2>5 DEF Rebuild, Staged, StoreVolume, GhostTypes, ghostVars
    <3> QED
      BY <1>0, <1>2, <3>1 DEF NoFault, GhostTypes
  <2>6. CASE RemoveAll(t)
    <3>1. deleted' \subseteq {"late", "other"} /\ UNCHANGED <<staged, wanted, faults, restarts>>
      BY <1>0, <2>6 DEF RemoveAll, GhostTypes
    <3> QED
      BY <1>0, <1>2, <3>1 DEF NoFault, GhostTypes
  <2>7. CASE Track(t) \/ Untrack(t) \/ UnpublishUnknown(t)
    <3>1. /\ wanted' \in [Paths -> {"no", "maybe", "yes"}] /\ UNCHANGED <<staged, deleted, restarts>>
          /\ Fault \/ NoFault
      BY <1>0, <2>7 DEF Track, Untrack, UnpublishUnknown, GhostTypes, NoFault
    <3> QED
      BY <1>0, <1>2, <3>1 DEF GhostTypes
  <2> QED
    BY <1>3, <2>1, <2>2, <2>3, <2>4, <2>5, <2>6, <2>7 DEF Step, StageStep, PublishStep
<1>4. ASSUME NEW t \in Tasks, NEW p, CallStage(t) \/ CallUnstage(t) \/ CallPublish(t, p) \/ CallUnpublish(t, p)
      PROVE  GhostTypes'
  <2>1. /\ staged' \in {staged, FALSE} /\ UNCHANGED <<deleted, faults, restarts>>
        /\ wanted' \in [Paths -> {"no", "maybe", "yes"}]
    BY <1>0, <1>4 DEF CallStage, CallUnstage, CallPublish, CallUnpublish, Call, GhostTypes
  <2> QED
    BY <1>0, <1>2, <2>1 DEF NoFault, GhostTypes
<1>5. ASSUME NEW t \in Tasks, Lock(t) \/ Sweep(t) \/ SweepVerdict(t) PROVE GhostTypes'
  BY <1>1, <1>5 DEF Lock, Sweep, SweepVerdict, NoFault
<1>6. CASE SessionFails \/ SessionEases \/ CacheExpires \/ SessionEnds \/ Reap \/ LateMount \/ LateUnmount
           \/ BackoffEnds \/ UNCHANGED vars
  BY <1>1, <1>6 DEF SessionFails, SessionEases, CacheExpires, SessionMoves, SessionEnds, Reap, LateMount, LateUnmount,
                    UnmountAtManager, BackoffEnds, vars, ghostVars, NoFault
<1>7. CASE Restart
  <2>1. faults' \in 0..MaxFaults
    BY <1>0, <1>7, Faults DEF Restart
  <2> QED
    BY <1>0, <1>7, <2>1 DEF Restart, GhostTypes, ghostVars
<1> QED
  BY <1>3, <1>4, <1>5, <1>6, <1>7 DEF Next, Environment, Tasks

(* The requests that were given up on.                                     *)
LEMMA LateStep ==
    ASSUME TypeInv, [Next]_vars
    PROVE  LateTypes'
<1>0. LateTypes /\ HostTypes'
  BY Parts, HostStep
<1>1. CASE UNCHANGED lateVars
  BY <1>0, <1>1 DEF LateTypes, lateVars
<1>2. CASE UnmountAtManagerFails
  BY <1>0, <1>2 DEF UnmountAtManagerFails, GivesUp, LateTypes
<1>3. ASSUME NEW t \in Tasks, Step(t) PROVE LateTypes'
  <2>1. CASE GetMutex(t) \/ Load(t) \/ LoadAndReturn(t) \/ Probe(t) \/ Rebuild(t) \/ UnmountStale(t) \/ CheckStale(t)
             \/ RefuseStale(t) \/ RemoveAll(t) \/ StageUnmount(t) \/ StageFails(t) \/ Staged(t) \/ QuotaFails(t)
    BY <1>1, <2>1 DEF GetMutex, Load, LoadAndReturn, Probe, Rebuild, UnmountStale, CheckStale, RefuseStale, RemoveAll,
                      StageUnmount, StageFails, Staged, QuotaFails
  <2>2. CASE Publish(t) \/ PublishFails(t) \/ Track(t) \/ Unpublish(t) \/ UnpublishFails(t) \/ Untrack(t)
             \/ UnpublishUnknown(t) \/ Unstage(t) \/ UnstageUnknown(t)
    BY <1>1, <2>2 DEF Publish, PublishFails, Track, Unpublish, UnpublishFails, Untrack, UnpublishUnknown, Unstage,
                      UnstageUnknown
  <2>3. CASE RecoverNotNeeded(t) \/ RecoverCollect(t) \/ RecoverSkipLive(t) \/ RecoverGoAhead(t) \/ RecoverStop(t)
             \/ RecoverGuard(t) \/ RecoverAborts(t) \/ RecoverTear(t) \/ RecoverTorn(t) \/ RecoverRebind(t)
             \/ RecoverStore(t) \/ RetryStart(t) \/ RetryPath(t) \/ RetryReturn(t)
    BY <1>1, <2>3 DEF RecoverNotNeeded, RecoverCollect, RecoverSkipLive, RecoverGoAhead, RecoverStop, RecoverGuard,
                      RecoverAborts, RecoverTear, RecoverTorn, RecoverRebind, RecoverStore, RetryStart, RetryPath,
                      RetryReturn
  <2>4. CASE Mount(t)
    BY <1>0, <2>4 DEF Mount, LateTypes
  <2>5. CASE MountFails(t)
    BY <1>0, <2>5 DEF MountFails, GivesUp, LateTypes
  <2>6. CASE UnstageFails(t) \/ RecoverStopFails(t)
    BY <1>1, <1>2, <2>6 DEF UnstageFails, RecoverStopFails
  <2> QED
    BY <1>3, <2>1, <2>2, <2>3, <2>4, <2>5, <2>6 DEF Step, StageStep, PublishStep, RecoverStep
<1>4. CASE LateMount \/ LateUnmount
  BY <1>0, <1>4 DEF LateMount, LateUnmount, LateTypes, HostTypes
<1>5. CASE SessionFails \/ SessionEases \/ CacheExpires \/ SessionEnds \/ Reap \/ Restart \/ BackoffEnds
           \/ UNCHANGED vars
  BY <1>1, <1>5 DEF SessionFails, SessionEases, CacheExpires, SessionMoves, SessionEnds, Reap, Restart, BackoffEnds,
                    vars, lateVars
<1>6. ASSUME NEW t \in Tasks, NEW p, CallStage(t) \/ CallUnstage(t) \/ CallPublish(t, p) \/ CallUnpublish(t, p)
                                     \/ Lock(t) \/ Sweep(t) \/ SweepVerdict(t)
      PROVE  LateTypes'
  BY <1>1, <1>6 DEF CallStage, CallUnstage, CallPublish, CallUnpublish, Call, Lock, Sweep, SweepVerdict
<1> QED
  BY <1>3, <1>4, <1>5, <1>6 DEF Next, Environment, Tasks

-----------------------------------------------------------------------------
NodeTypes == LockTypes /\ TaskTypes /\ VolumeTypes

(* The steps that only move a task on.                                     *)
LEMMA GotoSteps ==
    ASSUME TaskTypes, NEW t \in Tasks
    PROVE  /\ Probe(t) => Goto(t, "rebuild") \/ Goto(t, "unmountStale")
           /\ UnmountStale(t) => Goto(t, "checkStale")
           /\ CheckStale(t) => Goto(t, "removeAll") \/ Goto(t, "stage")
           /\ RemoveAll(t) => Goto(t, "stage")
           /\ StageUnmount(t) => Goto(t, "mount")
           /\ Mount(t) => Goto(t, "quota")
           /\ Unpublish(t) => Goto(t, "untrack")
           /\ RecoverGoAhead(t) => Goto(t, "stop") \/ Goto(t, "guard")
           /\ RecoverStop(t) => Goto(t, "guard")
           /\ RecoverGuard(t) => Goto(t, "unmountStale")
           /\ Lock(t) => Goto(t, "load")
BY DEF Probe, UnmountStale, CheckStale, RemoveAll, StageUnmount, Mount, Unpublish, RecoverGoAhead, RecoverStop,
       RecoverGuard, Lock

GotoStep(t) ==
    \/ Probe(t) \/ UnmountStale(t) \/ CheckStale(t) \/ RemoveAll(t) \/ StageUnmount(t) \/ Mount(t) \/ Unpublish(t)
    \/ RecoverGoAhead(t) \/ RecoverStop(t) \/ RecoverGuard(t) \/ Lock(t)

LEMMA GotoTypes ==
    ASSUME TaskTypes, NEW t \in Tasks, GotoStep(t)
    PROVE  TaskTypes'
<1>0. task[t] \in Locals /\ PlaceOK(t, task[t])
  BY DEF TaskTypes, PlaceInv
<1>1. ASSUME NEW x \in {"rebuild", "unmountStale", "checkStale", "removeAll", "stage", "mount", "quota", "untrack",
                        "stop", "guard", "load"}
      PROVE  LET l == [task[t] EXCEPT !.pc = x] IN
             l.pc = x /\ l.op = task[t].op /\ l.path = task[t].path /\ l.vol = task[t].vol /\ l.new = task[t].new
  BY <1>0 DEF Locals
<1>2. ASSUME NEW x, Goto(t, x), PlaceOK(t, [task[t] EXCEPT !.pc = x]),
             x \in {"rebuild", "unmountStale", "checkStale", "removeAll", "stage", "mount", "quota", "untrack",
                    "stop", "guard", "load"}
      PROVE  TaskTypes'
  BY <1>2, Goes DEF Begin, Rebuilding, Staging, KnownPlaces, Recovering, Retrying
<1>3. CASE Lock(t) \/ Unpublish(t)
  BY <1>0, <1>1, <1>2, <1>3, GotoSteps DEF Lock, Unpublish, At, PlaceOK, Begin, Rebuilding, Staging, KnownPlaces,
                                           Recovering, Retrying, Locals
<1>4. CASE Probe(t) \/ UnmountStale(t) \/ CheckStale(t)
  <2>1. task[t].pc \in {"probe", "unmountStale", "checkStale"}
    BY <1>4 DEF Probe, UnmountStale, CheckStale, At
  <2>2. \A x \in {"unmountStale", "checkStale", "removeAll", "stage"} : PlaceOK(t, [task[t] EXCEPT !.pc = x])
    BY <1>0, <1>1, <2>1 DEF PlaceOK, Begin, Rebuilding, Staging, KnownPlaces, Recovering, Retrying, Locals
  <2>3. task[t].pc = "probe" => PlaceOK(t, [task[t] EXCEPT !.pc = "rebuild"])
    BY <1>0, <1>1 DEF PlaceOK, Begin, Rebuilding, Staging, KnownPlaces, Recovering, Retrying, Locals
  <2> QED
    BY <1>2, <1>4, <2>2, <2>3, GotoSteps DEF Probe, At
<1>5. CASE RemoveAll(t) \/ StageUnmount(t) \/ Mount(t)
  <2>1. task[t].pc \in {"removeAll", "stage", "mount"}
    BY <1>5 DEF RemoveAll, StageUnmount, Mount, At
  <2>2. \A x \in {"stage", "mount", "quota"} : PlaceOK(t, [task[t] EXCEPT !.pc = x])
    BY <1>0, <1>1, <2>1 DEF PlaceOK, Begin, Rebuilding, Staging, KnownPlaces, Recovering, Retrying, Locals
  <2> QED
    BY <1>2, <1>5, <2>2, GotoSteps
<1>6. CASE RecoverGoAhead(t) \/ RecoverStop(t) \/ RecoverGuard(t)
  <2>1. task[t].pc \in {"decide", "stop", "guard"}
    BY <1>6 DEF RecoverGoAhead, RecoverStop, RecoverGuard, At
  <2>2. \A x \in {"stop", "guard", "unmountStale"} : PlaceOK(t, [task[t] EXCEPT !.pc = x])
    BY <1>0, <1>1, <2>1 DEF PlaceOK, Begin, Rebuilding, Staging, KnownPlaces, Recovering, Retrying, Locals
  <2> QED
    BY <1>2, <1>6, <2>2, GotoSteps
<1> QED
  BY <1>3, <1>4, <1>5, <1>6 DEF GotoStep

LEMMA ObjectTypes ==
    /\ NoVolume \in Objects
    /\ \A c \in BOOLEAN : [NoVolume EXCEPT !.context = c] \in Objects
    /\ [NoVolume EXCEPT !.unmounter = TRUE, !.context = TRUE] \in Objects
    /\ \A f \in SUBSET Paths : Restored(f) \in Objects
<1>1. NoVolume \in Objects
  BY DEF NoVolume, Objects
<1>2. \A r \in Objects, c \in BOOLEAN : [r EXCEPT !.context = c] \in Objects
  BY DEF Objects
<1>3. \A r \in Objects : [r EXCEPT !.unmounter = TRUE, !.context = TRUE] \in Objects
  BY DEF Objects
<1>4. \A f \in SUBSET Paths : Restored(f) \in Objects
  BY DEF Restored, Objects
<1> QED
  BY <1>1, <1>2, <1>3, <1>4

(* The stage steps that end the staging: a volume is stored or handed to   *)
(* the recovery.                                                           *)
LEMMA StoreTypes ==
    ASSUME NodeTypes, NEW t \in Tasks, task[t].pc \in {"rebuild", "quota"}, task[t].op # "recover",
           NEW o \in Vols, NEW obj \in Objects, StoreVolume(t, o, obj)
    PROVE  NodeTypes'
<1>0. task[t] \in Locals /\ PlaceOK(t, task[t]) /\ LockTypes /\ TaskTypes /\ VolumeTypes
  BY DEF NodeTypes, TaskTypes, PlaceInv
<1>1. volumes' = o /\ UNCHANGED <<mutexMap, throttled>>
  BY DEF StoreVolume
<1>2. [volObj EXCEPT ![o] = obj] \in [Vols -> Objects]
  BY <1>0 DEF VolumeTypes
<1>3. CASE task[t].op = "stage"
  <2>1. Finish(t, o, [volObj EXCEPT ![o] = obj])
    BY <1>3 DEF StoreVolume
  <2>2. TaskTypes' /\ holder' \in [Mutexes -> Tasks \cup {None}] /\ volObj' \in [Vols -> Objects]
    BY <1>0, <1>2, <2>1, Ends
  <2> QED
    BY <1>0, <1>1, <2>2 DEF NodeTypes, LockTypes, VolumeTypes
<1>4. CASE task[t].op # "stage"
  <2> DEFINE l == [task[t] EXCEPT !.vol = o, !.pc = "bind"]
  <2>1. l \in Locals /\ l.pc = "bind" /\ l.op = task[t].op /\ l.path = task[t].path /\ l.vol = o
    BY <1>0 DEF Locals
  <2>2. task[t].op = "publish"
    BY <1>0, <1>4 DEF PlaceOK, Locals, Begin, Rebuilding, Staging, Recovering, Retrying
  <2>3. task' = [task EXCEPT ![t] = l] /\ volObj' = [volObj EXCEPT ![o] = obj] /\ UNCHANGED holder
    BY <1>4 DEF StoreVolume
  <2> HIDE DEF l
  <2>4. PlaceOK(t, l)
    BY <1>0, <2>1, <2>2 DEF PlaceOK
  <2>5. TaskTypes'
    BY <1>0, <2>1, <2>3, <2>4, OneTask
  <2> QED
    BY <1>0, <1>1, <1>2, <2>3, <2>5 DEF NodeTypes, LockTypes, VolumeTypes
<1> QED
  BY <1>3, <1>4

LEMMA StageTypes ==
    ASSUME NodeTypes, NEW t \in Tasks, StageStep(t)
    PROVE  NodeTypes'
<1>0. task[t] \in Locals /\ PlaceOK(t, task[t]) /\ LockTypes /\ TaskTypes /\ VolumeTypes
  BY DEF NodeTypes, TaskTypes, PlaceInv
<1>1. CASE Probe(t) \/ UnmountStale(t) \/ CheckStale(t) \/ RemoveAll(t) \/ StageUnmount(t) \/ Mount(t)
  <2>1. TaskTypes'
    BY <1>0, <1>1, GotoTypes DEF GotoStep
  <2>2. UNCHANGED nodeVars
    BY <1>1 DEF Probe, UnmountStale, CheckStale, RemoveAll, StageUnmount, Mount
  <2> QED
    BY <1>0, <2>1, <2>2 DEF NodeTypes, LockTypes, VolumeTypes, nodeVars
<1>2. CASE RefuseStale(t) \/ StageFails(t) \/ MountFails(t) \/ QuotaFails(t)
  BY <1>0, <1>2, Returns DEF RefuseStale, StageFails, MountFails, QuotaFails, NodeTypes
<1>3. CASE Rebuild(t)
  <2>1. task[t].pc = "rebuild" /\ task[t].op # "recover"
    BY <1>0, <1>3 DEF Rebuild, At, PlaceOK, Begin, Recovering, Staging
  <2> QED
    BY <1>3, <2>1, StoreTypes, PickTypes, ObjectTypes, ContextAssumption DEF Rebuild
<1>4. CASE Staged(t)
  <2>1. task[t].pc = "quota" /\ Pick(FreshVols) \in Vols
    BY <1>4, PickTypes DEF Staged, At
  <2>2. CASE task[t].op # "recover"
    BY <1>4, <2>1, <2>2, StoreTypes, ObjectTypes DEF Staged
  <2>3. CASE task[t].op = "recover"
    <3> DEFINE o == Pick(FreshVols)
               obj == [NoVolume EXCEPT !.unmounter = TRUE, !.context = TRUE]
               l == [task[t] EXCEPT !.new = o, !.pc = "tear", !.left = task[t].pubs]
    <3> HIDE DEF o, obj
    <3>1. volObj' = [volObj EXCEPT ![o] = obj] /\ UNCHANGED <<lockVars, volumes, throttled>>
          /\ task' = [task EXCEPT ![t] = l]
      BY <1>4, <2>3 DEF Staged, o, obj
    <3>2. obj \in Objects /\ o \in Vols
      BY <2>1, ObjectTypes DEF o, obj
    <3>3. l \in Locals /\ l.pc = "tear" /\ l.op = "recover" /\ l.new = o /\ l.vol = task[t].vol
      BY <1>0, <2>3, <3>2 DEF Locals
    <3> HIDE DEF l
    <3>4. PlaceOK(t, l)
      BY <1>0, <2>1, <2>3, <3>2, <3>3 DEF PlaceOK, Staging, Recovering
    <3>5. TaskTypes'
      BY <1>0, <3>1, <3>3, <3>4, OneTask
    <3> QED
      BY <1>0, <3>1, <3>2, <3>5 DEF NodeTypes, LockTypes, VolumeTypes, lockVars
  <2> QED
    BY <2>2, <2>3
<1> QED
  BY <1>1, <1>2, <1>3, <1>4 DEF StageStep

LEMMA PathObjects ==
    ASSUME VolumeTypes, NEW o \in Vols, NEW p \in Paths
    PROVE  /\ [volObj EXCEPT ![o].paths = @ \cup {p}] \in [Vols -> Objects]
           /\ [volObj EXCEPT ![o].paths = @ \ {p}] \in [Vols -> Objects]
<1>1. \A r \in Objects : [r EXCEPT !.paths = @ \cup {p}] \in Objects /\ [r EXCEPT !.paths = @ \ {p}] \in Objects
  BY DEF Objects
<1> QED
  BY <1>1 DEF VolumeTypes

(* A step that ends a handler keeps the types of what it does not touch.   *)
LEMMA EndTypes ==
    ASSUME NodeTypes, NEW t \in Tasks, NEW current, NEW objs \in [Vols -> Objects], Finish(t, current, objs),
           mutexMap' \in Mutexes \cup {None}, volumes' \in Vols \cup {None}, throttled' \in BOOLEAN
    PROVE  NodeTypes'
<1>1. TaskTypes' /\ holder' \in [Mutexes -> Tasks \cup {None}] /\ volObj' \in [Vols -> Objects]
  BY Ends DEF NodeTypes
<1> QED
  BY <1>1 DEF NodeTypes, LockTypes, VolumeTypes

LEMMA ReturnTypes ==
    ASSUME NodeTypes, NEW t \in Tasks, Return(t)
    PROVE  NodeTypes'
BY Returns DEF NodeTypes

LEMMA PublishTypes ==
    ASSUME NodeTypes, NEW t \in Tasks, PublishStep(t)
    PROVE  NodeTypes'
<1>0. task[t] \in Locals /\ PlaceOK(t, task[t]) /\ LockTypes /\ TaskTypes /\ VolumeTypes
  BY DEF NodeTypes, TaskTypes, PlaceInv
<1>1. CASE Publish(t)
  <2>1. CASE Return(t)
    BY <2>1, ReturnTypes
  <2>2. CASE Goto(t, "track") /\ UNCHANGED nodeVars
    <3>1. [task[t] EXCEPT !.pc = "track"].pc = "track" /\ task[t].pc = "bind"
          /\ \A x \in {"op", "path", "vol", "new"} : [task[t] EXCEPT !.pc = "track"][x] = task[t][x]
      BY <1>0, <1>1 DEF Locals, Publish, At
    <3>2. PlaceOK(t, [task[t] EXCEPT !.pc = "track"])
      BY <1>0, <3>1 DEF PlaceOK, Locals, Begin, Rebuilding, Staging, KnownPlaces, Recovering, Retrying
    <3>3. TaskTypes'
      BY <1>0, <2>2, <3>2, Goes DEF KnownPlaces
    <3> QED
      BY <1>0, <2>2, <3>3 DEF NodeTypes, LockTypes, VolumeTypes, nodeVars
  <2> QED
    BY <1>1, <2>1, <2>2 DEF Publish
<1>2. CASE PublishFails(t) \/ UnpublishFails(t) \/ UnpublishUnknown(t) \/ UnstageFails(t)
  BY <1>2, ReturnTypes DEF PublishFails, UnpublishFails, UnpublishUnknown, UnstageFails
<1>3. CASE Unpublish(t)
  <2>1. TaskTypes' /\ UNCHANGED nodeVars
    BY <1>0, <1>3, GotoTypes DEF GotoStep, Unpublish
  <2> QED
    BY <1>0, <2>1 DEF NodeTypes, LockTypes, VolumeTypes, nodeVars
<1>4. CASE Track(t) \/ Untrack(t)
  <2>1. task[t].pc \in {"track", "untrack"}
    BY <1>4 DEF Track, Untrack, At
  <2>2. task[t].path \in Paths /\ task[t].vol \in Vols
    BY <1>0, <2>1 DEF PlaceOK, Locals, Begin, Rebuilding, Staging, KnownPlaces, Recovering, Retrying
  <2>3. PICK objs \in [Vols -> Objects] : Finish(t, volumes, objs)
    BY <1>0, <1>4, <2>2, PathObjects DEF Track, Untrack
  <2>4. UNCHANGED <<mutexMap, volumes, throttled>>
    BY <1>4 DEF Track, Untrack
  <2> QED
    BY <1>0, <2>3, <2>4, EndTypes DEF LockTypes, VolumeTypes
<1>5. ASSUME NEW current \in Vols \cup {None}, Forget(t, current) PROVE NodeTypes'
  BY <1>0, <1>5, EndTypes DEF Forget, VolumeTypes
<1>6. CASE Unstage(t)
  BY <1>5, <1>6, ReturnTypes DEF Unstage
<1>7. CASE UnstageUnknown(t)
  BY <1>0, <1>5, <1>7 DEF UnstageUnknown, VolumeTypes
<1> QED
  BY <1>1, <1>2, <1>3, <1>4, <1>6, <1>7 DEF PublishStep

(* The steps of the recovery that change the task's locals.                *)
LEMMA LocalTypes ==
    ASSUME TaskTypes, NEW t \in Tasks, NEW S \in SUBSET Paths
    PROVE  /\ task[t].pc = "recheck" => [task[t] EXCEPT !.pubs = S, !.pc = "decide"] \in Locals
                                        /\ PlaceOK(t, [task[t] EXCEPT !.pubs = S, !.pc = "decide"])
           /\ task[t].pc = "tear" => [task[t] EXCEPT !.pc = "rebind", !.left = S] \in Locals
                                     /\ PlaceOK(t, [task[t] EXCEPT !.pc = "rebind", !.left = S])
           /\ task[t].pc = "retryCheck" => [task[t] EXCEPT !.pc = "retry", !.left = S] \in Locals
                                           /\ PlaceOK(t, [task[t] EXCEPT !.pc = "retry", !.left = S])
           /\ [task[t] EXCEPT !.left = S] \in Locals /\ PlaceOK(t, [task[t] EXCEPT !.left = S])
<1>0. task[t] \in Locals /\ PlaceOK(t, task[t])
  BY DEF TaskTypes, PlaceInv
<1>1. ASSUME task[t].pc = "recheck"
      PROVE  /\ [task[t] EXCEPT !.pubs = S, !.pc = "decide"] \in Locals
             /\ PlaceOK(t, [task[t] EXCEPT !.pubs = S, !.pc = "decide"])
  <2> DEFINE l == [task[t] EXCEPT !.pubs = S, !.pc = "decide"]
  <2>1. l \in Locals /\ l.pc = "decide" /\ l.op = task[t].op /\ l.path = task[t].path /\ l.vol = task[t].vol
        /\ l.new = task[t].new
    BY <1>0 DEF Locals
  <2> HIDE DEF l
  <2>2. PlaceOK(t, l)
    BY <1>0, <1>1, <2>1 DEF PlaceOK, Locals, Begin, Rebuilding, Staging, KnownPlaces, Recovering, Retrying
  <2> QED
    BY <2>1, <2>2 DEF l
<1>2. ASSUME task[t].pc = "tear"
      PROVE  /\ [task[t] EXCEPT !.pc = "rebind", !.left = S] \in Locals
             /\ PlaceOK(t, [task[t] EXCEPT !.pc = "rebind", !.left = S])
  <2> DEFINE l == [task[t] EXCEPT !.pc = "rebind", !.left = S]
  <2>1. l \in Locals /\ l.pc = "rebind" /\ l.op = task[t].op /\ l.path = task[t].path /\ l.vol = task[t].vol
        /\ l.new = task[t].new
    BY <1>0 DEF Locals
  <2> HIDE DEF l
  <2>2. PlaceOK(t, l)
    BY <1>0, <1>2, <2>1 DEF PlaceOK, Locals, Begin, Rebuilding, Staging, KnownPlaces, Recovering, Retrying
  <2> QED
    BY <2>1, <2>2 DEF l
<1>3. ASSUME task[t].pc = "retryCheck"
      PROVE  /\ [task[t] EXCEPT !.pc = "retry", !.left = S] \in Locals
             /\ PlaceOK(t, [task[t] EXCEPT !.pc = "retry", !.left = S])
  <2> DEFINE l == [task[t] EXCEPT !.pc = "retry", !.left = S]
  <2>1. l \in Locals /\ l.pc = "retry" /\ l.op = task[t].op /\ l.path = task[t].path /\ l.vol = task[t].vol
        /\ l.new = task[t].new
    BY <1>0 DEF Locals
  <2> HIDE DEF l
  <2>2. PlaceOK(t, l)
    BY <1>0, <1>3, <2>1 DEF PlaceOK, Locals, Begin, Rebuilding, Staging, KnownPlaces, Recovering, Retrying
  <2> QED
    BY <2>1, <2>2 DEF l
<1>4. [task[t] EXCEPT !.left = S] \in Locals /\ PlaceOK(t, [task[t] EXCEPT !.left = S])
  <2> DEFINE l == [task[t] EXCEPT !.left = S]
  <2>1. l \in Locals /\ l.pc = task[t].pc /\ l.op = task[t].op /\ l.path = task[t].path /\ l.vol = task[t].vol
        /\ l.new = task[t].new
    BY <1>0 DEF Locals
  <2> HIDE DEF l
  <2>2. PlaceOK(t, l)
    BY <1>0, <2>1 DEF PlaceOK
  <2> QED
    BY <2>1, <2>2 DEF l
<1> QED
  BY <1>1, <1>2, <1>3, <1>4

LEMMA RecoverTypes ==
    ASSUME NodeTypes, NEW t \in Tasks, RecoverStep(t)
    PROVE  NodeTypes'
<1>0. task[t] \in Locals /\ PlaceOK(t, task[t]) /\ LockTypes /\ TaskTypes /\ VolumeTypes
  BY DEF NodeTypes, TaskTypes, PlaceInv
<1>1. ASSUME TaskTypes', UNCHANGED nodeVars PROVE NodeTypes'
  BY <1>0, <1>1 DEF NodeTypes, LockTypes, VolumeTypes, nodeVars
<1>2. task[t].left \in SUBSET Paths /\ task[t].pubs \in SUBSET Paths
  BY <1>0 DEF Locals
<1>3. task[t].vol \in Vols => VolOf(t).paths \in SUBSET Paths
  BY <1>0 DEF VolOf, VolumeTypes, Objects
<1>4. CASE RecoverNotNeeded(t) \/ RecoverSkipLive(t)
  <2>1. Finish(t, volumes, volObj) /\ UNCHANGED <<mutexMap, volumes>>
    BY <1>4 DEF RecoverNotNeeded, RecoverSkipLive
  <2>2. throttled' \in BOOLEAN
    BY <1>4 DEF RecoverNotNeeded, RecoverSkipLive
  <2> QED
    BY <1>0, <2>1, <2>2, EndTypes DEF LockTypes, VolumeTypes
<1>5. CASE RecoverStopFails(t) \/ RecoverAborts(t) \/ RetryReturn(t)
  BY <1>5, ReturnTypes DEF RecoverStopFails, RecoverAborts, RetryReturn
<1>6. CASE RecoverGoAhead(t)
  <2>1. TaskTypes' /\ throttled' = TRUE /\ UNCHANGED <<mutexMap, holder, volumes, volObj>>
    BY <1>0, <1>6, GotoTypes DEF GotoStep, RecoverGoAhead, lockVars
  <2> QED
    BY <1>0, <2>1 DEF NodeTypes, LockTypes, VolumeTypes
<1>7. CASE RecoverStop(t) \/ RecoverGuard(t)
  BY <1>0, <1>1, <1>7, GotoTypes DEF GotoStep, RecoverStop, RecoverGuard
<1>8. CASE RecoverCollect(t)
  <2>1. task[t].pc = "recheck" /\ UNCHANGED nodeVars
        /\ task' = [task EXCEPT ![t] = [task[t] EXCEPT !.pubs = VolOf(t).paths, !.pc = "decide"]]
    BY <1>8 DEF RecoverCollect, At
  <2>2. task[t].vol \in Vols
    BY <1>0, <2>1 DEF PlaceOK, KnownPlaces, Recovering
  <2> QED
    BY <1>0, <1>1, <1>3, <2>1, <2>2, LocalTypes, OneTask
<1>9. CASE RecoverTorn(t)
  <2>1. task[t].pc = "tear" /\ UNCHANGED nodeVars
        /\ task' = [task EXCEPT ![t] = [task[t] EXCEPT !.pc = "rebind", !.left = task[t].pubs]]
    BY <1>9 DEF RecoverTorn, At
  <2> QED
    BY <1>0, <1>1, <1>2, <2>1, LocalTypes, OneTask
<1>10. CASE RetryStart(t)
  <2>1. task[t].pc = "retryCheck" /\ UNCHANGED nodeVars
        /\ task' = [task EXCEPT ![t] = [task[t] EXCEPT !.pc = "retry", !.left = VolOf(t).paths]]
    BY <1>10 DEF RetryStart, At
  <2>2. task[t].vol \in Vols
    BY <1>0, <2>1 DEF PlaceOK, KnownPlaces, Retrying
  <2> QED
    BY <1>0, <1>1, <1>3, <2>1, <2>2, LocalTypes, OneTask
<1>11. CASE RetryPath(t)
  <2>1. UNCHANGED nodeVars
    BY <1>11 DEF RetryPath
  <2>2. PICK p : task' = [task EXCEPT ![t] = [task[t] EXCEPT !.left = task[t].left \ {p}]]
    BY <1>11 DEF RetryPath
  <2>3. task[t].left \ {p} \in SUBSET Paths
    BY <1>2
  <2> QED
    BY <1>0, <1>1, <2>1, <2>2, <2>3, LocalTypes, OneTask
<1>12. CASE RecoverTear(t)
  <2>1. UNCHANGED nodeVars
    BY <1>12 DEF RecoverTear
  <2>2. PICK p \in task[t].left :
            \/ task' = [task EXCEPT ![t] = [task[t] EXCEPT !.left = task[t].left \ {p}, !.torn = task[t].torn \cup {p}]]
            \/ task' = [task EXCEPT ![t] = [task[t] EXCEPT !.left = task[t].left \ {p}]]
    BY <1>12 DEF RecoverTear
  <2>3. task[t].left \ {p} \in SUBSET Paths /\ task[t].torn \cup {p} \in SUBSET Paths
    BY <1>0, <1>2 DEF Locals
  <2> DEFINE l == [task[t] EXCEPT !.left = task[t].left \ {p}, !.torn = task[t].torn \cup {p}]
  <2>4. l \in Locals /\ l.pc = task[t].pc /\ l.op = task[t].op /\ l.path = task[t].path /\ l.vol = task[t].vol
        /\ l.new = task[t].new
    BY <1>0, <2>3 DEF Locals
  <2> HIDE DEF l
  <2>5. PlaceOK(t, l)
    BY <1>0, <2>4 DEF PlaceOK
  <2>6. TaskTypes'
    <3>1. CASE task' = [task EXCEPT ![t] = l]
      BY <1>0, <2>4, <2>5, <3>1, OneTask
    <3>2. CASE task' = [task EXCEPT ![t] = [task[t] EXCEPT !.left = task[t].left \ {p}]]
      BY <1>0, <2>3, <3>2, LocalTypes, OneTask
    <3> QED
      BY <2>2, <3>1, <3>2 DEF l
  <2> QED
    BY <1>1, <2>1, <2>6
<1>13. CASE RecoverRebind(t)
  <2>1. PICK p \in task[t].left : /\ task' = [task EXCEPT ![t] = [task[t] EXCEPT !.left = task[t].left \ {p}]]
                                  /\ volObj' = [volObj EXCEPT ![task[t].new].paths = @ \cup {p}]
    BY <1>13 DEF RecoverRebind
  <2>2. task[t].new \in Vols /\ p \in Paths
    BY <1>0, <1>2, <1>13 DEF RecoverRebind, At, PlaceOK
  <2>3. volObj' \in [Vols -> Objects]
    BY <1>0, <2>1, <2>2, PathObjects
  <2>4. task[t].left \ {p} \in SUBSET Paths
    BY <1>2
  <2>5. TaskTypes'
    BY <1>0, <2>1, <2>4, LocalTypes, OneTask
  <2>6. UNCHANGED <<mutexMap, holder, volumes, throttled>>
    BY <1>13 DEF RecoverRebind, lockVars
  <2> QED
    BY <1>0, <2>3, <2>5, <2>6 DEF NodeTypes, LockTypes, VolumeTypes
<1>14. CASE RecoverStore(t)
  <2>1. Finish(t, task[t].new, volObj) /\ volumes' = task[t].new /\ UNCHANGED <<mutexMap, throttled>>
    BY <1>14 DEF RecoverStore
  <2>2. task[t].new \in Vols
    BY <1>0, <1>14 DEF RecoverStore, At, PlaceOK
  <2> QED
    BY <1>0, <2>1, <2>2, EndTypes DEF LockTypes, VolumeTypes
<1> QED
  BY <1>4, <1>5, <1>6, <1>7, <1>8, <1>9, <1>10, <1>11, <1>12, <1>13, <1>14 DEF RecoverStep

(* The calls, the lock, the look-up and the sweeps.                        *)
LEMMA BeginTypes ==
    ASSUME NodeTypes, NEW t \in Tasks, GetMutex(t) \/ Lock(t) \/ Load(t) \/ LoadAndReturn(t)
    PROVE  NodeTypes'
<1>0. task[t] \in Locals /\ PlaceOK(t, task[t]) /\ LockTypes /\ TaskTypes /\ VolumeTypes
  BY DEF NodeTypes, TaskTypes, PlaceInv
<1>1. CASE GetMutex(t)
  <2>1. mutexMap' \in Mutexes
    BY <1>0, <1>1, PickTypes DEF GetMutex, LockTypes
  <2> DEFINE l == [task[t] EXCEPT !.mutex = mutexMap', !.pc = "lock"]
  <2>2. l \in Locals /\ l.pc = "lock" /\ l.op = task[t].op /\ l.path = task[t].path /\ l.vol = task[t].vol
        /\ l.new = task[t].new
    BY <1>0, <2>1 DEF Locals
  <2>3. task' = [task EXCEPT ![t] = l] /\ UNCHANGED <<holder, volumes, volObj, throttled>> /\ task[t].pc = "getMutex"
    BY <1>1 DEF GetMutex, At
  <2> HIDE DEF l
  <2>4. PlaceOK(t, l)
    BY <1>0, <2>2, <2>3 DEF PlaceOK, Locals, Begin, Rebuilding, Staging, KnownPlaces, Recovering, Retrying
  <2>5. TaskTypes'
    BY <1>0, <2>2, <2>3, <2>4, OneTask
  <2> QED
    BY <1>0, <2>1, <2>3, <2>5 DEF NodeTypes, LockTypes, VolumeTypes
<1>2. CASE Lock(t)
  <2>1. TaskTypes' /\ UNCHANGED <<mutexMap, volumes, volObj, throttled>>
    BY <1>0, <1>2, GotoTypes DEF GotoStep, Lock
  <2>2. holder' \in [Mutexes -> Tasks \cup {None}]
    BY <1>0, <1>2 DEF Lock, LockTypes
  <2> QED
    BY <1>0, <2>1, <2>2 DEF NodeTypes, LockTypes, VolumeTypes
<1>3. CASE Load(t)
  <2> DEFINE x == AfterLoad[task[t].op]
             l == [task[t] EXCEPT !.vol = volumes, !.pc = x]
  <2>1. task' = [task EXCEPT ![t] = l] /\ UNCHANGED nodeVars /\ task[t].pc = "load" /\ task[t].op \in DOMAIN AfterLoad
    BY <1>3 DEF Load, At
  <2>2. \/ volumes \in Vols /\ \/ task[t].op = "publish" /\ x = "bind"
                               \/ task[t].op = "unpublish" /\ x = "unbind"
                               \/ task[t].op = "unstage" /\ x = "unstage"
                               \/ task[t].op = "recover" /\ x = "recheck"
                               \/ task[t].op = "retry" /\ x = "retryCheck"
        \/ volumes = None /\ \/ task[t].op \in {"stage", "publish"} /\ x = "probe"
                             \/ task[t].op = "unpublish" /\ x = "unbindUnknown"
                             \/ task[t].op = "unstage" /\ x = "unstageUnknown"
    BY <1>0, <2>1 DEF AfterLoad, Known, Unknown, VolumeTypes
  <2> HIDE DEF x
  <2>6. x \in {"bind", "unbind", "unstage", "recheck", "retryCheck", "probe", "unbindUnknown", "unstageUnknown"}
    BY <2>2
  <2>7. volumes \in Vols \cup {None}
    BY <1>0 DEF VolumeTypes
  <2>8. l \in Locals
    BY <1>0, <2>6, <2>7 DEF Locals
  <2>3. l \in Locals /\ l.pc = x /\ l.op = task[t].op /\ l.path = task[t].path /\ l.vol = volumes /\ l.new = task[t].new
    BY <1>0, <2>8 DEF Locals
  <2> HIDE DEF l
  <2>4. PlaceOK(t, l)
    BY <1>0, <2>1, <2>2, <2>3 DEF PlaceOK, Locals, Begin, Rebuilding, Staging, KnownPlaces, Recovering, Retrying
  <2>5. TaskTypes'
    BY <1>0, <2>1, <2>3, <2>4, OneTask
  <2> QED
    BY <1>0, <2>1, <2>5 DEF NodeTypes, LockTypes, VolumeTypes, nodeVars
<1>4. CASE LoadAndReturn(t)
  BY <1>4, ReturnTypes DEF LoadAndReturn
<1> QED
  BY <1>1, <1>2, <1>3, <1>4

LEMMA SweepTypes ==
    ASSUME NodeTypes, NEW t \in Monitors, Sweep(t) \/ SweepVerdict(t)
    PROVE  NodeTypes'
<1>0. t \in Tasks /\ task[t] \in Locals /\ PlaceOK(t, task[t]) /\ LockTypes /\ TaskTypes /\ VolumeTypes
  BY DEF NodeTypes, TaskTypes, PlaceInv, Tasks
<1>1. CASE Sweep(t)
  <2> DEFINE l == [task[t] EXCEPT !.pc = "sweep", !.vol = volumes]
  <2>1. task' = [task EXCEPT ![t] = l] /\ UNCHANGED nodeVars /\ task[t].pc = "idle" /\ volumes \in Vols
    BY <1>0, <1>1 DEF Sweep, At, VolumeTypes
  <2>2. l \in Locals /\ l.pc = "sweep" /\ l.op = task[t].op /\ l.path = task[t].path /\ l.vol = volumes
        /\ l.new = task[t].new
    BY <1>0, <2>1 DEF Locals
  <2> HIDE DEF l
  <2>3. task[t].op = "none"
    BY <1>0, <2>1 DEF PlaceOK, Locals, Begin, Rebuilding, Staging, Recovering, Retrying
  <2>4. PlaceOK(t, l)
    BY <1>0, <2>1, <2>2, <2>3 DEF PlaceOK
  <2>5. TaskTypes'
    BY <1>0, <2>1, <2>2, <2>4, OneTask
  <2> QED
    BY <1>0, <2>1, <2>5 DEF NodeTypes, LockTypes, VolumeTypes, nodeVars
<1>2. CASE SweepVerdict(t)
  <2>1. \A x \in {"retry", "recover"} : LET l == [Idle EXCEPT !.pc = "getMutex", !.op = x] IN
            l \in Locals /\ l.pc = "getMutex" /\ l.op = x
    BY IdleLocals DEF Idle, Locals
  <2>2. \A x \in {"retry", "recover"} : PlaceOK(t, [Idle EXCEPT !.pc = "getMutex", !.op = x])
    BY <2>1 DEF PlaceOK, Begin, Rebuilding, Staging, KnownPlaces, Recovering, Retrying
  <2>3. PICK l : /\ task' = [task EXCEPT ![t] = l]
                 /\ l = Idle \/ \E x \in {"retry", "recover"} : l = [Idle EXCEPT !.pc = "getMutex", !.op = x]
    BY <1>2 DEF SweepVerdict
  <2>4. TaskTypes'
    BY <1>0, <2>1, <2>2, <2>3, IdleLocals, OneTask
  <2>5. throttled' \in BOOLEAN /\ UNCHANGED <<mutexMap, holder, volumes>>
    BY <1>2 DEF SweepVerdict, lockVars
  <2>6. volObj' \in [Vols -> Objects]
    BY <1>0, <1>2, ObjectTypes DEF SweepVerdict, VolumeTypes
  <2> QED
    BY <1>0, <2>4, <2>5, <2>6 DEF NodeTypes, LockTypes, VolumeTypes
<1> QED
  BY <1>1, <1>2

LEMMA CallTypes ==
    ASSUME NodeTypes, NEW t \in Rpcs, NEW o \in {"stage", "publish", "unpublish", "unstage"}, NEW p \in Paths \cup {None},
           o \in {"publish", "unpublish"} => p \in Paths, Call(t, o, p)
    PROVE  NodeTypes'
<1>0. t \in Tasks /\ TaskTypes
  BY DEF NodeTypes, Tasks
<1> DEFINE l == [Idle EXCEPT !.pc = "getMutex", !.op = o, !.path = p]
<1>1. l \in Locals /\ l.pc = "getMutex" /\ l.op = o /\ l.path = p
  BY IdleLocals DEF Idle, Locals
<1>2. task' = [task EXCEPT ![t] = l] /\ UNCHANGED nodeVars /\ o \in Calls
  BY DEF Call
<1> HIDE DEF l
<1>3. PlaceOK(t, l)
  BY <1>1, <1>2 DEF PlaceOK, Begin, Rebuilding, Staging, KnownPlaces, Recovering, Retrying
<1>4. TaskTypes'
  BY <1>0, <1>1, <1>2, <1>3, OneTask
<1> QED
  BY <1>2, <1>4 DEF NodeTypes, LockTypes, VolumeTypes, nodeVars

LEMMA TypeStep ==
    ASSUME TypeInv, [Next]_vars
    PROVE  TypeInv'
<1>0. NodeTypes /\ HostTypes' /\ GhostTypes' /\ LateTypes'
  BY Parts, HostStep, GhostStep, LateStep DEF NodeTypes
<1> SUFFICES NodeTypes'
  BY <1>0 DEF NodeTypes, TypeInv, TypeOK, LockTypes, TaskTypes, VolumeTypes, HostTypes, GhostTypes, LateTypes
<1>1. ASSUME TaskTypes', UNCHANGED nodeVars PROVE NodeTypes'
  BY <1>0, <1>1 DEF NodeTypes, LockTypes, VolumeTypes, nodeVars
<1>2. ASSUME UNCHANGED task PROVE TaskTypes'
  BY <1>0, <1>2 DEF NodeTypes, TaskTypes, PlaceInv
<1>3. ASSUME NEW t \in Rpcs, CallStage(t) \/ CallUnstage(t) PROVE NodeTypes'
  BY <1>0, <1>3, CallTypes DEF CallStage, CallUnstage
<1>4. ASSUME NEW t \in Rpcs, NEW p \in Paths, CallPublish(t, p) \/ CallUnpublish(t, p) PROVE NodeTypes'
  BY <1>0, <1>4, CallTypes DEF CallPublish, CallUnpublish
<1>5. ASSUME NEW t \in Tasks, Lock(t) \/ Step(t) PROVE NodeTypes'
  BY <1>0, <1>5, BeginTypes, StageTypes, PublishTypes, RecoverTypes DEF Step
<1>6. CASE BackoffEnds
  <2>1. throttled' = FALSE /\ UNCHANGED <<mutexMap, holder, task, volumes, volObj>>
    BY <1>6 DEF BackoffEnds, lockVars
  <2> QED
    BY <1>0, <1>2, <2>1 DEF NodeTypes, LockTypes, VolumeTypes
<1>7. CASE SessionFails \/ SessionEases \/ CacheExpires \/ SessionEnds \/ Reap \/ LateMount \/ LateUnmount
           \/ UNCHANGED vars
  BY <1>1, <1>2, <1>7 DEF SessionFails, SessionEases, CacheExpires, SessionMoves, SessionEnds, Reap, LateMount,
                          LateUnmount, vars, nodeVars
<1>8. CASE Restart
  <2>1. LockTypes' /\ throttled' = FALSE
    BY <1>8 DEF Restart, LockTypes
  <2>2. TaskTypes'
    BY <1>8, IdleLocals DEF Restart, TaskTypes, PlaceInv
  <2>3. volumes' \in Vols \cup {None}
    BY <1>8, PickTypes DEF Restart
  <2>4. RestoredPaths \in SUBSET Paths
    BY DEF RestoredPaths
  <2>5. volObj' \in [Vols -> Objects]
    BY <1>8, <2>4, ObjectTypes DEF Restart
  <2> QED
    BY <2>1, <2>2, <2>3, <2>5 DEF NodeTypes, VolumeTypes
<1> QED
  BY <1>0, <1>3, <1>4, <1>5, <1>6, <1>7, <1>8, SweepTypes DEF Next, Environment

LEMMA TypeInit == Init => TypeInv
<1> SUFFICES ASSUME Init PROVE TypeInv
  OBVIOUS
<1>1. LockTypes /\ VolumeTypes
  BY ObjectTypes DEF Init, LockTypes, VolumeTypes
<1>3. HostTypes
  BY DEF Init, HostTypes
<1>4. faults \in 0..MaxFaults /\ restarts \in 0..MaxRestarts
  BY BoundsAssumption DEF Init
<1>5. staged \in BOOLEAN /\ deleted \subseteq {"late", "other"} /\ LateTypes
  BY DEF Init, LateTypes
<1>6. wanted \in [Paths -> {"no", "maybe", "yes"}]
  BY DEF Init
<1>2. TaskTypes
  BY IdleLocals DEF Init, TaskTypes, PlaceInv
<1> QED
  BY <1>1, <1>2, <1>3, <1>4, <1>5, <1>6, Parts DEF GhostTypes

(* The maps, the objects and the locals of every handler have their types, *)
(* whatever the calls, however many of them run at once, through faults    *)
(* and restarts: a publish path is recorded only as a target path, and a   *)
(* recovery always has the volume objects it replaces and builds.          *)
THEOREM TypeCorrect == Spec => []TypeOK
<1>1. TypeInv => TypeOK
  BY DEF TypeInv
<1> QED
  BY <1>1, TypeInit, TypeStep, PTL DEF Spec

-----------------------------------------------------------------------------
(* All who wait for the volume's mutex or hold it have the same object,    *)
(* the one in the map: it is thrown away only by a call that found no      *)
(* volume, and then there is no monitor.                                   *)
HasMutex(t) == task[t].pc \notin {"idle", "sweep", "getMutex"}

UnknownPlaces == Rebuilding \cup Staging \cup {"unbindUnknown", "unstageUnknown"}

MutexInv ==
    /\ \A t \in Tasks : HasMutex(t) => mutexMap \in Mutexes /\ task[t].mutex = mutexMap
    /\ \A t \in Tasks : InCriticalSection(t) => holder[mutexMap] = t
    /\ \A t \in Monitors : task[t].pc # "idle" => volumes # None
    /\ \A t \in Rpcs : task[t].pc \in UnknownPlaces => volumes = None

(* The monitor is out while an unstage runs.                               *)
UnstageAlone == \A r \in Rpcs, m \in Monitors : task[r].op = "unstage" => task[m].pc = "idle"

(* What the path checks found is still so when it is used, but for what a  *)
(* request that was given up on has mounted since.                         *)
RemovalInv == \A t \in Tasks : task[t].pc = "removeAll" => staging = None \/ staging = stray

SafeInv == Kubelet /\ TypeInv /\ MutexInv /\ UnstageAlone /\ RemovalInv /\ OnlyLateDeletion

LEMMA OneInside == MutexInv => VolumeSerialized
BY DEF MutexInv, VolumeSerialized

(* What a step of one task does to the mutex: the task goes on inside, it  *)
(* leaves and unlocks, or it leaves and throws the mutex away.             *)
Others(t) == \A u \in Tasks : u # t => task'[u] = task[u]

StaysIn(t) ==
    /\ Others(t) /\ InCriticalSection(t) /\ InCriticalSection(t)'
    /\ task'[t].mutex = task[t].mutex /\ task'[t].op = task[t].op /\ UNCHANGED lockVars
    /\ volumes' = volumes \/ (t \in Rpcs /\ volumes' \in Vols)
    /\ t \in Rpcs /\ task'[t].pc \in UnknownPlaces => volumes' = None

Leaves(t) ==
    /\ Others(t) /\ InCriticalSection(t) /\ task'[t] = Idle
    /\ holder' = [holder EXCEPT ![task[t].mutex] = None] /\ UNCHANGED mutexMap
    /\ volumes' = volumes \/ volumes' \in Vols

Discards(t) ==
    /\ Others(t) /\ InCriticalSection(t) /\ task'[t] = Idle
    /\ \A u \in Tasks : u # t => task[u].pc = "idle"

LEMMA StaysInMutex ==
    ASSUME Kubelet, TypeInv, MutexInv, NEW t \in Tasks, StaysIn(t)
    PROVE  MutexInv'
<1>1. task[t].mutex = mutexMap /\ mutexMap \in Mutexes /\ holder[mutexMap] = t
  BY DEF MutexInv, StaysIn, HasMutex, InCriticalSection
<1>2. mutexMap' = mutexMap /\ holder' = holder
  BY DEF StaysIn, lockVars
<1>3. (\A u \in Tasks : HasMutex(u) => mutexMap \in Mutexes /\ task[u].mutex = mutexMap)'
  BY <1>1, <1>2 DEF MutexInv, StaysIn, Others, HasMutex
<1>4. (\A u \in Tasks : InCriticalSection(u) => holder[mutexMap] = u)'
  BY <1>1, <1>2 DEF MutexInv, StaysIn, Others, InCriticalSection
<1>5. (\A u \in Monitors : task[u].pc # "idle" => volumes # None)'
  <2> SUFFICES ASSUME NEW u \in Monitors, task'[u].pc # "idle" PROVE volumes' # None
    OBVIOUS
  <2>1. CASE u = t
    BY <2>1, MonitorsAssumption, NamesAssumption DEF MutexInv, StaysIn, InCriticalSection, Tasks
  <2>2. CASE u # t
    BY <2>2, NamesAssumption DEF MutexInv, StaysIn, Others, Tasks
  <2> QED
    BY <2>1, <2>2
<1>6. (\A u \in Rpcs : task[u].pc \in UnknownPlaces => volumes = None)'
  <2> SUFFICES ASSUME NEW u \in Rpcs, task'[u].pc \in UnknownPlaces PROVE volumes' = None
    OBVIOUS
  <2>1. CASE u = t
    BY <2>1 DEF StaysIn
  <2>2. CASE u # t
    BY <2>2 DEF MutexInv, StaysIn, Others, Tasks, Kubelet, OneCallAtATime
  <2> QED
    BY <2>1, <2>2
<1> QED
  BY <1>3, <1>4, <1>5, <1>6 DEF MutexInv

LEMMA LeavesMutex ==
    ASSUME Kubelet, TypeInv, MutexInv, NEW t \in Tasks, Leaves(t)
    PROVE  MutexInv'
<1>1. task[t].mutex = mutexMap /\ mutexMap \in Mutexes /\ holder[mutexMap] = t
  BY DEF MutexInv, Leaves, HasMutex, InCriticalSection
<1>2. \A u \in Tasks : u # t => ~InCriticalSection(u) /\ ~InCriticalSection(u)'
  BY OneInside DEF Leaves, Others, VolumeSerialized, InCriticalSection
<1>3. task'[t].pc = "idle" /\ mutexMap' = mutexMap
  BY DEF Leaves, Idle
<1>4. (\A u \in Tasks : HasMutex(u) => mutexMap \in Mutexes /\ task[u].mutex = mutexMap)'
  BY <1>1, <1>3 DEF MutexInv, Leaves, Others, HasMutex
<1>5. (\A u \in Tasks : InCriticalSection(u) => holder[mutexMap] = u)'
  BY <1>2, <1>3 DEF InCriticalSection
<1>6. (\A u \in Monitors : task[u].pc # "idle" => volumes # None)'
  BY <1>3, NamesAssumption DEF MutexInv, Leaves, Others, Tasks
<1>7. (\A u \in Rpcs : task[u].pc \in UnknownPlaces => volumes = None)'
  <2>1. \A u \in Rpcs : u # t => ~(task'[u].pc \in UnknownPlaces)
    BY <1>2 DEF InCriticalSection, UnknownPlaces, Rebuilding, Staging, Tasks
  <2> QED
    BY <1>3, <2>1 DEF UnknownPlaces, Rebuilding, Staging
<1> QED
  BY <1>4, <1>5, <1>6, <1>7 DEF MutexInv

LEMMA AllIdleMutex ==
    ASSUME \A u \in Tasks : task'[u].pc = "idle"
    PROVE  MutexInv'
BY DEF MutexInv, HasMutex, InCriticalSection, UnknownPlaces, Rebuilding, Staging, Tasks

LEMMA DiscardsMutex ==
    ASSUME NEW t \in Tasks, Discards(t)
    PROVE  MutexInv'
<1>1. \A u \in Tasks : task'[u].pc = "idle"
  BY DEF Discards, Others, Idle
<1> QED
  BY <1>1, AllIdleMutex
LEMMA FinishOthers ==
    ASSUME TypeInv, NEW t \in Tasks, NEW current, NEW objs, Finish(t, current, objs)
    PROVE  Others(t) /\ task'[t] = Idle
BY DEF Finish, Others, TypeInv, TypeOK

LEMMA ReturnLeaves ==
    ASSUME TypeInv, NEW t \in Tasks, InCriticalSection(t), Return(t)
    PROVE  Leaves(t)
BY FinishOthers DEF Return, Leaves, Finish

LEMMA GotoOthers ==
    ASSUME TypeInv, NEW t \in Tasks, NEW x, Goto(t, x)
    PROVE  Others(t) /\ task'[t].pc = x /\ task'[t].mutex = task[t].mutex /\ task'[t].op = task[t].op
BY DEF Goto, Others, TypeInv, TypeOK, Locals

LEMMA FailMutex ==
    ASSUME Kubelet, TypeInv, MutexInv, NEW t \in Tasks, task[t].pc \in Staging, Fail(t)
    PROVE  Leaves(t) \/ Discards(t)
<1>0. task[t] \in Locals /\ PlaceOK(t, task[t]) /\ InCriticalSection(t)
  BY DEF TypeInv, TypeOK, PlaceInv, InCriticalSection, Staging
<1>1. Others(t) /\ task'[t] = Idle
  BY FinishOthers DEF Fail
<1>2. CASE task[t].op = "recover"
  BY <1>0, <1>1, <1>2 DEF Fail, Leaves, Finish
<1>3. CASE task[t].op # "recover"
  <2>1. t \in Rpcs
    BY <1>0, <1>3 DEF PlaceOK, Locals, Begin, Rebuilding, Staging, Retrying, Recovering
  <2>2. volumes = None
    BY <2>1 DEF MutexInv, UnknownPlaces
  <2>3. \A u \in Tasks : u # t => task[u].pc = "idle"
    BY <2>1, <2>2 DEF MutexInv, Tasks, Kubelet, OneCallAtATime
  <2> QED
    BY <1>0, <1>1, <2>3 DEF Discards
<1> QED
  BY <1>2, <1>3

LEMMA StageMutex ==
    ASSUME Kubelet, TypeInv, MutexInv, NEW t \in Tasks, StageStep(t)
    PROVE  StaysIn(t) \/ Leaves(t) \/ Discards(t)
<1>0. task[t] \in Locals /\ PlaceOK(t, task[t])
  BY DEF TypeInv, TypeOK, PlaceInv
<1>1. TaskTypes
  BY Parts
<1>2. CASE Probe(t) \/ UnmountStale(t) \/ CheckStale(t) \/ RemoveAll(t) \/ StageUnmount(t) \/ Mount(t)
  <2>1. task[t].pc \in {"probe", "unmountStale", "checkStale", "removeAll", "stage", "mount"}
    BY <1>2 DEF Probe, UnmountStale, CheckStale, RemoveAll, StageUnmount, Mount, At
  <2>2. PICK x \in {"rebuild", "unmountStale", "checkStale", "removeAll", "stage", "mount", "quota"} : Goto(t, x)
    BY <1>1, <1>2, GotoSteps
  <2>3. UNCHANGED <<mutexMap, holder, volumes>>
    BY <1>2 DEF Probe, UnmountStale, CheckStale, RemoveAll, StageUnmount, Mount, nodeVars
  <2>4. t \in Rpcs => volumes = None
    BY <2>1 DEF MutexInv, UnknownPlaces, Rebuilding, Staging
  <2>5. InCriticalSection(t) /\ InCriticalSection(t)'
    BY <2>1, <2>2, GotoOthers DEF InCriticalSection
  <2> QED
    BY <2>2, <2>3, <2>4, <2>5, GotoOthers DEF StaysIn, lockVars
<1>3. CASE RefuseStale(t) \/ StageFails(t) \/ MountFails(t) \/ QuotaFails(t)
  <2>1. task[t].pc \in Staging /\ Fail(t)
    BY <1>3 DEF RefuseStale, StageFails, MountFails, QuotaFails, At, Staging
  <2> QED
    BY <2>1, FailMutex
<1>4. ASSUME NEW o \in Vols, NEW obj, StoreVolume(t, o, obj), task[t].pc \in {"rebuild", "quota"}, task[t].op # "recover"
      PROVE  StaysIn(t) \/ Leaves(t)
  <2>1. InCriticalSection(t) /\ volumes' = o /\ UNCHANGED mutexMap
    BY <1>4 DEF InCriticalSection, StoreVolume
  <2>2. CASE task[t].op = "stage"
    <3>1. Finish(t, o, [volObj EXCEPT ![o] = obj])
      BY <1>4, <2>2 DEF StoreVolume
    <3>2. Others(t) /\ task'[t] = Idle
      BY <3>1, FinishOthers
    <3>3. holder' = [holder EXCEPT ![task[t].mutex] = None]
      BY <3>1 DEF Finish
    <3> QED
      BY <2>1, <3>2, <3>3 DEF Leaves
  <2>3. CASE task[t].op # "stage"
    <3>1. t \in Rpcs
      BY <1>0, <1>4, <2>3 DEF PlaceOK, Locals, Begin, Rebuilding, Staging, Retrying, Recovering
    <3>2. task' = [task EXCEPT ![t].vol = o, ![t].pc = "bind"] /\ UNCHANGED holder
      BY <1>4, <2>3 DEF StoreVolume
    <3>3. Others(t) /\ task'[t].pc = "bind" /\ task'[t].mutex = task[t].mutex /\ task'[t].op = task[t].op
      BY <1>0, <3>2 DEF Others, TypeInv, TypeOK, Locals
    <3>4. InCriticalSection(t)'
      BY <3>3 DEF InCriticalSection
    <3>5. task'[t].pc \notin UnknownPlaces
      BY <3>3 DEF UnknownPlaces, Rebuilding, Staging
    <3>6. StaysIn(t)
      BY <2>1, <3>1, <3>2, <3>3, <3>4, <3>5 DEF StaysIn, lockVars
    <3> QED
      BY <3>6
  <2> QED
    BY <2>2, <2>3
<1>5. CASE Rebuild(t)
  <2>1. task[t].pc = "rebuild" /\ task[t].op # "recover"
    BY <1>0, <1>5 DEF Rebuild, At, PlaceOK, Begin, Recovering, Staging
  <2> QED
    BY <1>4, <1>5, <2>1, PickTypes DEF Rebuild
<1>6. CASE Staged(t)
  <2>1. task[t].pc = "quota" /\ Pick(FreshVols) \in Vols
    BY <1>6, PickTypes DEF Staged, At
  <2>2. CASE task[t].op # "recover"
    BY <1>4, <1>6, <2>1, <2>2 DEF Staged
  <2>3. CASE task[t].op = "recover"
    <3>1. /\ task' = [task EXCEPT ![t].new = Pick(FreshVols), ![t].pc = "tear", ![t].left = task[t].pubs]
          /\ UNCHANGED <<mutexMap, holder, volumes>>
      BY <1>6, <2>3 DEF Staged, lockVars
    <3>2. Others(t) /\ task'[t].pc = "tear" /\ task'[t].mutex = task[t].mutex /\ task'[t].op = task[t].op
      BY <1>0, <3>1 DEF Others, TypeInv, TypeOK, Locals
    <3>3. InCriticalSection(t) /\ InCriticalSection(t)'
      BY <2>1, <3>2 DEF InCriticalSection
    <3> QED
      BY <3>1, <3>2, <3>3 DEF StaysIn, lockVars, UnknownPlaces, Rebuilding, Staging
  <2> QED
    BY <2>2, <2>3
<1> QED
  BY <1>2, <1>3, <1>5, <1>6 DEF StageStep

LEMMA PublishMutex ==
    ASSUME Kubelet, TypeInv, MutexInv, UnstageAlone, NEW t \in Tasks, PublishStep(t)
    PROVE  StaysIn(t) \/ Leaves(t) \/ Discards(t)
<1>0. task[t] \in Locals /\ PlaceOK(t, task[t])
  BY DEF TypeInv, TypeOK, PlaceInv
<1>1. task[t].pc \in {"bind", "track", "unbind", "untrack", "unbindUnknown", "unstage", "unstageUnknown"}
  BY DEF PublishStep, Publish, PublishFails, Track, Unpublish, UnpublishFails, Untrack, UnpublishUnknown, Unstage,
         UnstageFails, UnstageUnknown, At
<1>2. InCriticalSection(t)
  BY <1>1 DEF InCriticalSection
<1>3. ASSUME NEW x \in {"track", "untrack"}, Goto(t, x), UNCHANGED nodeVars PROVE StaysIn(t)
  <2>1. Others(t) /\ task'[t].pc = x /\ task'[t].mutex = task[t].mutex /\ task'[t].op = task[t].op
    BY <1>3, GotoOthers
  <2>2. InCriticalSection(t)'
    BY <2>1 DEF InCriticalSection
  <2> QED
    BY <1>2, <1>3, <2>1, <2>2 DEF StaysIn, lockVars, nodeVars, UnknownPlaces, Rebuilding, Staging
<1>4. CASE Return(t)
  BY <1>2, <1>4, ReturnLeaves
<1>5. CASE Publish(t) \/ PublishFails(t) \/ Unpublish(t) \/ UnpublishFails(t) \/ UnpublishUnknown(t) \/ UnstageFails(t)
  BY <1>3, <1>4, <1>5 DEF Publish, PublishFails, Unpublish, UnpublishFails, UnpublishUnknown, UnstageFails
<1>6. CASE Track(t) \/ Untrack(t)
  <2>1. PICK objs : Finish(t, volumes, objs)
    BY <1>6 DEF Track, Untrack
  <2>2. UNCHANGED <<mutexMap, volumes>>
    BY <1>6 DEF Track, Untrack
  <2>3. Leaves(t)
    BY <1>2, <2>1, <2>2, FinishOthers DEF Leaves, Finish
  <2> QED
    BY <2>3
<1>7. ASSUME NEW current, Forget(t, current), task[t].pc \in {"unstage", "unstageUnknown"} PROVE Discards(t)
  <2>1. t \in Rpcs /\ task[t].op = "unstage"
    BY <1>0, <1>7 DEF PlaceOK, Locals, Begin, Rebuilding, Staging, Retrying, Recovering
  <2>2. \A u \in Tasks : u # t => task[u].pc = "idle"
    BY <2>1 DEF Kubelet, OneCallAtATime, UnstageAlone, Tasks
  <2> QED
    BY <1>2, <1>7, <2>2, FinishOthers DEF Forget, Discards
<1>8. CASE Unstage(t) \/ UnstageUnknown(t)
  BY <1>4, <1>7, <1>8 DEF Unstage, UnstageUnknown, At
<1> QED
  BY <1>5, <1>6, <1>8 DEF PublishStep

LEMMA RecoverMutex ==
    ASSUME Kubelet, TypeInv, MutexInv, NEW t \in Tasks, RecoverStep(t)
    PROVE  StaysIn(t) \/ Leaves(t)
<1>0. task[t] \in Locals /\ PlaceOK(t, task[t])
  BY DEF TypeInv, TypeOK, PlaceInv
<1>1. task[t].pc \in Recovering \cup Retrying
  BY DEF RecoverStep, RecoverNotNeeded, RecoverCollect, RecoverSkipLive, RecoverGoAhead, RecoverStop, RecoverStopFails,
         RecoverGuard, RecoverAborts, RecoverTear, RecoverTorn, RecoverRebind, RecoverStore, RetryStart, RetryPath,
         RetryReturn, At, Recovering, Retrying
<1>2. InCriticalSection(t)
  BY <1>1 DEF InCriticalSection, Recovering, Retrying
<1>3. t \notin Rpcs
  BY <1>0, <1>1, MonitorsAssumption
     DEF PlaceOK, Locals, Begin, Rebuilding, Staging, Retrying, Recovering
<1>4. ASSUME Others(t), task'[t].mutex = task[t].mutex, task'[t].op = task[t].op,
             task'[t].pc \in Recovering \cup Retrying \cup Staging, UNCHANGED <<mutexMap, holder, volumes>>
      PROVE  StaysIn(t)
  BY <1>2, <1>3, <1>4 DEF StaysIn, lockVars, InCriticalSection, Recovering, Retrying, Staging
<1>5. CASE RecoverStopFails(t) \/ RecoverAborts(t) \/ RetryReturn(t)
  BY <1>2, <1>5, ReturnLeaves DEF RecoverStopFails, RecoverAborts, RetryReturn
<1>6. CASE RecoverNotNeeded(t) \/ RecoverSkipLive(t)
  <2>1. Finish(t, volumes, volObj) /\ UNCHANGED <<mutexMap, volumes>>
    BY <1>6 DEF RecoverNotNeeded, RecoverSkipLive
  <2> QED
    BY <1>2, <2>1, FinishOthers DEF Leaves, Finish
<1>7. CASE RecoverStore(t)
  <2>1. Finish(t, task[t].new, volObj) /\ volumes' = task[t].new /\ UNCHANGED mutexMap
    BY <1>7 DEF RecoverStore
  <2>2. task[t].new \in Vols
    BY <1>0, <1>7 DEF RecoverStore, At, PlaceOK
  <2> QED
    BY <1>2, <2>1, <2>2, FinishOthers DEF Leaves, Finish
<1>8. CASE RecoverGoAhead(t) \/ RecoverStop(t) \/ RecoverGuard(t)
  <2>1. PICK x \in {"stop", "guard", "unmountStale"} : Goto(t, x)
    BY <1>8 DEF RecoverGoAhead, RecoverStop, RecoverGuard
  <2>2. UNCHANGED <<mutexMap, holder, volumes>>
    BY <1>8 DEF RecoverGoAhead, RecoverStop, RecoverGuard, nodeVars, lockVars
  <2> QED
    BY <1>4, <2>1, <2>2, GotoOthers DEF Recovering, Staging
<1>9. CASE RecoverCollect(t) \/ RecoverTorn(t) \/ RetryStart(t)
  <2>1. UNCHANGED <<mutexMap, holder, volumes>>
    BY <1>9 DEF RecoverCollect, RecoverTorn, RetryStart, nodeVars
  <2>2. /\ Others(t) /\ task'[t].mutex = task[t].mutex /\ task'[t].op = task[t].op
        /\ task'[t].pc \in {"decide", "rebind", "retry"}
    BY <1>0, <1>9 DEF RecoverCollect, RecoverTorn, RetryStart, Others, TypeInv, TypeOK, Locals
  <2> QED
    BY <1>4, <2>1, <2>2 DEF Recovering, Retrying
<1>10. CASE RecoverTear(t) \/ RecoverRebind(t) \/ RetryPath(t)
  <2>1. UNCHANGED <<mutexMap, holder, volumes>>
    BY <1>10 DEF RecoverTear, RecoverRebind, RetryPath, nodeVars, lockVars
  <2>2. PICK left, torn : \/ task' = [task EXCEPT ![t].left = left]
                           \/ task' = [task EXCEPT ![t].left = left, ![t].torn = torn]
    BY <1>10 DEF RecoverTear, RecoverRebind, RetryPath
  <2>3. Others(t) /\ task'[t].mutex = task[t].mutex /\ task'[t].op = task[t].op /\ task'[t].pc = task[t].pc
    BY <1>0, <2>2 DEF Others, TypeInv, TypeOK, Locals
  <2> QED
    BY <1>1, <1>4, <2>1, <2>3
<1> QED
  BY <1>5, <1>6, <1>7, <1>8, <1>9, <1>10 DEF RecoverStep

(* Outside the critical section: the calls, the sweeps, the mutex.         *)
LEMMA OutsideMutex ==
    ASSUME MutexInv, NEW t \in Tasks, Others(t), UNCHANGED <<mutexMap, holder, volumes>>,
           task'[t].pc \in {"idle", "sweep", "getMutex"},
           t \in Monitors /\ task'[t].pc # "idle" => volumes # None
    PROVE  MutexInv'
<1>1. (\A u \in Tasks : HasMutex(u) => mutexMap \in Mutexes /\ task[u].mutex = mutexMap)'
  BY DEF MutexInv, Others, HasMutex
<1>2. (\A u \in Tasks : InCriticalSection(u) => holder[mutexMap] = u)'
  BY DEF MutexInv, Others, InCriticalSection
<1>3. (\A u \in Monitors : task[u].pc # "idle" => volumes # None)'
  BY DEF MutexInv, Others, Tasks
<1>4. (\A u \in Rpcs : task[u].pc \in UnknownPlaces => volumes = None)'
  <2>1. task'[t].pc \notin UnknownPlaces
    BY DEF UnknownPlaces, Rebuilding, Staging
  <2> QED
    BY <2>1 DEF MutexInv, Others, Tasks
<1> QED
  BY <1>1, <1>2, <1>3, <1>4 DEF MutexInv

LEMMA GetMutexInv ==
    ASSUME TypeInv, MutexInv, NEW t \in Tasks, GetMutex(t)
    PROVE  MutexInv'
<1>0. task \in [Tasks -> Locals] /\ mutexMap \in Mutexes \cup {None}
  BY DEF TypeInv, TypeOK
<1>1. mutexMap' \in Mutexes
  BY <1>0, PickTypes DEF GetMutex
<1>2. Others(t) /\ task'[t].mutex = mutexMap' /\ task'[t].pc = "lock" /\ task[t].pc = "getMutex"
  BY <1>0 DEF GetMutex, At, Others, Locals
<1>3. mutexMap # None => mutexMap' = mutexMap
  BY DEF GetMutex
<1>4. holder' = holder /\ volumes' = volumes
  BY DEF GetMutex
<1>5. (\A u \in Tasks : HasMutex(u) => mutexMap \in Mutexes /\ task[u].mutex = mutexMap)'
  BY <1>1, <1>2, <1>3, NamesAssumption DEF MutexInv, Others, HasMutex
<1>6. (\A u \in Tasks : InCriticalSection(u) => holder[mutexMap] = u)'
  BY <1>2, <1>3, <1>4, NamesAssumption DEF MutexInv, Others, HasMutex, InCriticalSection
<1>7. (\A u \in Monitors : task[u].pc # "idle" => volumes # None)'
  BY <1>2, <1>4 DEF MutexInv, Others, Tasks
<1>8. (\A u \in Rpcs : task[u].pc \in UnknownPlaces => volumes = None)'
  BY <1>2, <1>4 DEF MutexInv, Others, Tasks, UnknownPlaces, Rebuilding, Staging
<1> QED
  BY <1>5, <1>6, <1>7, <1>8 DEF MutexInv

LEMMA LockInv ==
    ASSUME TypeInv, MutexInv, NEW t \in Tasks, Lock(t)
    PROVE  MutexInv'
<1>0. holder \in [Mutexes -> Tasks \cup {None}]
  BY DEF TypeInv, TypeOK
<1>1. Others(t) /\ task'[t].pc = "load" /\ task'[t].mutex = task[t].mutex /\ task[t].pc = "lock"
  BY GotoOthers DEF Lock, At
<1>2. mutexMap \in Mutexes /\ task[t].mutex = mutexMap /\ mutexMap' = mutexMap /\ volumes' = volumes
  BY <1>1 DEF MutexInv, HasMutex, Lock
<1>3. holder[mutexMap] = None /\ holder'[mutexMap] = t
  BY <1>0, <1>2 DEF Lock
<1>4. \A u \in Tasks : ~InCriticalSection(u)
  BY <1>3, NamesAssumption DEF MutexInv
<1>5. (\A u \in Tasks : HasMutex(u) => mutexMap \in Mutexes /\ task[u].mutex = mutexMap)'
  BY <1>1, <1>2 DEF MutexInv, Others, HasMutex
<1>6. (\A u \in Tasks : InCriticalSection(u) => holder[mutexMap] = u)'
  BY <1>1, <1>2, <1>3, <1>4 DEF Others, InCriticalSection
<1>7. (\A u \in Monitors : task[u].pc # "idle" => volumes # None)'
  BY <1>1, <1>2 DEF MutexInv, Others, Tasks
<1>8. (\A u \in Rpcs : task[u].pc \in UnknownPlaces => volumes = None)'
  BY <1>1, <1>2 DEF MutexInv, Others, Tasks, UnknownPlaces, Rebuilding, Staging
<1> QED
  BY <1>5, <1>6, <1>7, <1>8 DEF MutexInv

LEMMA LoadInv ==
    ASSUME TypeInv, NEW t \in Tasks, Load(t)
    PROVE  StaysIn(t) /\ task'[t].pc # "removeAll"
<1>0. task[t] \in Locals /\ volumes \in Vols \cup {None}
  BY DEF TypeInv, TypeOK
<1> DEFINE x == AfterLoad[task[t].op]
<1>1. task' = [task EXCEPT ![t].vol = volumes, ![t].pc = x] /\ UNCHANGED nodeVars /\ task[t].pc = "load"
      /\ task[t].op \in DOMAIN AfterLoad
  BY DEF Load, At
<1>2. \/ x \in {"bind", "unbind", "unstage", "recheck", "retryCheck"}
      \/ volumes = None /\ x \in {"probe", "unbindUnknown", "unstageUnknown"}
  BY <1>1 DEF AfterLoad, Known, Unknown
<1> HIDE DEF x
<1>3. Others(t) /\ task'[t].pc = x /\ task'[t].mutex = task[t].mutex /\ task'[t].op = task[t].op
  BY <1>0, <1>1 DEF Others, TypeInv, TypeOK, Locals
<1>4. InCriticalSection(t) /\ InCriticalSection(t)'
  BY <1>1, <1>2, <1>3 DEF InCriticalSection
<1>5. x \in UnknownPlaces => volumes = None
  BY <1>2 DEF UnknownPlaces, Rebuilding, Staging
<1>6. StaysIn(t)
  BY <1>1, <1>3, <1>4, <1>5 DEF StaysIn, lockVars, nodeVars
<1> QED
  BY <1>2, <1>3, <1>6

(* The steps before the lock.                                              *)
LEMMA CallOthers ==
    ASSUME TypeInv, NEW t \in Rpcs, NEW o, NEW p, Call(t, o, p)
    PROVE  /\ Others(t) /\ task'[t].pc = "getMutex" /\ task'[t].op = o /\ t \notin Monitors
           /\ UNCHANGED <<mutexMap, holder, volumes, staging, deleted, stray>>
<1>1. task \in [Tasks -> Locals] /\ t \in Tasks /\ t \notin Monitors
  BY MonitorsAssumption DEF TypeInv, TypeOK, Tasks
<1>2. LET l == [Idle EXCEPT !.pc = "getMutex", !.op = o, !.path = p] IN l.pc = "getMutex" /\ l.op = o
  BY DEF Idle
<1> QED
  BY <1>1, <1>2 DEF Call, Others, nodeVars, hostVars, lateVars

LEMMA SweepOthers ==
    ASSUME TypeInv, MutexInv, NEW t \in Monitors, Sweep(t) \/ SweepVerdict(t)
    PROVE  /\ Others(t) /\ task'[t].pc \in {"idle", "sweep", "getMutex"} /\ volumes # None
           /\ UNCHANGED <<mutexMap, holder, volumes, staging, deleted, stray>>
<1>1. task \in [Tasks -> Locals] /\ t \in Tasks
  BY DEF TypeInv, TypeOK, Tasks
<1>2. UNCHANGED <<mutexMap, holder, volumes, staging, deleted, stray>>
  BY DEF Sweep, SweepVerdict, nodeVars, lockVars, hostVars, ghostVars, lateVars
<1>3. volumes # None
  BY DEF Sweep, SweepVerdict, At, MutexInv
<1>4. CASE Sweep(t)
  BY <1>1, <1>2, <1>3, <1>4 DEF Sweep, Others, Locals
<1>5. CASE SweepVerdict(t)
  <2>1. PICK l : /\ task' = [task EXCEPT ![t] = l]
                 /\ l = Idle \/ \E x : l = [Idle EXCEPT !.pc = "getMutex", !.op = x]
    BY <1>5 DEF SweepVerdict
  <2>2. Idle.pc = "idle" /\ \A x : [Idle EXCEPT !.pc = "getMutex", !.op = x].pc = "getMutex"
    BY DEF Idle
  <2>3. l.pc \in {"idle", "getMutex"}
    BY <2>1, <2>2
  <2> QED
    BY <1>1, <1>2, <1>3, <2>1, <2>3 DEF Others
<1> QED
  BY <1>4, <1>5

LEMMA MutexStep ==
    ASSUME Kubelet, TypeInv, MutexInv, UnstageAlone, [Next]_vars
    PROVE  MutexInv'
<1>1. ASSUME NEW t \in Tasks, Step(t) PROVE MutexInv'
  <2>1. CASE LoadAndReturn(t)
    <3>1. InCriticalSection(t) /\ Return(t)
      BY <2>1 DEF LoadAndReturn, At, InCriticalSection
    <3> QED
      BY <3>1, ReturnLeaves, LeavesMutex
  <2>2. CASE Load(t)
    BY <2>2, LoadInv, StaysInMutex
  <2>3. CASE StageStep(t) \/ PublishStep(t) \/ RecoverStep(t)
    BY <2>3, StageMutex, PublishMutex, RecoverMutex, StaysInMutex, LeavesMutex, DiscardsMutex
  <2> QED
    BY <1>1, <2>1, <2>2, <2>3, GetMutexInv DEF Step
<1>2. ASSUME NEW t \in Rpcs, NEW o, NEW p, Call(t, o, p) PROVE MutexInv'
  BY <1>2, CallOthers, OutsideMutex DEF Tasks
<1>3. ASSUME NEW t \in Monitors, Sweep(t) \/ SweepVerdict(t) PROVE MutexInv'
  BY <1>3, SweepOthers, OutsideMutex DEF Tasks
<1>4. CASE UNCHANGED <<mutexMap, holder, task, volumes>>
  BY <1>4 DEF MutexInv, HasMutex, InCriticalSection
<1>5. CASE SessionFails \/ SessionEases \/ CacheExpires \/ SessionEnds \/ Reap \/ LateMount \/ LateUnmount
           \/ BackoffEnds \/ UNCHANGED vars
  BY <1>4, <1>5 DEF SessionFails, SessionEases, CacheExpires, SessionMoves, SessionEnds, Reap, LateMount, LateUnmount,
                    BackoffEnds, vars, nodeVars, lockVars
<1>6. CASE Restart
  <2>1. \A u \in Tasks : task'[u].pc = "idle"
    BY <1>6 DEF Restart, Idle
  <2> QED
    BY <2>1, AllIdleMutex
<1>7. ASSUME NEW t \in Rpcs, CallStage(t) \/ CallUnstage(t) PROVE MutexInv'
  BY <1>2, <1>7 DEF CallStage, CallUnstage
<1>8. ASSUME NEW t \in Rpcs, NEW p, CallPublish(t, p) \/ CallUnpublish(t, p) PROVE MutexInv'
  BY <1>2, <1>8 DEF CallPublish, CallUnpublish
<1> QED
  BY <1>1, <1>3, <1>5, <1>6, <1>7, <1>8, LockInv DEF Next, Environment

LEMMA AloneStep ==
    ASSUME Kubelet, TypeInv, MutexInv, UnstageAlone, [Next]_vars
    PROVE  UnstageAlone'
<1>1. ASSUME NEW t \in Tasks, Others(t), task'[t].op \in {task[t].op, "none"}, task[t].pc # "idle"
      PROVE  UnstageAlone'
  <2> SUFFICES ASSUME NEW r \in Rpcs, NEW m \in Monitors, task'[r].op = "unstage" PROVE task'[m].pc = "idle"
    BY DEF UnstageAlone
  <2>1. r \in Tasks /\ m \in Tasks /\ r # m
    BY MonitorsAssumption DEF Tasks
  <2>2. task[r].op = "unstage"
    BY <1>1, <2>1 DEF Others
  <2> QED
    BY <1>1, <2>1, <2>2 DEF UnstageAlone, Others
<1>2. ASSUME NEW t \in Tasks, Step(t) PROVE UnstageAlone'
  <2>1. CASE GetMutex(t)
    <3>1. Others(t) /\ task'[t].op = task[t].op /\ task[t].pc # "idle"
      BY <2>1 DEF GetMutex, At, Others, TypeInv, TypeOK, Locals
    <3> QED
      BY <1>1, <3>1
  <2>2. CASE LoadAndReturn(t)
    <3>1. Others(t) /\ task'[t].op = "none" /\ task[t].pc # "idle"
      BY <2>2, FinishOthers DEF LoadAndReturn, Return, At, Idle
    <3> QED
      BY <1>1, <3>1
  <2>3. CASE StaysIn(t) \/ Leaves(t) \/ Discards(t)
    <3>1. Others(t) /\ task'[t].op \in {task[t].op, "none"} /\ task[t].pc # "idle"
      BY <2>3 DEF StaysIn, Leaves, Discards, InCriticalSection, Idle
    <3> QED
      BY <1>1, <3>1
  <2> QED
    BY <1>2, <2>1, <2>2, <2>3, LoadInv, StageMutex, PublishMutex, RecoverMutex DEF Step
<1>3. ASSUME NEW t \in Tasks, Lock(t) PROVE UnstageAlone'
  <2>1. Others(t) /\ task'[t].op = task[t].op /\ task[t].pc # "idle"
    BY <1>3, GotoOthers DEF Lock, At
  <2> QED
    BY <1>1, <2>1
<1>4. ASSUME NEW t \in Rpcs, NEW o, NEW p, Call(t, o, p), o = "unstage" => \A m \in Monitors : task[m].pc = "idle"
      PROVE  UnstageAlone'
  <2>1. Others(t) /\ task'[t].op = o /\ t \notin Monitors
    BY <1>4, CallOthers
  <2> QED
    BY <1>4, <2>1 DEF UnstageAlone, Others, Tasks
<1>5. ASSUME NEW t \in Rpcs, CallStage(t) \/ CallUnstage(t) PROVE UnstageAlone'
  BY <1>4, <1>5 DEF CallStage, CallUnstage, Kubelet, At
<1>6. ASSUME NEW t \in Rpcs, NEW p, CallPublish(t, p) \/ CallUnpublish(t, p) PROVE UnstageAlone'
  BY <1>4, <1>6 DEF CallPublish, CallUnpublish
<1>7. ASSUME NEW t \in Monitors, Sweep(t) \/ SweepVerdict(t) PROVE UnstageAlone'
  <2>1. Others(t) /\ t \in Tasks
    BY <1>7, SweepOthers DEF Tasks
  <2>2. \A r \in Rpcs : task[r].op # "unstage"
    BY <1>7 DEF Sweep, SweepVerdict, At, UnstageAlone, Kubelet
  <2> QED
    BY <2>1, <2>2, MonitorsAssumption DEF UnstageAlone, Others, Tasks
<1>8. CASE UNCHANGED task
  BY <1>8 DEF UnstageAlone
<1>9. CASE SessionFails \/ SessionEases \/ CacheExpires \/ SessionEnds \/ Reap \/ LateMount \/ LateUnmount
           \/ BackoffEnds \/ UNCHANGED vars
  BY <1>8, <1>9 DEF SessionFails, SessionEases, CacheExpires, SessionMoves, SessionEnds, Reap, LateMount, LateUnmount,
                    BackoffEnds, vars
<1>10. CASE Restart
  BY <1>10 DEF Restart, UnstageAlone, Idle, Tasks
<1> QED
  BY <1>2, <1>3, <1>5, <1>6, <1>7, <1>9, <1>10 DEF Next, Environment

-----------------------------------------------------------------------------
(* Nothing but a stage mounts at the staging path.                         *)
LEMMA StagingKept ==
    ASSUME NEW t \in Tasks, Step(t)
    PROVE  task[t].pc = "mount" \/ (staging' \in {None, staging} /\ stray' = stray)
<1>1. CASE GetMutex(t) \/ Load(t) \/ LoadAndReturn(t)
  BY <1>1 DEF GetMutex, Load, LoadAndReturn, hostVars, lateVars
<1>2. CASE StageStep(t)
  BY <1>2 DEF StageStep, Probe, Rebuild, UnmountStale, CheckStale, RefuseStale, RemoveAll, StageUnmount, StageFails,
              Mount, MountFails, Staged, QuotaFails, At, hostVars, lateVars
<1>3. CASE PublishStep(t)
  BY <1>3 DEF PublishStep, Publish, PublishFails, Track, Unpublish, UnpublishFails, Untrack, UnpublishUnknown, Unstage,
              UnstageFails, UnstageUnknown, UnmountAtManager, UnmountAtManagerFails, hostVars, lateVars
<1>4. CASE RecoverStep(t)
  BY <1>4 DEF RecoverStep, RecoverNotNeeded, RecoverCollect, RecoverSkipLive, RecoverGoAhead, RecoverStop,
              RecoverStopFails, RecoverGuard, RecoverAborts, RecoverTear, RecoverTorn, RecoverRebind, RecoverStore,
              RetryStart, RetryPath, RetryReturn, UnmountAtManager, UnmountAtManagerFails, hostVars, lateVars
<1> QED
  BY <1>1, <1>2, <1>3, <1>4 DEF Step

(* A task comes to the removal only by finding nothing mounted.            *)
LEMMA RemovalChecked ==
    ASSUME TypeInv, NEW t \in Tasks, Step(t), task'[t].pc = "removeAll"
    PROVE  staging' = None
<1>0. task \in [Tasks -> Locals] /\ task[t] \in Locals /\ TaskTypes
  BY Parts DEF TypeInv, TypeOK
<1>1. ~ Finish(t, volumes, volObj)
  BY FinishOthers DEF Idle
<1>2. \A x : Goto(t, x) => x = "removeAll"
  BY GotoOthers
<1>3. CASE CheckStale(t)
  BY <1>3 DEF CheckStale
<1>4. CASE GetMutex(t)
  BY <1>0, <1>4 DEF GetMutex, Locals
<1>5. CASE Load(t)
  BY <1>5, LoadInv
<1>6. CASE LoadAndReturn(t) \/ RefuseStale(t) \/ StageFails(t) \/ MountFails(t) \/ QuotaFails(t) \/ PublishFails(t)
           \/ UnpublishFails(t) \/ UnpublishUnknown(t) \/ UnstageFails(t)
  BY <1>1, <1>6 DEF LoadAndReturn, RefuseStale, StageFails, MountFails, QuotaFails, PublishFails, UnpublishFails,
                    UnpublishUnknown, UnstageFails, Return, Fail
<1>7. CASE RecoverNotNeeded(t) \/ RecoverSkipLive(t) \/ RecoverStopFails(t) \/ RecoverAborts(t) \/ RetryReturn(t)
  BY <1>1, <1>7 DEF RecoverNotNeeded, RecoverSkipLive, RecoverStopFails, RecoverAborts, RetryReturn, Return
<1>8. CASE Probe(t) \/ UnmountStale(t) \/ RemoveAll(t) \/ StageUnmount(t) \/ Mount(t) \/ Unpublish(t)
           \/ RecoverGoAhead(t) \/ RecoverStop(t) \/ RecoverGuard(t)
  BY <1>0, <1>2, <1>8, GotoSteps
<1>9. CASE Publish(t)
  BY <1>1, <1>2, <1>9 DEF Publish, Return
<1>10. CASE Track(t) \/ Untrack(t) \/ Unstage(t) \/ UnstageUnknown(t) \/ RecoverStore(t)
  <2>1. \E current, objs : Finish(t, current, objs)
    BY <1>10 DEF Track, Untrack, Unstage, UnstageUnknown, RecoverStore, Forget, Return
  <2> QED
    BY <2>1, FinishOthers DEF Idle
<1>11. CASE RecoverCollect(t) \/ RecoverTorn(t) \/ RetryStart(t)
  BY <1>0, <1>11 DEF RecoverCollect, RecoverTorn, RetryStart, Locals
<1>12. CASE RecoverTear(t) \/ RecoverRebind(t) \/ RetryPath(t)
  <2>1. task[t].pc \in {"tear", "rebind", "retry"}
    BY <1>12 DEF RecoverTear, RecoverRebind, RetryPath, At
  <2>2. PICK left, torn : \/ task' = [task EXCEPT ![t].left = left]
                           \/ task' = [task EXCEPT ![t].left = left, ![t].torn = torn]
    BY <1>12 DEF RecoverTear, RecoverRebind, RetryPath
  <2> QED
    BY <1>0, <2>1, <2>2 DEF Locals
<1>13. ASSUME NEW o, NEW obj, StoreVolume(t, o, obj) PROVE FALSE
  <2>1. CASE task[t].op = "stage"
    <3>1. Finish(t, o, [volObj EXCEPT ![o] = obj])
      BY <1>13, <2>1 DEF StoreVolume
    <3> QED
      BY <3>1, FinishOthers DEF Idle
  <2>2. CASE task[t].op # "stage"
    BY <1>0, <1>13, <2>2 DEF StoreVolume, Locals
  <2> QED
    BY <2>1, <2>2
<1>14. CASE Rebuild(t)
  BY <1>13, <1>14 DEF Rebuild
<1>15. CASE Staged(t)
  <2>1. CASE task[t].op # "recover"
    BY <1>13, <1>15, <2>1 DEF Staged
  <2>2. CASE task[t].op = "recover"
    BY <1>0, <1>15, <2>2 DEF Staged, Locals
  <2> QED
    BY <2>1, <2>2
<1> QED
  BY <1>3, <1>4, <1>5, <1>6, <1>7, <1>8, <1>9, <1>10, <1>11, <1>12, <1>14, <1>15
     DEF Step, StageStep, PublishStep, RecoverStep

LEMMA StepOthers ==
    ASSUME Kubelet, TypeInv, MutexInv, UnstageAlone, NEW t \in Tasks, Step(t)
    PROVE  Others(t)
<1>1. CASE GetMutex(t)
  BY <1>1 DEF GetMutex, Others, TypeInv, TypeOK
<1>2. CASE LoadAndReturn(t)
  BY <1>2, FinishOthers DEF LoadAndReturn, Return
<1> QED
  BY <1>1, <1>2, LoadInv, StageMutex, PublishMutex, RecoverMutex DEF Step, StaysIn, Leaves, Discards

LEMMA RemovalStep ==
    ASSUME SafeInv, [Next]_vars
    PROVE  RemovalInv' /\ OnlyLateDeletion'
<1>0. Kubelet /\ TypeInv /\ MutexInv /\ UnstageAlone /\ RemovalInv /\ "other" \notin deleted /\ VolumeSerialized
  BY OneInside DEF SafeInv, OnlyLateDeletion
<1>1. ASSUME NEW t \in Tasks, Others(t), task'[t].pc # "removeAll", UNCHANGED <<staging, deleted, stray>>
      PROVE  RemovalInv' /\ OnlyLateDeletion'
  BY <1>0, <1>1 DEF RemovalInv, OnlyLateDeletion, Others
<1>2. ASSUME NEW t \in Tasks, Step(t) PROVE RemovalInv' /\ OnlyLateDeletion'
  <2>1. RemovalInv'
    <3> SUFFICES ASSUME NEW u \in Tasks, task'[u].pc = "removeAll" PROVE staging' = None \/ staging' = stray'
      BY DEF RemovalInv
    <3>1. CASE u = t
      BY <1>0, <1>2, <3>1, RemovalChecked
    <3>2. CASE u # t
      <4>1. task[u].pc = "removeAll"
        BY <1>0, <1>2, <3>2, StepOthers DEF Others
      <4>2. staging = None \/ staging = stray
        BY <1>0, <4>1 DEF RemovalInv
      <4>3. task[t].pc # "mount"
        BY <1>0, <3>2, <4>1 DEF VolumeSerialized, InCriticalSection
      <4> QED
        BY <1>2, <4>2, <4>3, StagingKept
    <3> QED
      BY <3>1, <3>2
  <2>2. CASE RemoveAll(t)
    <3>1. staging = None \/ staging = stray
      BY <1>0, <2>2 DEF RemoveAll, At, RemovalInv
    <3>2. ~Serves(staging) \/ staging = stray
      BY <3>1, NamesAssumption DEF Serves, Is
    <3>3. "other" \notin deleted'
      BY <1>0, <2>2, <3>2 DEF RemoveAll
    <3> QED
      BY <2>1, <3>3 DEF OnlyLateDeletion
  <2>3. CASE ~RemoveAll(t)
    <3>1. deleted' = deleted
      <4>1. CASE GetMutex(t) \/ Load(t) \/ LoadAndReturn(t) \/ PublishStep(t)
        BY <4>1 DEF GetMutex, Load, LoadAndReturn, PublishStep, Publish, PublishFails, Track, Unpublish,
                    UnpublishFails, Untrack, UnpublishUnknown, Unstage, UnstageFails, UnstageUnknown, ghostVars
      <4>2. CASE StageStep(t)
        BY <2>3, <4>2 DEF StageStep, Probe, Rebuild, UnmountStale, CheckStale, RefuseStale, StageUnmount, StageFails,
                          Mount, MountFails, Staged, QuotaFails, StoreVolume, ghostVars
      <4>3. CASE RecoverStep(t)
        BY <4>3 DEF RecoverStep, RecoverNotNeeded, RecoverCollect, RecoverSkipLive, RecoverGoAhead, RecoverStop,
                    RecoverStopFails, RecoverGuard, RecoverAborts, RecoverTear, RecoverTorn, RecoverRebind,
                    RecoverStore, RetryStart, RetryPath, RetryReturn, ghostVars
      <4> QED
        BY <1>2, <4>1, <4>2, <4>3 DEF Step
    <3> QED
      BY <1>0, <2>1, <3>1 DEF OnlyLateDeletion
  <2> QED
    BY <2>2, <2>3
<1>3. ASSUME NEW t \in Tasks, Lock(t) PROVE RemovalInv' /\ OnlyLateDeletion'
  <2>1. Others(t) /\ task'[t].pc = "load" /\ UNCHANGED <<staging, deleted, stray>>
    BY <1>0, <1>3, GotoOthers DEF Lock, hostVars, ghostVars, lateVars
  <2> QED
    BY <1>1, <2>1
<1>4. ASSUME NEW t \in Rpcs, NEW o, NEW p, Call(t, o, p) PROVE RemovalInv' /\ OnlyLateDeletion'
  BY <1>0, <1>1, <1>4, CallOthers DEF Tasks
<1>5. ASSUME NEW t \in Monitors, Sweep(t) \/ SweepVerdict(t) PROVE RemovalInv' /\ OnlyLateDeletion'
  BY <1>0, <1>1, <1>5, SweepOthers DEF Tasks
<1>6. CASE staging' \in {None, staging} /\ UNCHANGED <<task, deleted, stray>>
  BY <1>0, <1>6 DEF RemovalInv, OnlyLateDeletion
<1>7. CASE SessionFails \/ SessionEases \/ CacheExpires \/ SessionEnds \/ Reap \/ LateUnmount \/ BackoffEnds
           \/ UNCHANGED vars
  BY <1>6, <1>7 DEF SessionFails, SessionEases, CacheExpires, SessionMoves, SessionEnds, Reap, LateUnmount,
                    UnmountAtManager, BackoffEnds, vars, hostVars, ghostVars, lateVars
<1>11. CASE LateMount
  <2>1. UNCHANGED <<task, deleted>>
    BY <1>11 DEF LateMount, ghostVars
  <2>2. UNCHANGED <<staging, stray>> \/ staging' = stray'
    BY <1>11, PickTypes DEF LateMount, MountAtManager, FreshGens
  <2> QED
    BY <1>0, <2>1, <2>2 DEF RemovalInv, OnlyLateDeletion
<1>8. CASE Restart
  <2>1. (\A u \in Tasks : task'[u].pc = "idle") /\ UNCHANGED deleted
    BY <1>8 DEF Restart, Idle, ghostVars
  <2> QED
    BY <1>0, <2>1 DEF RemovalInv, OnlyLateDeletion
<1>9. ASSUME NEW t \in Rpcs, CallStage(t) \/ CallUnstage(t) PROVE RemovalInv' /\ OnlyLateDeletion'
  BY <1>4, <1>9 DEF CallStage, CallUnstage
<1>10. ASSUME NEW t \in Rpcs, NEW p, CallPublish(t, p) \/ CallUnpublish(t, p)
       PROVE  RemovalInv' /\ OnlyLateDeletion'
  BY <1>4, <1>10 DEF CallPublish, CallUnpublish
<1> QED
  BY <1>2, <1>3, <1>5, <1>7, <1>8, <1>9, <1>10, <1>11 DEF Next, Environment

-----------------------------------------------------------------------------
LEMMA SafeInit == Kubelet /\ Init => SafeInv
<1> SUFFICES ASSUME Kubelet, Init PROVE SafeInv
  OBVIOUS
<1>1. \A t \in Tasks : task[t].pc = "idle"
  BY DEF Init, Idle
<1>2. MutexInv /\ UnstageAlone /\ RemovalInv
  BY <1>1 DEF MutexInv, UnstageAlone, RemovalInv, HasMutex, InCriticalSection, UnknownPlaces, Rebuilding, Staging, Tasks
<1>3. OnlyLateDeletion
  BY DEF Init, OnlyLateDeletion
<1> QED
  BY <1>2, <1>3, TypeInit DEF SafeInv

LEMMA SafeStep == SafeInv /\ [Next]_vars => SafeInv'
<1> SUFFICES ASSUME SafeInv, [Next]_vars PROVE SafeInv'
  OBVIOUS
<1>1. Kubelet'
  BY DEF SafeInv, Kubelet, OneCallAtATime
<1> QED
  BY <1>1, TypeStep, MutexStep, AloneStep, RemovalStep DEF SafeInv

(* With kubelet's discipline the per-volume mutex serializes the handlers  *)
(* and the monitor's recovery, for any paths, faults and restarts, although*)
(* a failed stage throws the mutex away: it does so only for a volume that *)
(* is not in the map, and then no monitor waits for the mutex.             *)
THEOREM Serialized == Kubelet /\ Spec => []VolumeSerialized
<1>1. SafeInv => VolumeSerialized
  BY OneInside DEF SafeInv
<1> QED
  BY <1>1, SafeInit, SafeStep, PTL DEF Spec

(* cleanupStaleStagingPath removes through no mounted file system but one  *)
(* that the service mounted for a request whose caller had given up on it: *)
(* nothing was mounted when it looked, and everybody else who mounts at    *)
(* the staging path holds the mutex that the cleanup holds.                *)
THEOREM NoDeletion == Kubelet /\ Spec => []OnlyLateDeletion
<1>1. SafeInv => OnlyLateDeletion
  BY DEF SafeInv
<1> QED
  BY <1>1, SafeInit, SafeStep, PTL DEF Spec
=============================================================================
