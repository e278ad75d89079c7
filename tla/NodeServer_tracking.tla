------------------------- MODULE NodeServer_tracking -------------------------
(***************************************************************************)
(* What the handlers and the monitor know of the volume in the map: the    *)
(* publish paths are tracked exactly, and a recovery never stops a session *)
(* that its pods still use.  Both rest on the mutex (SafeInv).             *)
(***************************************************************************)
EXTENDS NodeServer_proofs

(* The publish paths of the volume in the map.                             *)
Current == IF volumes = None THEN {} ELSE volObj[volumes].paths

(* Where a task uses the volume object it loaded, and where a recovery     *)
(* uses the publish paths it collected.                                    *)
Looked == {"bind", "track", "unbind", "untrack", "unstage", "recheck", "decide", "retryCheck"}
Collected == {"decide", "stop", "guard", "tear", "rebind"} \cup Staging

TrackAt(t) ==
    /\ task[t].pc \in Looked => task[t].vol = volumes
    /\ task[t].op = "recover" /\ task[t].pc \in Collected => task[t].pubs = Current
    /\ task[t].pc \in {"tear", "rebind"} => task[t].new # volumes
    /\ task[t].pc = "tear" => volObj[task[t].new].paths = {}
    /\ task[t].pc = "rebind" => volObj[task[t].new].paths \cup task[t].left = task[t].pubs

TrackInv == \A t \in Tasks : TrackAt(t)

KnowInv == SafeInv /\ TrackInv

(* Nothing is published while an unstage runs.                             *)
UnstageInv == \A t \in Tasks : task[t].op = "unstage" => \A p \in Paths : wanted[p] = "no"

ExactInv == KnowInv /\ MaxRestarts = 0 /\ UnstageInv /\ TrackingExact

(* The publish paths that show the staged session are known to a volume    *)
(* that could stop the session.                                            *)
Remounting == {"removeAll", "stage", "mount", "quota"}
Unused == ~Is(staging, {"live", "slow"}) \/ \A p \in Paths : bind[p] # staging

BindAt(t) ==
    /\ task[t].pc \in Remounting => \A p \in Paths : bind[p] = staging => staging = None
    /\ task[t].pc \in {"tear", "rebind"} => \A p \in Paths : bind[p] = staging => staging = None \/ p \in Current
    /\ task[t].pc = "untrack" => bind[task[t].path] = None
    /\ task[t].pc \in {"tear", "rebind", "retry"} => task[t].left \subseteq Current
    /\ task[t].pc = "stop" => volObj[volumes].unmounter /\ (task[t].pubs = {} \/ Unused)

BoundKnown ==
    volumes # None /\ volObj[volumes].unmounter /\ staging # None =>
        \A p \in Paths : bind[p] = staging =>
            p \in Current \/ \E t \in Rpcs : task[t].pc = "track" /\ task[t].path = p

BindInv == (\A t \in Tasks : BindAt(t)) /\ BoundKnown

SparingInv == KnowInv /\ ~DeviceLookupFails /\ BindInv

-----------------------------------------------------------------------------
(* A handler that returns keeps the object that is in the map.             *)
LEMMA FinishCurrent ==
    ASSUME NEW t \in Tasks, NEW current \in Vols \cup {None}, NEW objs, Finish(t, current, objs), volumes' = current
    PROVE  /\ current # None => volObj'[current] = objs[current]
           /\ Current' = IF current = None THEN {} ELSE objs[current].paths
BY DEF Finish, Current

LEMMA ReturnCurrent ==
    ASSUME TypeInv, NEW t \in Tasks, Finish(t, volumes, volObj), volumes' = volumes
    PROVE  /\ Current' = Current
           /\ volumes # None => volObj'[volumes] = volObj[volumes]
<1>1. volumes \in Vols \cup {None}
  BY DEF TypeInv, TypeOK
<1> QED
  BY <1>1, FinishCurrent DEF Current

LEMMA ReturnSteps ==
    ASSUME NEW t \in Tasks
    PROVE  (\/ LoadAndReturn(t) \/ RefuseStale(t) \/ StageFails(t) \/ MountFails(t) \/ QuotaFails(t)
            \/ PublishFails(t) \/ UnpublishFails(t) \/ UnpublishUnknown(t) \/ UnstageFails(t) \/ UnstageUnknown(t)
            \/ RecoverNotNeeded(t) \/ RecoverSkipLive(t) \/ RecoverStopFails(t) \/ RecoverAborts(t) \/ RetryReturn(t)
            \/ Return(t))
           => Finish(t, volumes, volObj) /\ volumes' = volumes
BY DEF LoadAndReturn, RefuseStale, StageFails, MountFails, QuotaFails, PublishFails, UnpublishFails, UnpublishUnknown,
       UnstageFails, UnstageUnknown, RecoverNotNeeded, RecoverSkipLive, RecoverStopFails, RecoverAborts, RetryReturn,
       Return, Fail, Forget

LEMMA StoreCurrent ==
    ASSUME SafeInv, NEW t \in Tasks, task[t].pc \in {"rebuild", "quota"}, task[t].op # "recover",
           NEW o \in Vols, NEW obj, obj.paths = {}, StoreVolume(t, o, obj)
    PROVE  /\ Current' = Current /\ Current = {} /\ volumes = None
           /\ volumes' = o /\ volObj'[o] = obj
           /\ task'[t] = Idle \/ (task'[t].pc = "bind" /\ task'[t].vol = o)
           /\ Others(t)
<1>0. task[t] \in Locals /\ PlaceOK(t, task[t]) /\ volObj \in [Vols -> Objects] /\ TypeInv /\ MutexInv
  BY DEF SafeInv, TypeInv, TypeOK, PlaceInv
<1>1. t \in Rpcs
  BY <1>0 DEF PlaceOK, Locals, Begin, Rebuilding, Staging, Retrying, Recovering
<1>2. volumes = None /\ Current = {}
  BY <1>0, <1>1 DEF MutexInv, UnknownPlaces, Rebuilding, Staging, Current
<1>3. volumes' = o /\ o # None
  BY NamesAssumption DEF StoreVolume
<1>4. CASE task[t].op = "stage"
  <2>1. Finish(t, o, [volObj EXCEPT ![o] = obj])
    BY <1>4 DEF StoreVolume
  <2>4. [volObj EXCEPT ![o] = obj][o] = obj
    BY <1>0
  <2>2. volObj'[o] = obj
    BY <1>3, <2>1, <2>4, FinishCurrent
  <2>3. Others(t) /\ task'[t] = Idle
    BY <1>0, <2>1, FinishOthers
  <2> QED
    BY <1>2, <1>3, <2>2, <2>3 DEF Current
<1>5. CASE task[t].op # "stage"
  <2>1. task' = [task EXCEPT ![t].vol = o, ![t].pc = "bind"] /\ volObj' = [volObj EXCEPT ![o] = obj]
    BY <1>5 DEF StoreVolume
  <2>2. volObj'[o] = obj
    BY <1>0, <2>1
  <2>3. Others(t) /\ task'[t].pc = "bind" /\ task'[t].vol = o
    BY <1>0, <2>1 DEF Others, TypeInv, TypeOK, Locals
  <2> QED
    BY <1>2, <1>3, <2>2, <2>3 DEF Current
<1> QED
  BY <1>4, <1>5

LEMMA NewObjects ==
    /\ [NoVolume EXCEPT !.context = HasContext].paths = {}
    /\ [NoVolume EXCEPT !.context = HasContext].unmounter = FALSE
    /\ [NoVolume EXCEPT !.unmounter = TRUE, !.context = TRUE].paths = {}
    /\ [NoVolume EXCEPT !.context = HasContext] \in Objects
    /\ [NoVolume EXCEPT !.unmounter = TRUE, !.context = TRUE] \in Objects
BY ContextAssumption DEF NoVolume, Objects

(* The steps that put a volume in the map.                                 *)
LEMMA StoreSteps ==
    ASSUME SafeInv, NEW t \in Tasks, Rebuild(t) \/ (Staged(t) /\ task[t].op # "recover")
    PROVE  \E o \in Vols, obj \in Objects :
              /\ obj.paths = {} /\ (Rebuild(t) => obj.unmounter = FALSE)
              /\ Current' = Current /\ Current = {} /\ volumes = None
              /\ volumes' = o /\ volObj'[o] = obj
              /\ task'[t] = Idle \/ (task'[t].pc = "bind" /\ task'[t].vol = o)
              /\ Others(t)
<1>0. task[t] \in Locals /\ PlaceOK(t, task[t])
  BY DEF SafeInv, TypeInv, TypeOK, PlaceInv
<1>1. CASE Rebuild(t)
  <2>1. task[t].pc = "rebuild" /\ task[t].op # "recover"
    BY <1>0, <1>1 DEF Rebuild, At, PlaceOK, Begin, Recovering, Staging
  <2>2. PICK o \in Vols, obj \in Objects : obj = [NoVolume EXCEPT !.context = HasContext] /\ StoreVolume(t, o, obj)
    BY <1>1, PickTypes, NewObjects DEF Rebuild
  <2>3. obj.paths = {} /\ obj.unmounter = FALSE
    BY <2>2, NewObjects
  <2> QED
    BY <2>1, <2>2, <2>3, StoreCurrent
<1>2. CASE Staged(t) /\ task[t].op # "recover"
  <2>1. task[t].pc = "quota"
    BY <1>2 DEF Staged, At
  <2>2. PICK o \in Vols, obj \in Objects :
            /\ obj = [NoVolume EXCEPT !.unmounter = TRUE, !.context = TRUE]
            /\ StoreVolume(t, o, obj)
    BY <1>2, PickTypes, NewObjects DEF Staged
  <2>3. obj.paths = {}
    BY <2>2, NewObjects
  <2>4. ~Rebuild(t)
    BY <2>1 DEF Rebuild, At
  <2>5. /\ Current' = Current /\ Current = {} /\ volumes = None
        /\ volumes' = o /\ volObj'[o] = obj
        /\ task'[t] = Idle \/ (task'[t].pc = "bind" /\ task'[t].vol = o)
        /\ Others(t)
    BY <1>2, <2>1, <2>2, <2>3, StoreCurrent
  <2> QED
    BY <2>3, <2>4, <2>5
<1> QED
  BY <1>1, <1>2

(* The paths of the volume in the map change only when a publish is        *)
(* tracked, an unpublish untracked, or the volume unstaged: a store finds  *)
(* no volume, and a recovery hands on what it collected.                   *)
LEMMA CurrentKept ==
    ASSUME KnowInv, NEW t \in Tasks, Step(t), ~Track(t), ~Untrack(t), ~Unstage(t)
    PROVE  Current' = Current
<1>0. SafeInv /\ TypeInv /\ TrackAt(t) /\ PlaceOK(t, task[t]) /\ volObj \in [Vols -> Objects]
      /\ volumes \in Vols \cup {None} /\ task[t] \in Locals
  BY DEF KnowInv, TrackInv, SafeInv, TypeInv, TypeOK, PlaceInv
<1>1. CASE UNCHANGED <<volumes, volObj>>
  BY <1>1 DEF Current
<1>2. CASE GetMutex(t) \/ Load(t) \/ Probe(t) \/ UnmountStale(t) \/ CheckStale(t) \/ RemoveAll(t) \/ StageUnmount(t)
           \/ Mount(t) \/ Unpublish(t)
  BY <1>1, <1>2 DEF GetMutex, Load, Probe, UnmountStale, CheckStale, RemoveAll, StageUnmount, Mount, Unpublish, nodeVars
<1>3. CASE RecoverCollect(t) \/ RecoverGoAhead(t) \/ RecoverStop(t) \/ RecoverGuard(t) \/ RecoverTear(t)
           \/ RecoverTorn(t) \/ RetryStart(t) \/ RetryPath(t)
  BY <1>1, <1>3 DEF RecoverCollect, RecoverGoAhead, RecoverStop, RecoverGuard, RecoverTear, RecoverTorn, RetryStart,
                    RetryPath, nodeVars
<1>4. CASE Finish(t, volumes, volObj) /\ volumes' = volumes
  BY <1>0, <1>4, ReturnCurrent
<1>5. CASE Publish(t)
  BY <1>1, <1>4, <1>5, ReturnSteps DEF Publish, nodeVars
<1>6. CASE Rebuild(t) \/ (Staged(t) /\ task[t].op # "recover")
  BY <1>0, <1>6, StoreSteps
<1>7. CASE Staged(t) /\ task[t].op = "recover"
  <2>1. PICK o, obj : o # volumes /\ volObj' = [volObj EXCEPT ![o] = obj] /\ volumes' = volumes
    BY <1>7, PickTypes DEF Staged, FreshVols
  <2> QED
    BY <1>0, <2>1 DEF Current
<1>8. CASE RecoverRebind(t)
  <2>1. PICK p : volObj' = [volObj EXCEPT ![task[t].new].paths = @ \cup {p}]
    BY <1>8 DEF RecoverRebind
  <2>2. task[t].new # volumes /\ volumes' = volumes
    BY <1>0, <1>8 DEF RecoverRebind, At, TrackAt
  <2> QED
    BY <1>0, <2>1, <2>2 DEF Current
<1>9. CASE RecoverStore(t)
  <2>1. /\ task[t].pc = "rebind" /\ task[t].left = {} /\ volumes' = task[t].new
        /\ Finish(t, task[t].new, volObj)
    BY <1>9 DEF RecoverStore, At
  <2>2. task[t].new \in Vols /\ task[t].op = "recover"
    BY <1>0, <2>1 DEF PlaceOK, Locals, Begin, Rebuilding, Staging, Retrying, Recovering
  <2>3. task[t].new # None
    BY <2>2, NamesAssumption
  <2>4. Current' = volObj[task[t].new].paths
    BY <2>1, <2>2, <2>3, FinishCurrent
  <2>5. volObj[task[t].new].paths = task[t].pubs /\ task[t].pubs = Current
    BY <1>0, <2>1, <2>2 DEF TrackAt, Collected
  <2> QED
    BY <2>4, <2>5
<1> QED
  BY <1>2, <1>3, <1>4, <1>5, <1>6, <1>7, <1>8, <1>9, ReturnSteps DEF Step, StageStep, PublishStep, RecoverStep

-----------------------------------------------------------------------------
LEMMA IdleTrack ==
    ASSUME NEW t \in Tasks, task'[t].pc \in {"idle", "sweep", "getMutex", "lock", "load"}
    PROVE  TrackAt(t)'
BY DEF TrackAt, Looked, Collected, Staging

(* A task that moves on without touching what it knows.                    *)
LEMMA MoveTrack ==
    ASSUME TypeInv, NEW t \in Tasks, TrackAt(t), UNCHANGED <<volumes, volObj>>, NEW x, Goto(t, x),
           x \notin {"tear", "rebind"}, x \in Looked => task[t].pc \in Looked,
           task[t].op = "recover" /\ x \in Collected => task[t].pc \in Collected
    PROVE  TrackAt(t)'
<1>1. task'[t].pc = x /\ task'[t].vol = task[t].vol /\ task'[t].op = task[t].op /\ task'[t].pubs = task[t].pubs
  BY DEF Goto, TypeInv, TypeOK, Locals
<1>2. Current' = Current /\ volumes' = volumes
  BY DEF Current
<1> QED
  BY <1>1, <1>2 DEF TrackAt

LEMMA TrackGoto ==
    ASSUME KnowInv, NEW t \in Tasks,
           \/ Probe(t) \/ UnmountStale(t) \/ CheckStale(t) \/ RemoveAll(t) \/ StageUnmount(t) \/ Mount(t) \/ Unpublish(t)
           \/ RecoverGoAhead(t) \/ RecoverStop(t) \/ RecoverGuard(t) \/ (Publish(t) /\ Goto(t, "track") /\ UNCHANGED nodeVars)
    PROVE  TrackAt(t)'
<1>0. TypeInv /\ TrackAt(t) /\ TaskTypes /\ PlaceOK(t, task[t]) /\ task[t] \in Locals
  BY Parts DEF KnowInv, SafeInv, TrackInv, TypeInv, TypeOK, PlaceInv
<1>1. UNCHANGED <<volumes, volObj>>
  BY DEF Probe, UnmountStale, CheckStale, RemoveAll, StageUnmount, Mount, Unpublish, RecoverGoAhead, RecoverStop,
         RecoverGuard, nodeVars
<1>2. CASE Probe(t)
  <2>1. task[t].op # "recover" /\ (Goto(t, "rebuild") \/ Goto(t, "unmountStale"))
    BY <1>0, <1>2, GotoSteps DEF Probe, At, PlaceOK, Begin, Recovering, Staging
  <2> QED
    BY <1>0, <1>1, <2>1, MoveTrack DEF Looked
<1>3. CASE UnmountStale(t) \/ CheckStale(t) \/ RemoveAll(t) \/ StageUnmount(t) \/ Mount(t)
  <2>1. task[t].pc \in {"unmountStale", "checkStale", "removeAll", "stage", "mount"}
    BY <1>3 DEF UnmountStale, CheckStale, RemoveAll, StageUnmount, Mount, At
  <2>2. PICK x \in {"checkStale", "removeAll", "stage", "mount", "quota"} : Goto(t, x)
    BY <1>0, <1>3, GotoSteps
  <2>3. task[t].pc \in Collected /\ x \notin Looked /\ x \notin {"tear", "rebind"}
    BY <2>1, <2>2 DEF Looked, Collected, Staging
  <2> QED
    BY <1>0, <1>1, <2>2, <2>3, MoveTrack
<1>4. CASE Unpublish(t) \/ (Publish(t) /\ Goto(t, "track"))
  <2>1. task[t].pc \in Looked
    BY <1>4 DEF Unpublish, Publish, At, Looked
  <2>2. PICK x \in {"track", "untrack"} : Goto(t, x)
    BY <1>4 DEF Unpublish
  <2>3. x \notin Collected /\ x \notin {"tear", "rebind"}
    BY <2>2 DEF Collected, Staging
  <2> QED
    BY <1>0, <1>1, <2>1, <2>2, <2>3, MoveTrack
<1>5. CASE RecoverGoAhead(t) \/ RecoverStop(t) \/ RecoverGuard(t)
  <2>1. task[t].pc \in Collected
    BY <1>5 DEF RecoverGoAhead, RecoverStop, RecoverGuard, At, Collected
  <2>2. PICK x \in {"stop", "guard", "unmountStale"} : Goto(t, x)
    BY <1>5 DEF RecoverGoAhead, RecoverStop, RecoverGuard
  <2>3. x \notin Looked /\ x \notin {"tear", "rebind"}
    BY <2>2 DEF Looked
  <2> QED
    BY <1>0, <1>1, <2>1, <2>2, <2>3, MoveTrack
<1> QED
  BY <1>2, <1>3, <1>4, <1>5

LEMMA TrackSelf ==
    ASSUME KnowInv, NEW t \in Tasks, Step(t)
    PROVE  TrackAt(t)'
<1>0. /\ SafeInv /\ TypeInv /\ MutexInv /\ TrackAt(t) /\ TaskTypes /\ PlaceOK(t, task[t])
      /\ task[t] \in Locals /\ task \in [Tasks -> Locals] /\ volObj \in [Vols -> Objects] /\ volumes \in Vols \cup {None}
  BY Parts DEF KnowInv, SafeInv, TrackInv, TypeInv, TypeOK, PlaceInv
<1>1. ASSUME NEW current, NEW objs, Finish(t, current, objs) PROVE TrackAt(t)'
  BY <1>0, <1>1, FinishOthers, IdleTrack DEF Idle
<1>2. CASE GetMutex(t)
  BY <1>0, <1>2, IdleTrack DEF GetMutex, Locals
<1>3. CASE Load(t)
  <2> DEFINE x == AfterLoad[task[t].op]
  <2>1. task' = [task EXCEPT ![t].vol = volumes, ![t].pc = x] /\ UNCHANGED nodeVars /\ task[t].op \in DOMAIN AfterLoad
    BY <1>3 DEF Load
  <2>2. x \in {"bind", "unbind", "unstage", "recheck", "retryCheck", "probe", "unbindUnknown", "unstageUnknown"}
    BY <2>1 DEF AfterLoad, Known, Unknown
  <2> HIDE DEF x
  <2>3. task'[t].vol = volumes' /\ task'[t].pc = x
    BY <1>0, <2>1 DEF Locals, nodeVars
  <2> QED
    BY <2>2, <2>3 DEF TrackAt, Collected, Staging
<1>4. CASE Rebuild(t) \/ (Staged(t) /\ task[t].op # "recover")
  <2>1. \/ task'[t] = Idle
        \/ task'[t].pc = "bind" /\ task'[t].vol = volumes'
    BY <1>0, <1>4, StoreSteps
  <2>2. CASE task'[t] = Idle
    BY <2>2, IdleTrack DEF Idle
  <2>3. CASE task'[t].pc = "bind" /\ task'[t].vol = volumes'
    BY <2>3 DEF TrackAt, Collected, Staging
  <2> QED
    BY <2>1, <2>2, <2>3
<1>5. CASE Staged(t) /\ task[t].op = "recover"
  <2>1. PICK o \in Vols, obj \in Objects :
            /\ o # volumes /\ obj = [NoVolume EXCEPT !.unmounter = TRUE, !.context = TRUE]
            /\ volObj' = [volObj EXCEPT ![o] = obj] /\ volumes' = volumes
            /\ task' = [task EXCEPT ![t].new = o, ![t].pc = "tear", ![t].left = task[t].pubs]
    BY <1>5, PickTypes, NewObjects DEF Staged, FreshVols
  <2>2. task'[t].pc = "tear" /\ task'[t].new = o /\ task'[t].pubs = task[t].pubs
    BY <1>0, <2>1 DEF Locals
  <2>3. volObj'[o].paths = {}
    BY <1>0, <2>1, NewObjects
  <2>4. task[t].pubs = Current
    BY <1>0, <1>5 DEF Staged, At, TrackAt, Collected, Staging
  <2>5. Current' = Current
    BY <1>5, CurrentKept DEF Staged, Track, Untrack, Unstage, At
  <2> QED
    BY <2>1, <2>2, <2>3, <2>4, <2>5 DEF TrackAt, Looked
<1>6. CASE RecoverCollect(t)
  <2>1. /\ task[t].pc = "recheck" /\ UNCHANGED <<volumes, volObj>>
        /\ task' = [task EXCEPT ![t].pubs = VolOf(t).paths, ![t].pc = "decide"]
    BY <1>6 DEF RecoverCollect, At, nodeVars
  <2>2. task'[t].pc = "decide" /\ task'[t].pubs = VolOf(t).paths /\ task'[t].vol = task[t].vol
    BY <1>0, <2>1 DEF Locals
  <2>3. task[t].vol = volumes /\ task[t].vol # None
    BY <1>0, <2>1, NamesAssumption DEF TrackAt, Looked, PlaceOK, KnownPlaces, Recovering
  <2>4. VolOf(t).paths = Current'
    BY <2>1, <2>3 DEF VolOf, Current
  <2> QED
    BY <2>1, <2>2, <2>3, <2>4 DEF TrackAt
<1>7. CASE RecoverTear(t)
  <2>1. task[t].pc = "tear" /\ UNCHANGED <<volumes, volObj>>
    BY <1>7 DEF RecoverTear, At, nodeVars
  <2>2. PICK left, torn : \/ task' = [task EXCEPT ![t].left = left]
                           \/ task' = [task EXCEPT ![t].left = left, ![t].torn = torn]
    BY <1>7 DEF RecoverTear
  <2>3. /\ task'[t].pc = "tear" /\ task'[t].new = task[t].new /\ task'[t].pubs = task[t].pubs
        /\ task'[t].op = task[t].op
    BY <1>0, <2>1, <2>2 DEF Locals
  <2>4. Current' = Current
    BY <2>1 DEF Current
  <2> QED
    BY <1>0, <2>1, <2>3, <2>4 DEF TrackAt, Looked, Collected
<1>8. CASE RecoverTorn(t)
  <2>1. /\ task[t].pc = "tear" /\ UNCHANGED <<volumes, volObj>>
        /\ task' = [task EXCEPT ![t].pc = "rebind", ![t].left = task[t].pubs]
    BY <1>8 DEF RecoverTorn, At, nodeVars
  <2>2. /\ task'[t].pc = "rebind" /\ task'[t].new = task[t].new /\ task'[t].pubs = task[t].pubs
        /\ task'[t].op = task[t].op /\ task'[t].left = task[t].pubs
    BY <1>0, <2>1 DEF Locals
  <2>3. Current' = Current
    BY <2>1 DEF Current
  <2>4. volObj'[task'[t].new].paths \cup task'[t].left = task'[t].pubs
    BY <1>0, <2>1, <2>2 DEF TrackAt
  <2> QED
    BY <1>0, <2>1, <2>2, <2>3, <2>4 DEF TrackAt, Looked, Collected
<1>9. CASE RecoverRebind(t)
  <2>1. PICK p \in task[t].left : /\ task' = [task EXCEPT ![t].left = @ \ {p}]
                                  /\ volObj' = [volObj EXCEPT ![task[t].new].paths = @ \cup {p}]
    BY <1>9 DEF RecoverRebind
  <2>2. task[t].pc = "rebind" /\ volumes' = volumes /\ task[t].new \in Vols
    BY <1>0, <1>9 DEF RecoverRebind, At, PlaceOK
  <2>3. /\ task'[t].pc = "rebind" /\ task'[t].new = task[t].new /\ task'[t].pubs = task[t].pubs
        /\ task'[t].op = task[t].op /\ task'[t].left = task[t].left \ {p}
    BY <1>0, <2>1, <2>2 DEF Locals
  <2>4. Current' = Current
    BY <1>9, CurrentKept DEF RecoverRebind, Track, Untrack, Unstage, At
  <2>5. volObj'[task[t].new].paths = volObj[task[t].new].paths \cup {p}
    BY <1>0, <2>1, <2>2 DEF Objects
  <2>6. volObj[task[t].new].paths \cup task[t].left = task[t].pubs
    BY <1>0, <2>2 DEF TrackAt
  <2>7. (volObj[task[t].new].paths \cup {p}) \cup (task[t].left \ {p}) = task[t].pubs
    BY <2>1, <2>6
  <2> QED
    BY <1>0, <2>2, <2>3, <2>4, <2>5, <2>7 DEF TrackAt, Looked, Collected
<1>10. CASE RetryStart(t)
  <2>1. task'[t].pc = "retry"
    BY <1>0, <1>10 DEF RetryStart, Locals
  <2> QED
    BY <2>1 DEF TrackAt, Looked, Collected, Staging
<1>11. CASE RetryPath(t)
  <2>1. task'[t].pc = "retry"
    BY <1>0, <1>11 DEF RetryPath, At, Locals
  <2> QED
    BY <2>1 DEF TrackAt, Looked, Collected, Staging
<1>12. CASE Publish(t)
  BY <1>1, <1>12, TrackGoto DEF Publish, Return
<1>13. CASE Track(t) \/ Untrack(t) \/ Unstage(t) \/ RecoverStore(t)
  <2>1. \E current, objs : Finish(t, current, objs)
    BY <1>13 DEF Track, Untrack, Unstage, RecoverStore, Forget, Return
  <2> QED
    BY <1>1, <2>1
<1>14. CASE LoadAndReturn(t) \/ RefuseStale(t) \/ StageFails(t) \/ MountFails(t) \/ QuotaFails(t)
            \/ PublishFails(t) \/ UnpublishFails(t) \/ UnpublishUnknown(t) \/ UnstageFails(t) \/ UnstageUnknown(t)
            \/ RecoverNotNeeded(t) \/ RecoverSkipLive(t) \/ RecoverStopFails(t) \/ RecoverAborts(t) \/ RetryReturn(t)
  <2>1. Finish(t, volumes, volObj)
    BY <1>14, ReturnSteps
  <2> QED
    BY <1>1, <2>1
<1> QED
  BY <1>2, <1>3, <1>4, <1>5, <1>6, <1>7, <1>8, <1>9, <1>10, <1>11, <1>12, <1>13, <1>14, TrackGoto
     DEF Step, StageStep, PublishStep, RecoverStep

(* Whoever is inside is alone there.                                       *)
LEMMA StepInside ==
    ASSUME KnowInv, NEW t \in Tasks, Step(t), ~GetMutex(t)
    PROVE  /\ Others(t) /\ InCriticalSection(t)
           /\ \A u \in Tasks : u # t => ~InCriticalSection(u) /\ ~InCriticalSection(u)'
<1>0. Kubelet /\ TypeInv /\ MutexInv /\ UnstageAlone /\ VolumeSerialized
  BY OneInside DEF KnowInv, SafeInv
<1>1. Others(t)
  BY <1>0, StepOthers
<1>2. InCriticalSection(t)
  <2>1. CASE LoadAndReturn(t)
    BY <2>1 DEF LoadAndReturn, At, InCriticalSection
  <2> QED
    BY <1>0, <2>1, LoadInv, StageMutex, PublishMutex, RecoverMutex DEF Step, StaysIn, Leaves, Discards
<1>3. \A u \in Tasks : u # t => ~InCriticalSection(u) /\ ~InCriticalSection(u)'
  BY <1>0, <1>1, <1>2 DEF VolumeSerialized, Others, InCriticalSection
<1> QED
  BY <1>1, <1>2, <1>3

(* A step outside leaves the map and the object in it alone.               *)
Outside(t) ==
    /\ Others(t) /\ ~InCriticalSection(t) /\ task'[t].pc \in {"idle", "sweep", "getMutex", "lock", "load"}
    /\ volumes' = volumes /\ (volumes # None => volObj'[volumes] = volObj[volumes])
    /\ t \in Monitors \/ volObj' = volObj
    /\ UNCHANGED <<staging, bind>>

LEMMA OutsideSteps ==
    ASSUME TypeInv, MutexInv, NEW t \in Tasks
    PROVE  /\ GetMutex(t) \/ Lock(t) => Outside(t) /\ UNCHANGED <<volObj, fuse, wanted>>
           /\ \A o, p : t \in Rpcs /\ Call(t, o, p) => Outside(t) /\ UNCHANGED <<volObj, fuse>>
           /\ t \in Monitors /\ (Sweep(t) \/ SweepVerdict(t)) => Outside(t) /\ UNCHANGED <<fuse, wanted>>
<1>0. task \in [Tasks -> Locals] /\ volumes \in Vols \cup {None}
  BY DEF TypeInv, TypeOK
<1>1. ASSUME GetMutex(t) PROVE Outside(t) /\ UNCHANGED <<volObj, fuse, wanted>>
  BY <1>0, <1>1 DEF GetMutex, Outside, Others, Locals, hostVars, ghostVars, At, InCriticalSection
<1>2. ASSUME Lock(t) PROVE Outside(t) /\ UNCHANGED <<volObj, fuse, wanted>>
  BY <1>2, GotoOthers DEF Lock, Outside, hostVars, ghostVars, At, InCriticalSection
<1>3. ASSUME NEW o, NEW p, t \in Rpcs, Call(t, o, p) PROVE Outside(t) /\ UNCHANGED <<volObj, fuse>>
  <2>1. UNCHANGED <<volumes, volObj, fuse, staging, bind>>
    BY <1>3 DEF Call, nodeVars, hostVars
  <2>2. ~InCriticalSection(t)
    BY <1>3 DEF Call, At, InCriticalSection
  <2> QED
    BY <1>3, <2>1, <2>2, CallOthers DEF Outside
<1>4. ASSUME t \in Monitors, Sweep(t) \/ SweepVerdict(t) PROVE Outside(t) /\ UNCHANGED <<fuse, wanted>>
  <2>1. UNCHANGED <<volumes, fuse, staging, bind, wanted>>
    BY <1>4 DEF Sweep, SweepVerdict, nodeVars, hostVars, ghostVars
  <2>2. volumes # None => volObj'[volumes] = volObj[volumes]
    BY <1>0, <1>4 DEF Sweep, SweepVerdict, nodeVars
  <2>3. ~InCriticalSection(t)
    BY <1>4 DEF Sweep, SweepVerdict, At, InCriticalSection
  <2> QED
    BY <1>4, <2>1, <2>2, <2>3, SweepOthers DEF Outside
<1> QED
  BY <1>1, <1>2, <1>3, <1>4

LEMMA OutsideTrack ==
    ASSUME KnowInv, NEW t \in Tasks, Outside(t)
    PROVE  TrackInv' /\ Current' = Current
<1>1. Current' = Current /\ volumes' = volumes
  BY DEF Outside, Current
<1>2. ASSUME NEW u \in Tasks, u # t PROVE TrackAt(u)'
  <2>1. task'[u] = task[u] /\ TrackAt(u) /\ PlaceOK(u, task[u]) /\ task[u] \in Locals
    BY <1>2 DEF Outside, Others, KnowInv, TrackInv, SafeInv, TypeInv, PlaceInv, TypeOK
  <2>2. CASE volObj' = volObj
    BY <1>1, <2>1, <2>2 DEF TrackAt
  <2>3. CASE volObj' # volObj
    <3>1. u \notin Monitors
      BY <1>2, <2>3, MonitorsAssumption DEF Outside
    <3>2. task[u].pc \notin {"tear", "rebind"}
      BY <2>1, <3>1 DEF PlaceOK, Locals, Begin, Rebuilding, Staging, Retrying, Recovering
    <3> QED
      BY <1>1, <2>1, <3>2 DEF TrackAt
  <2> QED
    BY <2>2, <2>3
<1>3. TrackAt(t)'
  BY IdleTrack DEF Outside
<1> QED
  BY <1>1, <1>2, <1>3 DEF TrackInv

LEMMA TrackStep ==
    ASSUME KnowInv, [Next]_vars
    PROVE  TrackInv'
<1>0. TypeInv /\ MutexInv /\ TrackInv
  BY DEF KnowInv, SafeInv
<1>1. ASSUME NEW t \in Tasks, Outside(t) PROVE TrackInv'
  BY <1>1, OutsideTrack
<1>2. ASSUME NEW t \in Tasks, Step(t), ~GetMutex(t) PROVE TrackInv'
  <2>1. TrackAt(t)'
    BY <1>2, TrackSelf
  <2>2. ASSUME NEW u \in Tasks, u # t PROVE TrackAt(u)'
    <3>1. ~InCriticalSection(u)'
      BY <1>2, <2>2, StepInside
    <3> QED
      BY <3>1, IdleTrack DEF InCriticalSection
  <2> QED
    BY <2>1, <2>2 DEF TrackInv
<1>3. ASSUME NEW t \in Rpcs, CallStage(t) \/ CallUnstage(t) PROVE TrackInv'
  BY <1>0, <1>1, <1>3, OutsideSteps DEF CallStage, CallUnstage, Tasks
<1>4. ASSUME NEW t \in Rpcs, NEW p, CallPublish(t, p) \/ CallUnpublish(t, p) PROVE TrackInv'
  BY <1>0, <1>1, <1>4, OutsideSteps DEF CallPublish, CallUnpublish, Tasks
<1>5. ASSUME NEW t \in Monitors, Sweep(t) \/ SweepVerdict(t) PROVE TrackInv'
  BY <1>0, <1>1, <1>5, OutsideSteps DEF Tasks
<1>6. ASSUME NEW t \in Tasks, GetMutex(t) \/ Lock(t) PROVE TrackInv'
  BY <1>0, <1>1, <1>6, OutsideSteps
<1>7. CASE UNCHANGED <<task, volumes, volObj>>
  BY <1>0, <1>7 DEF TrackInv, TrackAt, Current
<1>8. CASE SessionFails \/ SessionEases \/ CacheExpires \/ SessionEnds \/ Reap \/ LateMount \/ LateUnmount
           \/ BackoffEnds \/ UNCHANGED vars
  BY <1>7, <1>8 DEF SessionFails, SessionEases, CacheExpires, SessionMoves, SessionEnds, Reap, LateMount, LateUnmount,
                    BackoffEnds, vars, nodeVars
<1>9. CASE Restart
  BY <1>9, IdleTrack DEF Restart, TrackInv, Idle
<1> QED
  BY <1>2, <1>3, <1>4, <1>5, <1>6, <1>8, <1>9 DEF Next, Environment

LEMMA KnowStep == KnowInv /\ [Next]_vars => KnowInv'
BY SafeStep, TrackStep DEF KnowInv

LEMMA KnowInit == Kubelet /\ Init => KnowInv
<1>1. Init => TrackInv
  BY DEF Init, Idle, TrackInv, TrackAt, Looked, Collected, Staging
<1> QED
  BY <1>1, SafeInit DEF KnowInv

-----------------------------------------------------------------------------
(* TrackingExact is about the paths of the volume in the map.              *)
LEMMA ExactCurrent ==
    TrackingExact <=> \A p \in Paths : (wanted[p] = "yes" => p \in Current) /\ (wanted[p] = "no" => p \notin Current)
BY DEF TrackingExact, Current

LEMMA ExactNext ==
    ASSUME \A p \in Paths : (wanted'[p] = "yes" => p \in Current') /\ (wanted'[p] = "no" => p \notin Current')
    PROVE  TrackingExact'
BY DEF TrackingExact, Current

(* Only a publish or an unpublish that succeeds tells kubelet so.          *)
LEMMA WantedKept ==
    ASSUME NEW t \in Tasks, Step(t), ~Track(t), ~Untrack(t), ~UnpublishUnknown(t)
    PROVE  wanted' = wanted
<1>1. CASE GetMutex(t) \/ Load(t) \/ LoadAndReturn(t) \/ StageStep(t)
  BY <1>1 DEF GetMutex, Load, LoadAndReturn, StageStep, Probe, Rebuild, UnmountStale, CheckStale, RefuseStale, RemoveAll,
              StageUnmount, StageFails, Mount, MountFails, Staged, QuotaFails, StoreVolume, ghostVars
<1>2. CASE PublishStep(t)
  BY <1>2 DEF PublishStep, Publish, PublishFails, Unpublish, UnpublishFails, Unstage, UnstageFails, UnstageUnknown,
              ghostVars
<1>3. CASE RecoverStep(t)
  BY <1>3 DEF RecoverStep, RecoverNotNeeded, RecoverCollect, RecoverSkipLive, RecoverGoAhead, RecoverStop,
              RecoverStopFails, RecoverGuard, RecoverAborts, RecoverTear, RecoverTorn, RecoverRebind, RecoverStore,
              RetryStart, RetryPath, RetryReturn, ghostVars
<1> QED
  BY <1>1, <1>2, <1>3 DEF Step

(* A handler keeps its kind until it returns.                              *)
LEMMA OpKept ==
    ASSUME TypeInv, NEW t \in Tasks, Step(t) \/ Lock(t)
    PROVE  task'[t].op \in {task[t].op, "none"}
<1>0. task[t] \in Locals /\ task \in [Tasks -> Locals] /\ TaskTypes
  BY Parts DEF TypeInv, TypeOK
<1>1. ASSUME NEW current, NEW objs, Finish(t, current, objs) PROVE task'[t].op = "none"
  BY <1>1, FinishOthers DEF Idle
<1>2. ASSUME NEW x, Goto(t, x) PROVE task'[t].op = task[t].op
  BY <1>0, <1>2 DEF Goto, Locals
<1>3. CASE \/ LoadAndReturn(t) \/ RefuseStale(t) \/ StageFails(t) \/ MountFails(t) \/ QuotaFails(t)
           \/ PublishFails(t) \/ UnpublishFails(t) \/ UnpublishUnknown(t) \/ UnstageFails(t) \/ UnstageUnknown(t)
           \/ RecoverNotNeeded(t) \/ RecoverSkipLive(t) \/ RecoverStopFails(t) \/ RecoverAborts(t) \/ RetryReturn(t)
  BY <1>1, <1>3, ReturnSteps
<1>4. CASE Track(t) \/ Untrack(t) \/ Unstage(t) \/ RecoverStore(t)
  <2>1. \E current, objs : Finish(t, current, objs)
    BY <1>4 DEF Track, Untrack, Unstage, RecoverStore, Forget, Return
  <2> QED
    BY <1>1, <2>1
<1>5. CASE GotoStep(t) \/ Publish(t)
  BY <1>0, <1>1, <1>2, <1>5, GotoSteps DEF GotoStep, Publish, Return
<1>6. CASE GetMutex(t) \/ Load(t)
  BY <1>0, <1>6 DEF GetMutex, Load, Locals
<1>7. CASE RecoverCollect(t) \/ RecoverTorn(t) \/ RetryStart(t)
  BY <1>0, <1>7 DEF RecoverCollect, RecoverTorn, RetryStart, Locals
<1>8. CASE RecoverTear(t) \/ RecoverRebind(t) \/ RetryPath(t)
  <2>1. PICK left, torn : \/ task' = [task EXCEPT ![t].left = left]
                           \/ task' = [task EXCEPT ![t].left = left, ![t].torn = torn]
    BY <1>8 DEF RecoverTear, RecoverRebind, RetryPath
  <2> QED
    BY <1>0, <2>1 DEF Locals
<1>9. ASSUME NEW o, NEW obj, StoreVolume(t, o, obj) PROVE task'[t].op \in {task[t].op, "none"}
  <2>1. \/ Finish(t, o, [volObj EXCEPT ![o] = obj])
        \/ task' = [task EXCEPT ![t].vol = o, ![t].pc = "bind"]
    BY <1>9 DEF StoreVolume
  <2> QED
    BY <1>0, <1>1, <2>1 DEF Locals
<1>10. CASE Rebuild(t)
  BY <1>9, <1>10 DEF Rebuild
<1>11. CASE Staged(t)
  <2>1. CASE task[t].op # "recover"
    BY <1>9, <1>11, <2>1 DEF Staged
  <2>2. CASE task[t].op = "recover"
    BY <1>0, <1>11, <2>2 DEF Staged, Locals
  <2> QED
    BY <2>1, <2>2
<1> QED
  BY <1>3, <1>4, <1>5, <1>6, <1>7, <1>8, <1>10, <1>11 DEF Step, StageStep, PublishStep, RecoverStep, GotoStep

(* The task of an unstage is the only call.                                *)
LEMMA OnlyUnstage ==
    ASSUME Kubelet, TypeInv, NEW t \in Rpcs, NEW u \in Tasks, task[u].op = "unstage"
    PROVE  u = t
<1>1. PlaceOK(u, task[u])
  BY DEF TypeInv, PlaceInv
<1> QED
  BY <1>1 DEF PlaceOK, Kubelet, OneCallAtATime

LEMMA ExactStep ==
    ASSUME ExactInv, [Next]_vars
    PROVE  UnstageInv' /\ TrackingExact'
<1>0. /\ KnowInv /\ SafeInv /\ Kubelet /\ TypeInv /\ MutexInv /\ UnstageInv /\ TrackingExact
      /\ task \in [Tasks -> Locals] /\ wanted \in [Paths -> {"no", "maybe", "yes"}] /\ restarts \in 0..MaxRestarts
  BY DEF ExactInv, KnowInv, SafeInv, TypeInv, TypeOK
<1>1. ASSUME wanted' = wanted, \A u \in Tasks : task'[u].op = "unstage" => task[u].op = "unstage"
      PROVE  UnstageInv'
  BY <1>0, <1>1 DEF UnstageInv
<1>2. ASSUME Current' = Current, wanted' = wanted PROVE TrackingExact'
  BY <1>0, <1>2, ExactCurrent, ExactNext
<1>3. ASSUME NEW t \in Tasks, Outside(t), wanted' = wanted, task'[t].op # "unstage" \/ task[t].op = "unstage"
      PROVE  UnstageInv' /\ TrackingExact'
  <2>1. Current' = Current
    BY <1>0, <1>3, OutsideTrack
  <2> QED
    BY <1>1, <1>2, <1>3, <2>1 DEF Outside, Others
<1>4. ASSUME NEW t \in Rpcs, NEW p \in Paths, CallPublish(t, p) \/ CallUnpublish(t, p)
      PROVE  UnstageInv' /\ TrackingExact'
  <2>1. \A q \in Paths : wanted'[q] = wanted[q] \/ wanted'[q] = "maybe"
    BY <1>0, <1>4 DEF CallPublish, CallUnpublish
  <2>2. PICK o \in {"publish", "unpublish"} : Call(t, o, p)
    BY <1>4 DEF CallPublish, CallUnpublish
  <2>3. Outside(t) /\ t \in Tasks
    BY <1>0, <2>2, OutsideSteps DEF Tasks
  <2>4. Current' = Current
    BY <1>0, <2>3, OutsideTrack
  <2>5. TrackingExact'
    BY <1>0, <2>1, <2>4, ExactCurrent, ExactNext
  <2>6. [Idle EXCEPT !.pc = "getMutex", !.op = o, !.path = p].op = o
    BY DEF Idle
  <2>7. task'[t].op = o
    BY <1>0, <2>2, <2>3, <2>6 DEF Call
  <2>8. \A u \in Tasks : task'[u].op # "unstage"
    BY <1>0, <2>3, <2>7, OnlyUnstage DEF Outside, Others
  <2> QED
    BY <2>5, <2>8 DEF UnstageInv
<1>5. ASSUME NEW t \in Rpcs, CallStage(t) \/ CallUnstage(t) PROVE UnstageInv' /\ TrackingExact'
  <2>1. wanted' = wanted
    BY <1>5 DEF CallStage, CallUnstage
  <2>2. PICK o \in {"stage", "unstage"} : Call(t, o, None) /\ (o = "unstage" => \A p \in Paths : wanted[p] = "no")
    BY <1>5 DEF CallStage, CallUnstage
  <2>3. Outside(t) /\ t \in Tasks
    BY <1>0, <2>2, OutsideSteps DEF Tasks
  <2>4. Current' = Current
    BY <1>0, <2>3, OutsideTrack
  <2>5. [Idle EXCEPT !.pc = "getMutex", !.op = o, !.path = None].op = o
    BY DEF Idle
  <2>6. task'[t].op = o
    BY <1>0, <2>2, <2>3, <2>5 DEF Call
  <2>7. UnstageInv'
    BY <1>0, <2>1, <2>2, <2>3, <2>6 DEF UnstageInv, Outside, Others
  <2> QED
    BY <1>2, <2>1, <2>4, <2>7
<1>6. ASSUME NEW t \in Tasks, GetMutex(t) \/ Lock(t) PROVE UnstageInv' /\ TrackingExact'
  <2>1. Outside(t) /\ wanted' = wanted
    BY <1>0, <1>6, OutsideSteps
  <2>2. task'[t].op \in {task[t].op, "none"}
    BY <1>0, <1>6, OpKept DEF Step
  <2> QED
    BY <1>3, <2>1, <2>2
<1>7. ASSUME NEW t \in Monitors, Sweep(t) \/ SweepVerdict(t) PROVE UnstageInv' /\ TrackingExact'
  <2>1. Outside(t) /\ wanted' = wanted /\ t \in Tasks
    BY <1>0, <1>7, OutsideSteps DEF Tasks
  <2>2. TypeInv'
    BY <1>0, TypeStep
  <2>3. PlaceOK(t, task'[t])
    BY <2>1, <2>2 DEF TypeInv, PlaceInv
  <2>4. task'[t].op # "unstage"
    BY <2>3, MonitorsAssumption DEF PlaceOK
  <2> QED
    BY <1>3, <2>1, <2>4
<1>8. ASSUME NEW t \in Tasks, Step(t), ~GetMutex(t) PROVE UnstageInv' /\ TrackingExact'
  <2>0. /\ Others(t) /\ task[t] \in Locals /\ PlaceOK(t, task[t]) /\ TrackAt(t) /\ volObj \in [Vols -> Objects]
        /\ volumes \in Vols \cup {None}
    BY <1>0, <1>8, StepInside DEF TypeInv, TypeOK, PlaceInv, KnowInv, TrackInv
  <2>1. task'[t].op \in {task[t].op, "none"}
    BY <1>0, <1>8, OpKept
  <2>2. ASSUME wanted' = wanted PROVE UnstageInv'
    BY <1>1, <2>0, <2>1, <2>2 DEF Others
  <2>3. CASE ~Track(t) /\ ~Untrack(t) /\ ~Unstage(t) /\ ~UnpublishUnknown(t)
    BY <1>0, <1>2, <1>8, <2>2, <2>3, CurrentKept, WantedKept
  <2>4. CASE Unstage(t)
    <3>1. wanted' = wanted
      BY <2>4 DEF Unstage, ghostVars
    <3>2. task[t].op = "unstage"
      BY <2>0, <2>4 DEF Unstage, At, PlaceOK, Locals, Begin, Rebuilding, Staging, Retrying, Recovering
    <3>3. \A p \in Paths : wanted[p] = "no"
      BY <1>0, <3>2 DEF UnstageInv
    <3>4. CASE Return(t)
      BY <1>0, <1>2, <2>2, <3>1, <3>4, ReturnSteps, ReturnCurrent
    <3>5. CASE Forget(t, None)
      <4>1. Current' = {}
        BY <3>5 DEF Forget, Current
      <4> QED
        BY <2>2, <3>1, <3>3, <4>1, ExactNext
    <3> QED
      BY <2>4, <3>4, <3>5 DEF Unstage
  <2>5. ASSUME Track(t) \/ Untrack(t) \/ UnpublishUnknown(t)
        PROVE  t \in Rpcs /\ task[t].path \in Paths /\ UnstageInv'
    <3>1. task[t].pc \in {"track", "untrack", "unbindUnknown"}
      BY <2>5 DEF Track, Untrack, UnpublishUnknown, At
    <3>2. t \in Rpcs /\ task[t].path \in Paths
      BY <2>0, <3>1 DEF PlaceOK, Locals, Begin, Rebuilding, Staging, Retrying, Recovering
    <3>3. PICK objs : Finish(t, volumes, objs)
      BY <2>5 DEF Track, Untrack, UnpublishUnknown, Return
    <3>4. task'[t].op = "none"
      BY <1>0, <3>3, FinishOthers DEF Idle
    <3>5. \A u \in Tasks : task'[u].op # "unstage"
      BY <1>0, <2>0, <3>2, <3>4, OnlyUnstage DEF Others
    <3> QED
      BY <3>2, <3>5 DEF UnstageInv
  <2>6. CASE UnpublishUnknown(t)
    <3>1. Current' = Current
      BY <1>0, <2>6, ReturnSteps, ReturnCurrent
    <3>2. volumes = None
      BY <1>0, <2>5, <2>6 DEF UnpublishUnknown, At, MutexInv, UnknownPlaces
    <3>3. Current = {}
      BY <3>2 DEF Current
    <3>4. \A p \in Paths : wanted'[p] = wanted[p] \/ wanted'[p] = "no"
      BY <1>0, <2>6 DEF UnpublishUnknown
    <3> QED
      BY <1>0, <2>5, <2>6, <3>1, <3>3, <3>4, ExactCurrent, ExactNext
  <2>7. CASE Track(t)
    <3> DEFINE objs == [volObj EXCEPT ![task[t].vol].paths = @ \cup {task[t].path}]
    <3>1. /\ task[t].pc = "track" /\ volumes' = volumes /\ wanted' = [wanted EXCEPT ![task[t].path] = "yes"]
          /\ Finish(t, volumes, objs)
      BY <2>7 DEF Track, At
    <3>2. task[t].vol = volumes /\ volumes \in Vols /\ volumes # None
      BY <2>0, <3>1, NamesAssumption DEF TrackAt, Looked, PlaceOK, KnownPlaces
    <3>3. objs[volumes].paths = Current \cup {task[t].path}
      BY <2>0, <3>2 DEF Current, Objects
    <3> HIDE DEF objs
    <3>4. Current' = Current \cup {task[t].path}
      BY <3>1, <3>2, <3>3, FinishCurrent
    <3> QED
      BY <1>0, <2>5, <2>7, <3>1, <3>4, ExactCurrent, ExactNext
  <2>8. CASE Untrack(t)
    <3> DEFINE objs == [volObj EXCEPT ![task[t].vol].paths = @ \ {task[t].path}]
    <3>1. /\ task[t].pc = "untrack" /\ volumes' = volumes /\ wanted' = [wanted EXCEPT ![task[t].path] = "no"]
          /\ Finish(t, volumes, objs)
      BY <2>8 DEF Untrack, At
    <3>2. task[t].vol = volumes /\ volumes \in Vols /\ volumes # None
      BY <2>0, <3>1, NamesAssumption DEF TrackAt, Looked, PlaceOK, KnownPlaces
    <3>3. objs[volumes].paths = Current \ {task[t].path}
      BY <2>0, <3>2 DEF Current, Objects
    <3> HIDE DEF objs
    <3>4. Current' = Current \ {task[t].path}
      BY <3>1, <3>2, <3>3, FinishCurrent
    <3> QED
      BY <1>0, <2>5, <2>8, <3>1, <3>4, ExactCurrent, ExactNext
  <2> QED
    BY <2>3, <2>4, <2>6, <2>7, <2>8
<1>9. CASE UNCHANGED <<task, volumes, volObj, wanted>>
  BY <1>1, <1>2, <1>9 DEF Current
<1>10. CASE SessionFails \/ SessionEases \/ CacheExpires \/ SessionEnds \/ Reap \/ LateMount \/ LateUnmount
            \/ BackoffEnds \/ UNCHANGED vars
  BY <1>9, <1>10 DEF SessionFails, SessionEases, CacheExpires, SessionMoves, SessionEnds, Reap, LateMount, LateUnmount,
                     BackoffEnds, vars, nodeVars, ghostVars
<1>11. ~Restart
  BY <1>0 DEF Restart, ExactInv
<1> QED
  BY <1>4, <1>5, <1>6, <1>7, <1>8, <1>10, <1>11 DEF Next, Environment

(* Without a restart of the plugin, what kubelet was told is exactly what  *)
(* the volume in the map tracks, through every failed publish and every    *)
(* recovery that replaces the volume object; so a recovery re-binds all    *)
(* that is published and nothing that is not.                              *)
THEOREM TrackedExactly == Kubelet /\ MaxRestarts = 0 /\ Spec => []TrackingExact
<1>1. Kubelet /\ MaxRestarts = 0 /\ Init => ExactInv
  <2> SUFFICES ASSUME Kubelet, MaxRestarts = 0, Init PROVE ExactInv
    OBVIOUS
  <2>1. UnstageInv
    BY DEF Init, Idle, UnstageInv
  <2>2. TrackingExact
    BY DEF Init, TrackingExact
  <2> QED
    BY <2>1, <2>2, KnowInit DEF ExactInv
<1>2. ExactInv /\ [Next]_vars => ExactInv'
  BY ExactStep, KnowStep DEF ExactInv
<1>3. ExactInv => TrackingExact
  BY DEF ExactInv
<1> QED
  BY <1>1, <1>2, <1>3, PTL DEF Spec

-----------------------------------------------------------------------------
(* Steps that leave the volume in the map in place.                        *)
LEMMA VolumeKept ==
    ASSUME KnowInv, NEW t \in Tasks, Step(t), ~Track(t), ~Untrack(t), ~Unstage(t), ~Rebuild(t), ~RecoverStore(t),
           ~Staged(t) \/ task[t].op = "recover"
    PROVE  /\ volumes' = volumes
           /\ volumes # None => volObj'[volumes].unmounter = volObj[volumes].unmounter
<1>0. SafeInv /\ TypeInv /\ TrackAt(t) /\ PlaceOK(t, task[t]) /\ volObj \in [Vols -> Objects]
      /\ volumes \in Vols \cup {None} /\ task[t] \in Locals
  BY DEF KnowInv, TrackInv, SafeInv, TypeInv, TypeOK, PlaceInv
<1>1. CASE GetMutex(t) \/ Load(t) \/ Probe(t) \/ UnmountStale(t) \/ CheckStale(t) \/ RemoveAll(t) \/ StageUnmount(t)
           \/ Mount(t) \/ Unpublish(t)
  BY <1>1 DEF GetMutex, Load, Probe, UnmountStale, CheckStale, RemoveAll, StageUnmount, Mount, Unpublish, nodeVars
<1>2. CASE RecoverCollect(t) \/ RecoverGoAhead(t) \/ RecoverStop(t) \/ RecoverGuard(t) \/ RecoverTear(t)
           \/ RecoverTorn(t) \/ RetryStart(t) \/ RetryPath(t)
  BY <1>2 DEF RecoverCollect, RecoverGoAhead, RecoverStop, RecoverGuard, RecoverTear, RecoverTorn, RetryStart, RetryPath,
              nodeVars
<1>3. CASE Finish(t, volumes, volObj) /\ volumes' = volumes
  BY <1>0, <1>3, ReturnCurrent
<1>4. CASE Publish(t)
  BY <1>3, <1>4, ReturnSteps DEF Publish, nodeVars
<1>5. CASE Staged(t)
  <2>1. PICK o, obj : o # volumes /\ volObj' = [volObj EXCEPT ![o] = obj] /\ volumes' = volumes
    BY <1>5, PickTypes, NewObjects DEF Staged, FreshVols
  <2> QED
    BY <1>0, <2>1
<1>6. CASE RecoverRebind(t)
  <2>1. PICK p : volObj' = [volObj EXCEPT ![task[t].new].paths = @ \cup {p}]
    BY <1>6 DEF RecoverRebind
  <2>2. task[t].new # volumes /\ volumes' = volumes
    BY <1>0, <1>6 DEF RecoverRebind, At, TrackAt
  <2> QED
    BY <1>0, <2>1, <2>2
<1> QED
  BY <1>1, <1>2, <1>3, <1>4, <1>5, <1>6, ReturnSteps DEF Step, StageStep, PublishStep, RecoverStep

(* A new session is mounted at no publish path.                            *)
LEMMA MountFresh ==
    ASSUME MountAtManager
    PROVE  staging' = staging \/ \A p \in Paths : bind[p] # staging'
<1>1. staging' = staging \/ staging' \in FreshGens
  BY PickTypes DEF MountAtManager
<1> QED
  BY <1>1 DEF FreshGens

(* What a step may newly show at a publish path is the staged session, and *)
(* then the path is known or about to be.                                  *)
LEMMA BindKept ==
    ASSUME KnowInv, BindInv, NEW t \in Tasks, Step(t), ~Publish(t), NEW p \in Paths, staging' # None,
           bind'[p] = staging'
    PROVE  (bind[p] = staging /\ staging # None) \/ p \in Current
<1>0. /\ BindAt(t) /\ task[t] \in Locals /\ PlaceOK(t, task[t]) /\ bind \in [Paths -> Gens \cup {None, Bare}]
      /\ task[t].left \in SUBSET Paths
  BY DEF KnowInv, SafeInv, TypeInv, TypeOK, PlaceInv, BindInv, Locals
<1>1. CASE staging' \in {None, staging} /\ bind' = bind
  BY <1>1
<1>2. CASE GetMutex(t) \/ Load(t) \/ LoadAndReturn(t)
  BY <1>1, <1>2 DEF GetMutex, Load, LoadAndReturn, hostVars
<1>3. CASE Mount(t) \/ MountFails(t)
  <2>1. bind' = bind /\ (MountAtManager \/ staging' = staging)
    BY <1>3 DEF Mount, MountFails
  <2> QED
    BY <1>1, <2>1, MountFresh
<1>4. CASE StageStep(t) /\ ~Mount(t) /\ ~MountFails(t)
  BY <1>1, <1>4 DEF StageStep, Probe, Rebuild, UnmountStale, CheckStale, RefuseStale, RemoveAll, StageUnmount, StageFails,
                    Staged, QuotaFails, hostVars
<1>5. CASE Unpublish(t) \/ UnpublishFails(t) \/ UnpublishUnknown(t)
  <2>1. staging' = staging /\ (bind' = bind \/ bind' = [bind EXCEPT ![task[t].path] = None])
    BY <1>5 DEF Unpublish, UnpublishFails, UnpublishUnknown
  <2> QED
    BY <1>0, <2>1
<1>6. CASE PublishFails(t) \/ Track(t) \/ Untrack(t) \/ Unstage(t) \/ UnstageFails(t) \/ UnstageUnknown(t)
  BY <1>1, <1>6 DEF PublishFails, Track, Untrack, Unstage, UnstageFails, UnstageUnknown, UnmountAtManager,
                    UnmountAtManagerFails, hostVars
<1>7. CASE RecoverTear(t)
  <2>1. staging' = staging /\ \E q : bind' = bind \/ bind' = [bind EXCEPT ![q] = None]
    BY <1>7 DEF RecoverTear
  <2> QED
    BY <1>0, <2>1
<1>8. CASE RecoverRebind(t) \/ RetryPath(t)
  <2>1. staging' = staging /\ task[t].left \subseteq Current
    BY <1>0, <1>8 DEF RecoverRebind, RetryPath, BindAt, At
  <2>2. \E q \in task[t].left : \E b : bind' = bind \/ bind' = [bind EXCEPT ![q] = b]
    BY <1>8 DEF RecoverRebind, RetryPath, PublishTo
  <2> QED
    BY <1>0, <2>1, <2>2
<1>9. CASE RecoverStep(t) /\ ~RecoverTear(t) /\ ~RecoverRebind(t) /\ ~RetryPath(t)
  BY <1>1, <1>9 DEF RecoverStep, RecoverNotNeeded, RecoverCollect, RecoverSkipLive, RecoverGoAhead, RecoverStop,
                    RecoverStopFails, RecoverGuard, RecoverAborts, RecoverTorn, RecoverStore, RetryStart, RetryReturn,
                    UnmountAtManager, UnmountAtManagerFails, hostVars
<1> QED
  BY <1>2, <1>3, <1>4, <1>5, <1>6, <1>7, <1>8, <1>9 DEF Step, PublishStep

LEMMA IdleBind ==
    ASSUME NEW t \in Tasks, 
           task'[t].pc \notin Remounting \cup {"tear", "rebind", "untrack", "retry", "stop"}
    PROVE  BindAt(t)'
BY DEF BindAt

LEMMA BindSelf ==
    ASSUME KnowInv, BindInv, NEW t \in Tasks, Step(t)
    PROVE  BindAt(t)'
<1>0. /\ SafeInv /\ TypeInv /\ MutexInv /\ TrackAt(t) /\ TaskTypes /\ PlaceOK(t, task[t]) /\ BindAt(t) /\ RemovalInv
      /\ task[t] \in Locals /\ task \in [Tasks -> Locals] /\ volObj \in [Vols -> Objects] /\ volumes \in Vols \cup {None}
      /\ bind \in [Paths -> Gens \cup {None, Bare}]
  BY Parts DEF KnowInv, SafeInv, TrackInv, TypeInv, TypeOK, PlaceInv, BindInv
<1>1. ASSUME NEW current, NEW objs, Finish(t, current, objs) PROVE BindAt(t)'
  BY <1>0, <1>1, FinishOthers, IdleBind DEF Idle, Remounting
<1>2. ASSUME NEW x, Goto(t, x) PROVE task'[t] = [task[t] EXCEPT !.pc = x] /\ task'[t].pc = x
  BY <1>0, <1>2 DEF Goto, Locals
<1>3. CASE Probe(t) \/ UnmountStale(t) \/ RecoverStop(t) \/ RecoverGuard(t)
  <2>1. \E x \in {"rebuild", "unmountStale", "checkStale", "guard"} : Goto(t, x)
    BY <1>0, <1>3, GotoSteps
  <2>2. task'[t].pc \in {"rebuild", "unmountStale", "checkStale", "guard"}
    BY <1>2, <2>1
  <2> QED
    BY <2>2, IdleBind DEF Remounting
<1>4. CASE CheckStale(t)
  <2>1. staging' = None /\ task'[t].pc \in {"removeAll", "stage"}
    BY <1>0, <1>2, <1>4, GotoSteps DEF CheckStale
  <2> QED
    BY <2>1 DEF BindAt
<1>5. CASE RemoveAll(t) \/ StageUnmount(t)
  <2>1. /\ task[t].pc \in Remounting /\ task'[t].pc \in {"stage", "mount"}
        /\ staging' \in {None, staging} /\ bind' = bind
    BY <1>0, <1>2, <1>5, GotoSteps DEF RemoveAll, StageUnmount, At, hostVars, Remounting
  <2> QED
    BY <1>0, <2>1 DEF BindAt
<1>7. CASE Mount(t)
  <2>1. task[t].pc = "mount" /\ task'[t].pc = "quota" /\ bind' = bind /\ MountAtManager
    BY <1>0, <1>2, <1>7, GotoSteps DEF Mount, At
  <2>2. \A p \in Paths : bind'[p] = staging' => staging' = None
    BY <1>0, <2>1, MountFresh DEF BindAt, Remounting
  <2> QED
    BY <2>1, <2>2 DEF BindAt
<1>8. CASE GetMutex(t) \/ Load(t)
  <2>1. CASE GetMutex(t)
    BY <1>0, <2>1, IdleBind DEF GetMutex, Locals, Remounting
  <2>2. CASE Load(t)
    <3>1. task'[t].pc = AfterLoad[task[t].op] /\ task[t].op \in DOMAIN AfterLoad
      BY <1>0, <2>2 DEF Load, Locals
    <3>2. task'[t].pc \in {"bind", "unbind", "unstage", "recheck", "retryCheck", "probe", "unbindUnknown",
                           "unstageUnknown"}
      BY <3>1 DEF AfterLoad, Known, Unknown
    <3> QED
      BY <3>2, IdleBind DEF Remounting
  <2> QED
    BY <1>8, <2>1, <2>2
<1>9. CASE Rebuild(t) \/ (Staged(t) /\ task[t].op # "recover")
  <2>1. task'[t] = Idle \/ task'[t].pc = "bind"
    BY <1>0, <1>9, StoreSteps
  <2> QED
    BY <2>1, IdleBind DEF Idle, Remounting
<1>10. CASE Staged(t) /\ task[t].op = "recover"
  <2>1. /\ task[t].pc = "quota" /\ UNCHANGED <<staging, bind>>
        /\ task' = [task EXCEPT ![t].new = Pick(FreshVols), ![t].pc = "tear", ![t].left = task[t].pubs]
    BY <1>10 DEF Staged, At, hostVars
  <2>2. task'[t].pc = "tear" /\ task'[t].left = task[t].pubs
    BY <1>0, <2>1 DEF Locals
  <2>3. task[t].pubs = Current /\ Current' = Current
    BY <1>0, <1>10, <2>1, CurrentKept DEF TrackAt, Collected, Staging, Track, Untrack, Unstage, At
  <2>4. \A p \in Paths : bind'[p] = staging' => staging' = None
    BY <1>0, <2>1 DEF BindAt, Remounting
  <2> QED
    BY <2>2, <2>3, <2>4 DEF BindAt, Remounting
<1>11. CASE Unpublish(t)
  <2>1. /\ task[t].pc = "unbind" /\ bind' = [bind EXCEPT ![task[t].path] = None]
        /\ task'[t].pc = "untrack" /\ task'[t].path = task[t].path
    BY <1>0, <1>2, <1>11 DEF Unpublish, At, Locals
  <2>2. task[t].path \in Paths
    BY <1>0, <2>1 DEF PlaceOK, Locals, Begin, Rebuilding, Staging, Retrying, Recovering
  <2>3. bind'[task[t].path] = None
    BY <1>0, <2>1, <2>2
  <2> QED
    BY <2>1, <2>3 DEF BindAt, Remounting
<1>12. CASE Publish(t)
  <2>1. CASE Return(t)
    BY <1>1, <2>1 DEF Return
  <2>2. CASE Goto(t, "track")
    <3>1. task'[t].pc = "track"
      BY <1>2, <2>2
    <3> QED
      BY <3>1, IdleBind DEF Remounting
  <2> QED
    BY <1>12, <2>1, <2>2 DEF Publish
<1>13. CASE RecoverCollect(t)
  <2>1. task'[t].pc = "decide"
    BY <1>0, <1>13 DEF RecoverCollect, Locals
  <2> QED
    BY <2>1, IdleBind DEF Remounting
<1>14. CASE RecoverGoAhead(t)
  <2>1. /\ task[t].pc = "decide" /\ ~SparesLive(t) /\ UNCHANGED <<volumes, volObj, staging, fuse, bind>>
        /\ Goto(t, IF VolOf(t).unmounter THEN "stop" ELSE "guard")
    BY <1>14 DEF RecoverGoAhead, At, hostVars
  <2>2. task[t].vol = volumes
    BY <1>0, <2>1 DEF TrackAt, Looked
  <2>3. task'[t].pc = (IF volObj[volumes].unmounter THEN "stop" ELSE "guard") /\ task'[t].pubs = task[t].pubs
    BY <1>0, <1>2, <2>1, <2>2 DEF VolOf, Locals
  <2>4. task[t].pubs = {} \/ ~Is(staging, {"live", "slow"})
    BY <2>1 DEF SparesLive, Live, Is
  <2>5. (task[t].pubs = {} \/ Unused)'
    BY <2>1, <2>3, <2>4 DEF Unused, Is
  <2> QED
    BY <2>1, <2>3, <2>5 DEF BindAt, Remounting
<1>15. ASSUME task[t].pc \in {"tear", "rebind"}, task'[t].pc \in {"tear", "rebind"}, ~Staged(t),
              task'[t].left \subseteq Current, Current' = Current
       PROVE  BindAt(t)'
  <2>1. ~Publish(t)
    BY <1>15 DEF Publish, At
  <2>2. \A p \in Paths : bind'[p] = staging' => staging' = None \/ p \in Current
    BY <1>0, <1>15, <2>1, BindKept DEF BindAt
  <2> QED
    BY <1>15, <2>2 DEF BindAt, Remounting
<1>16. CASE RecoverTear(t)
  <2>1. PICK left, torn : /\ left \subseteq task[t].left
                          /\ \/ task' = [task EXCEPT ![t].left = left]
                             \/ task' = [task EXCEPT ![t].left = left, ![t].torn = torn]
    BY <1>16 DEF RecoverTear
  <2>2. task[t].pc = "tear" /\ task'[t].pc = "tear" /\ task'[t].left = left
    BY <1>0, <1>16, <2>1 DEF RecoverTear, At, Locals
  <2>3. Current' = Current /\ ~Staged(t)
    BY <2>2, CurrentKept DEF Track, Untrack, Unstage, Staged, At
  <2> QED
    BY <1>0, <1>15, <2>1, <2>2, <2>3 DEF BindAt
<1>17. CASE RecoverTorn(t)
  <2>1. task[t].pc = "tear" /\ task'[t].pc = "rebind" /\ task'[t].left = task[t].pubs
    BY <1>0, <1>17 DEF RecoverTorn, At, Locals
  <2>2. Current' = Current /\ ~Staged(t)
    BY <2>1, CurrentKept DEF Track, Untrack, Unstage, Staged, At
  <2>3. task[t].op = "recover"
    BY <1>0, <2>1 DEF PlaceOK, Locals, Begin, Rebuilding, Staging, Retrying, Recovering
  <2>4. task[t].pubs = Current
    BY <1>0, <2>1, <2>3 DEF TrackAt, Collected
  <2> QED
    BY <1>15, <2>1, <2>2, <2>4
<1>18. CASE RecoverRebind(t)
  <2>1. task[t].pc = "rebind" /\ task'[t].pc = "rebind" /\ task'[t].left \subseteq task[t].left
    BY <1>0, <1>18 DEF RecoverRebind, At, Locals
  <2>2. Current' = Current /\ ~Staged(t)
    BY <2>1, CurrentKept DEF Track, Untrack, Unstage, Staged, At
  <2> QED
    BY <1>0, <1>15, <2>1, <2>2 DEF BindAt
<1>19. CASE RetryStart(t)
  <2>1. task[t].pc = "retryCheck" /\ task'[t].pc = "retry" /\ task'[t].left = VolOf(t).paths
    BY <1>0, <1>19 DEF RetryStart, At, Locals
  <2>2. task[t].vol = volumes /\ volumes # None
    BY <1>0, <2>1, NamesAssumption DEF TrackAt, Looked, PlaceOK, KnownPlaces, Retrying
  <2>3. VolOf(t).paths = Current
    BY <2>2 DEF VolOf, Current
  <2>4. Current' = Current
    BY <2>1, CurrentKept DEF Track, Untrack, Unstage, At
  <2> QED
    BY <2>1, <2>3, <2>4 DEF BindAt, Remounting
<1>20. CASE RetryPath(t)
  <2>1. task[t].pc = "retry" /\ task'[t].pc = "retry" /\ task'[t].left \subseteq task[t].left
    BY <1>0, <1>20 DEF RetryPath, At, Locals
  <2>2. Current' = Current
    BY <2>1, CurrentKept DEF Track, Untrack, Unstage, At
  <2> QED
    BY <1>0, <2>1, <2>2 DEF BindAt, Remounting
<1>21. CASE Track(t) \/ Untrack(t) \/ Unstage(t) \/ RecoverStore(t)
  <2>1. \E current, objs : Finish(t, current, objs)
    BY <1>21 DEF Track, Untrack, Unstage, RecoverStore, Forget, Return
  <2> QED
    BY <1>1, <2>1
<1>22. CASE LoadAndReturn(t) \/ RefuseStale(t) \/ StageFails(t) \/ MountFails(t) \/ QuotaFails(t)
            \/ PublishFails(t) \/ UnpublishFails(t) \/ UnpublishUnknown(t) \/ UnstageFails(t) \/ UnstageUnknown(t)
            \/ RecoverNotNeeded(t) \/ RecoverSkipLive(t) \/ RecoverStopFails(t) \/ RecoverAborts(t) \/ RetryReturn(t)
  <2>1. Finish(t, volumes, volObj)
    BY <1>22, ReturnSteps
  <2> QED
    BY <1>1, <2>1
<1> QED
  BY <1>3, <1>4, <1>5, <1>7, <1>8, <1>9, <1>10, <1>11, <1>12, <1>13, <1>14, <1>16, <1>17, <1>18, <1>19, <1>20,
     <1>21, <1>22 DEF Step, StageStep, PublishStep, RecoverStep

LEMMA BoundNext ==
    ASSUME BoundKnown, NEW t \in Tasks, Others(t), task[t].pc # "track", Current' = Current, volumes' = volumes,
           volumes # None => volObj'[volumes].unmounter = volObj[volumes].unmounter,
           \A p \in Paths : staging' # None /\ bind'[p] = staging' => (bind[p] = staging /\ staging # None) \/ p \in Current
    PROVE  BoundKnown'
<1> SUFFICES ASSUME volumes' # None, volObj'[volumes'].unmounter, staging' # None,
                    NEW p \in Paths, bind'[p] = staging', p \notin Current
             PROVE  \E u \in Rpcs : task'[u].pc = "track" /\ task'[u].path = p
  BY DEF BoundKnown
<1>1. PICK u \in Rpcs : task[u].pc = "track" /\ task[u].path = p
  BY DEF BoundKnown
<1>2. task'[u] = task[u]
  BY <1>1 DEF Others, Tasks
<1> QED
  BY <1>1, <1>2

LEMMA BoundStep ==
    ASSUME KnowInv, BindInv, NEW t \in Tasks, Step(t), ~GetMutex(t)
    PROVE  BoundKnown'
<1>0. /\ SafeInv /\ Kubelet /\ TypeInv /\ MutexInv /\ TrackAt(t) /\ PlaceOK(t, task[t]) /\ BindAt(t) /\ BoundKnown
      /\ task[t] \in Locals /\ task \in [Tasks -> Locals] /\ volObj \in [Vols -> Objects] /\ volumes \in Vols \cup {None}
      /\ bind \in [Paths -> Gens \cup {None, Bare}]
  BY DEF KnowInv, SafeInv, TrackInv, TypeInv, TypeOK, PlaceInv, BindInv
<1>1. Others(t)
  BY StepInside
<1>2. \A p \in Paths : ~Publish(t) /\ staging' # None /\ bind'[p] = staging'
                       => (bind[p] = staging /\ staging # None) \/ p \in Current
  BY BindKept
<1>3. ASSUME t \in Rpcs, NEW u \in Rpcs PROVE u = t
  BY <1>0, <1>3 DEF Kubelet, OneCallAtATime
<1>4. CASE Track(t)
  <2> DEFINE objs == [volObj EXCEPT ![task[t].vol].paths = @ \cup {task[t].path}]
  <2>1. task[t].pc = "track" /\ volumes' = volumes /\ Finish(t, volumes, objs) /\ UNCHANGED <<staging, bind>>
    BY <1>4 DEF Track, At, hostVars
  <2>2. task[t].vol = volumes /\ volumes \in Vols /\ volumes # None
    BY <1>0, <2>1, NamesAssumption DEF TrackAt, Looked, PlaceOK, KnownPlaces
  <2>3. t \in Rpcs /\ task[t].path \in Paths
    BY <1>0, <2>1 DEF PlaceOK, Locals, Begin, Rebuilding, Staging, Retrying, Recovering
  <2>4. objs[volumes].paths = Current \cup {task[t].path} /\ objs[volumes].unmounter = volObj[volumes].unmounter
    BY <1>0, <2>2 DEF Current, Objects
  <2> HIDE DEF objs
  <2>5. Current' = Current \cup {task[t].path} /\ volObj'[volumes].unmounter = volObj[volumes].unmounter
    BY <2>1, <2>2, <2>4, FinishCurrent
  <2>6. ASSUME NEW u \in Rpcs, NEW p, task[u].path = p PROVE p \in Current'
    BY <1>3, <2>3, <2>5, <2>6
  <2> QED
    BY <1>0, <2>1, <2>5, <2>6 DEF BoundKnown
<1>5. CASE Untrack(t)
  <2> DEFINE objs == [volObj EXCEPT ![task[t].vol].paths = @ \ {task[t].path}]
  <2>1. task[t].pc = "untrack" /\ volumes' = volumes /\ Finish(t, volumes, objs) /\ UNCHANGED <<staging, bind>>
    BY <1>5 DEF Untrack, At, hostVars
  <2>2. task[t].vol = volumes /\ volumes \in Vols /\ volumes # None
    BY <1>0, <2>1, NamesAssumption DEF TrackAt, Looked, PlaceOK, KnownPlaces
  <2>3. t \in Rpcs
    BY <1>0, <2>1 DEF PlaceOK, Locals, Begin, Rebuilding, Staging, Retrying, Recovering
  <2>4. objs[volumes].paths = Current \ {task[t].path} /\ objs[volumes].unmounter = volObj[volumes].unmounter
    BY <1>0, <2>2 DEF Current, Objects
  <2> HIDE DEF objs
  <2>5. Current' = Current \ {task[t].path} /\ volObj'[volumes].unmounter = volObj[volumes].unmounter
    BY <2>1, <2>2, <2>4, FinishCurrent
  <2>6. bind[task[t].path] = None
    BY <1>0, <2>1 DEF BindAt
  <2>7. \A u \in Rpcs : task[u].pc # "track"
    BY <1>3, <2>1, <2>3
  <2> QED
    BY <1>0, <2>1, <2>5, <2>6, <2>7 DEF BoundKnown
<1>6. CASE Rebuild(t) \/ (Staged(t) /\ task[t].op # "recover")
  <2>1. PICK o \in Vols, obj \in Objects :
            /\ Rebuild(t) => obj.unmounter = FALSE
            /\ volumes' = o /\ volObj'[o] = obj
    BY <1>0, <1>6, StoreSteps
  <2>2. CASE Rebuild(t)
    BY <2>1, <2>2 DEF BoundKnown
  <2>3. CASE Staged(t)
    <3>1. UNCHANGED <<staging, bind>> /\ task[t].pc = "quota"
      BY <2>3 DEF Staged, At, hostVars
    <3>2. \A p \in Paths : bind'[p] = staging' => staging' = None
      BY <1>0, <3>1 DEF BindAt, Remounting
    <3> QED
      BY <3>2 DEF BoundKnown
  <2> QED
    BY <1>6, <2>2, <2>3
<1>7. CASE RecoverStore(t)
  <2>1. task[t].pc = "rebind" /\ UNCHANGED <<staging, bind>>
    BY <1>7 DEF RecoverStore, At, hostVars
  <2>2. Current' = Current
    BY <2>1, CurrentKept DEF Track, Untrack, Unstage, At
  <2>3. \A p \in Paths : bind'[p] = staging' => staging' = None \/ p \in Current'
    BY <1>0, <2>1, <2>2 DEF BindAt
  <2> QED
    BY <2>3 DEF BoundKnown
<1>8. CASE Unstage(t)
  <2>1. CASE Forget(t, None)
    BY <2>1 DEF Forget, BoundKnown
  <2>2. CASE Return(t)
    <3>1. Current' = Current /\ volumes' = volumes /\ (volumes # None => volObj'[volumes] = volObj[volumes])
      BY <1>0, <2>2, ReturnSteps, ReturnCurrent
    <3>2. task[t].pc = "unstage" /\ ~Publish(t)
      BY <1>8 DEF Unstage, Publish, At
    <3> QED
      BY <1>0, <1>1, <1>2, <3>1, <3>2, BoundNext
  <2> QED
    BY <1>8, <2>1, <2>2 DEF Unstage
<1>9. CASE Publish(t)
  <2>0. /\ task[t].pc = "bind" /\ staging' = staging /\ PublishTo(task[t].path)
        /\ ~Track(t) /\ ~Untrack(t) /\ ~Unstage(t) /\ ~Rebuild(t) /\ ~RecoverStore(t) /\ ~Staged(t)
    BY <1>9 DEF Publish, At, Track, Untrack, Unstage, Rebuild, RecoverStore, Staged
  <2>1. t \in Rpcs /\ task[t].path \in Paths
    BY <1>0, <2>0 DEF PlaceOK, Locals, Begin, Rebuilding, Staging, Retrying, Recovering
  <2>2. /\ Current' = Current /\ volumes' = volumes
        /\ volumes # None => volObj'[volumes].unmounter = volObj[volumes].unmounter
    BY <2>0, CurrentKept, VolumeKept
  <2>3. \A p \in Paths : p # task[t].path => bind'[p] = bind[p]
    BY <1>0, <2>0, <2>1 DEF PublishTo
  <2>4. \A u \in Rpcs : task[u].pc # "track"
    BY <1>3, <2>0, <2>1
  <2>5. \A p \in Paths : /\ bind[p] = staging /\ staging # None /\ volumes # None /\ volObj[volumes].unmounter
                         => p \in Current
    BY <1>0, <2>4 DEF BoundKnown
  <2>6. CASE bind'[task[t].path] = None
    BY <2>0, <2>2, <2>3, <2>5, <2>6 DEF BoundKnown
  <2>7. CASE bind'[task[t].path] # None
    <3>1. Goto(t, "track")
      BY <1>9, <2>7 DEF Publish
    <3>2. task'[t].pc = "track" /\ task'[t].path = task[t].path
      BY <1>0, <3>1 DEF Goto, Locals
    <3> QED
      BY <2>0, <2>1, <2>2, <2>3, <2>5, <3>2 DEF BoundKnown
  <2> QED
    BY <2>6, <2>7
<1>10. CASE /\ ~Track(t) /\ ~Untrack(t) /\ ~Unstage(t) /\ ~Rebuild(t) /\ ~RecoverStore(t) /\ ~Publish(t)
            /\ ~Staged(t) \/ task[t].op = "recover"
  <2>1. /\ Current' = Current /\ volumes' = volumes
        /\ volumes # None => volObj'[volumes].unmounter = volObj[volumes].unmounter
    BY <1>10, CurrentKept, VolumeKept
  <2>2. task[t].pc # "track"
    BY <1>10 DEF Step, Load, LoadAndReturn, StageStep, PublishStep, RecoverStep, Probe, Rebuild, UnmountStale, CheckStale,
                 RefuseStale, RemoveAll, StageUnmount, StageFails, Mount, MountFails, Staged, QuotaFails, PublishFails,
                 Unpublish, UnpublishFails, UnpublishUnknown, UnstageFails, UnstageUnknown, RecoverNotNeeded,
                 RecoverCollect, RecoverSkipLive, RecoverGoAhead, RecoverStop, RecoverStopFails, RecoverGuard,
                 RecoverAborts, RecoverTear, RecoverTorn, RecoverRebind, RetryStart, RetryPath, RetryReturn, At
  <2> QED
    BY <1>0, <1>1, <1>2, <1>10, <2>1, <2>2, BoundNext
<1> QED
  BY <1>4, <1>5, <1>6, <1>7, <1>8, <1>9, <1>10

(* A step that mounts nothing and revives no session, or mounts a session  *)
(* that is bound nowhere.                                                  *)
Quiet ==
    /\ bind' = bind
    /\ \/ /\ staging' \in {None, staging}
          /\ \A g \in Gens : fuse'[g] \in {"live", "slow"} => fuse[g] \in {"live", "slow"}
       \/ \A p \in Paths : bind[p] # staging'
    /\ Current' = Current /\ volumes' = volumes /\ (volumes # None => volObj'[volumes] = volObj[volumes])

LEMMA QuietBind ==
    ASSUME KnowInv, BindInv, Quiet, NEW u \in Tasks, task'[u] = task[u]
    PROVE  BindAt(u)'
<1>0. BindAt(u) /\ PlaceOK(u, task[u]) /\ task[u] \in Locals
  BY DEF BindInv, KnowInv, SafeInv, TypeInv, TypeOK, PlaceInv
<1>1. task[u].pc = "stop" => volumes # None
  BY <1>0 DEF PlaceOK, Locals, Begin, Rebuilding, Staging, Retrying, Recovering, KnowInv, SafeInv, MutexInv
<1>2. task[u].pc = "stop" => (task[u].pubs = {} \/ Unused)'
  <2>1. Unused => Unused'
    BY NamesAssumption DEF Quiet, Unused, Is
  <2> QED
    BY <1>0, <2>1 DEF BindAt
<1>3. task'[u].pc = "stop" => volObj'[volumes'].unmounter
  BY <1>0, <1>1 DEF BindAt, Quiet
<1>5. task'[u].pc \in Remounting => \A p \in Paths : bind'[p] = staging' => staging' = None
  BY <1>0 DEF BindAt, Quiet
<1>6. task'[u].pc \in {"tear", "rebind"} => \A p \in Paths : bind'[p] = staging' => staging' = None \/ p \in Current'
  BY <1>0 DEF BindAt, Quiet
<1>7. /\ task'[u].pc = "untrack" => bind'[task'[u].path] = None
      /\ task'[u].pc \in {"tear", "rebind", "retry"} => task'[u].left \subseteq Current'
  BY <1>0 DEF BindAt, Quiet
<1> QED
  BY <1>2, <1>3, <1>5, <1>6, <1>7 DEF BindAt

LEMMA QuietBound ==
    ASSUME BindInv, Quiet, \A u \in Rpcs : task[u].pc = "track" => task'[u] = task[u]
    PROVE  BoundKnown'
<1> SUFFICES ASSUME volumes' # None, volObj'[volumes'].unmounter, staging' # None,
                    NEW p \in Paths, bind'[p] = staging', p \notin Current
             PROVE  \E u \in Rpcs : task'[u].pc = "track" /\ task'[u].path = p
  BY DEF BoundKnown, Quiet
<1>1. PICK u \in Rpcs : task[u].pc = "track" /\ task[u].path = p
  BY DEF BindInv, BoundKnown, Quiet
<1> QED
  BY <1>1

LEMMA BindStep ==
    ASSUME SparingInv, [Next]_vars
    PROVE  BindInv'
<1>0. KnowInv /\ BindInv /\ TypeInv /\ MutexInv /\ ~DeviceLookupFails
  BY DEF SparingInv, KnowInv, SafeInv
<1>1. ASSUME NEW t \in Tasks, Step(t), ~GetMutex(t) PROVE BindInv'
  <2>1. BindAt(t)' /\ BoundKnown'
    BY <1>0, <1>1, BindSelf, BoundStep
  <2>2. ASSUME NEW u \in Tasks, u # t PROVE BindAt(u)'
    <3>1. ~InCriticalSection(u)'
      BY <1>0, <1>1, <2>2, StepInside
    <3> QED
      BY <3>1, IdleBind DEF InCriticalSection, Remounting
  <2> QED
    BY <2>1, <2>2 DEF BindInv
<1>2. ASSUME NEW t \in Tasks, Outside(t), fuse' = fuse PROVE BindInv'
  <2>1. Quiet
    BY <1>0, <1>2, OutsideTrack DEF Quiet, Outside
  <2>2. BindAt(t)'
    BY <1>2, IdleBind DEF Outside, Remounting
  <2>3. \A u \in Tasks : u # t => BindAt(u)'
    BY <1>0, <1>2, <2>1, QuietBind DEF Outside, Others
  <2>4. \A u \in Rpcs : task[u].pc = "track" => task'[u] = task[u]
    BY <1>2 DEF Outside, Others, InCriticalSection, Tasks
  <2>5. BoundKnown'
    BY <1>0, <2>1, <2>4, QuietBound
  <2> QED
    BY <2>2, <2>3, <2>5 DEF BindInv
<1>3. ASSUME NEW t \in Rpcs, CallStage(t) \/ CallUnstage(t) PROVE BindInv'
  BY <1>0, <1>2, <1>3, OutsideSteps DEF CallStage, CallUnstage, Tasks
<1>4. ASSUME NEW t \in Rpcs, NEW p, CallPublish(t, p) \/ CallUnpublish(t, p) PROVE BindInv'
  BY <1>0, <1>2, <1>4, OutsideSteps DEF CallPublish, CallUnpublish, Tasks
<1>5. ASSUME NEW t \in Monitors, Sweep(t) \/ SweepVerdict(t) PROVE BindInv'
  BY <1>0, <1>2, <1>5, OutsideSteps DEF Tasks
<1>6. ASSUME NEW t \in Tasks, GetMutex(t) \/ Lock(t) PROVE BindInv'
  BY <1>0, <1>2, <1>6, OutsideSteps
<1>7. ASSUME Quiet, task' = task PROVE BindInv'
  BY <1>0, <1>7, QuietBind, QuietBound DEF BindInv
<1>8. ASSUME UNCHANGED <<volumes, volObj, task, bind>>, staging' \in {None, staging},
             \A g \in Gens : fuse'[g] \in {"live", "slow"} => fuse[g] \in {"live", "slow"}
      PROVE  BindInv'
  <2>1. Quiet
    BY <1>8 DEF Quiet, Current
  <2> QED
    BY <1>7, <1>8, <2>1
<1>9. CASE SessionFails \/ SessionEases \/ CacheExpires \/ SessionEnds
  <2>1. UNCHANGED <<volumes, volObj, task, bind, staging>>
    BY <1>9 DEF SessionFails, SessionEases, CacheExpires, SessionMoves, SessionEnds, nodeVars
  <2>2. fuse \in [Gens -> {"live", "slow", "hung", "cached", "dead"}]
    BY <1>0 DEF TypeInv, TypeOK
  <2>3. \A g \in Gens : fuse'[g] \in {"live", "slow"} => fuse[g] \in {"live", "slow"}
    BY <1>9, <2>2 DEF SessionFails, SessionEases, CacheExpires, SessionMoves, SessionEnds
  <2> QED
    BY <1>8, <2>1, <2>3
<1>12. CASE LateUnmount
  <2>1. UNCHANGED <<volumes, volObj, task, bind>> /\ staging' \in {None, staging}
    BY <1>12 DEF LateUnmount, UnmountAtManager, nodeVars
  <2>2. \A g \in Gens : fuse'[g] \in {"live", "slow"} => fuse[g] \in {"live", "slow"}
    BY <1>0, <1>12 DEF LateUnmount, UnmountAtManager, TypeInv, TypeOK
  <2> QED
    BY <1>8, <2>1, <2>2
<1>13. CASE LateMount
  <2>1. UNCHANGED <<volumes, volObj, task, bind>> /\ MountAtManager
    BY <1>13 DEF LateMount, nodeVars
  <2>2. UNCHANGED <<staging, fuse>> \/ staging' \in FreshGens
    BY <2>1, PickTypes DEF MountAtManager
  <2>3. Quiet
    BY <2>1, <2>2 DEF Quiet, Current, FreshGens
  <2> QED
    BY <1>7, <2>1, <2>3
<1>10. CASE Reap \/ BackoffEnds \/ UNCHANGED vars
  <2>1. UNCHANGED <<volumes, volObj, task, bind, fuse>> /\ staging' \in {None, staging}
    BY <1>10 DEF Reap, BackoffEnds, vars, nodeVars, hostVars
  <2> QED
    BY <1>8, <2>1
<1>11. CASE Restart
  <2>1. \A u \in Tasks : BindAt(u)'
    BY <1>11, IdleBind DEF Restart, Idle, Remounting
  <2>2. UNCHANGED <<staging, bind>>
    BY <1>11 DEF Restart, hostVars
  <2>3. CASE volumes' = None
    BY <2>1, <2>3 DEF BindInv, BoundKnown
  <2>4. CASE volumes' # None
    <3>1. /\ volumes' = Pick(Vols)
          /\ volObj' = [o \in Vols |-> IF o = volumes' THEN Restored(RestoredPaths) ELSE NoVolume]
      BY <1>0, <1>11, <2>4 DEF Restart
    <3>2. volObj'[volumes'] = Restored(RestoredPaths)
      BY <3>1, PickTypes
    <3>3. Current' = RestoredPaths
      BY <2>4, <3>2 DEF Current, Restored
    <3>4. \A p \in Paths : bind'[p] = staging' => p \in Current'
      BY <2>2, <3>3 DEF RestoredPaths
    <3> QED
      BY <2>1, <3>4 DEF BindInv, BoundKnown
  <2> QED
    BY <2>3, <2>4
<1> QED
  BY <1>1, <1>3, <1>4, <1>5, <1>6, <1>9, <1>10, <1>11, <1>12, <1>13 DEF Next, Environment

(* The monitor's recovery stops the weed process only when no pod can be   *)
(* using it: a session that still answers, staged and bound somewhere, is  *)
(* known by its publish paths and spared, also after a plugin restart that *)
(* could read the devices.                                                 *)
THEOREM LiveSpared == Kubelet /\ ~DeviceLookupFails /\ Spec => NoLiveTeardown
<1>1. Kubelet /\ ~DeviceLookupFails /\ Init => SparingInv
  <2> SUFFICES ASSUME Kubelet, ~DeviceLookupFails, Init PROVE SparingInv
    OBVIOUS
  <2>1. BindInv
    BY DEF Init, Idle, BindInv, BindAt, BoundKnown, Remounting
  <2> QED
    BY <2>1, KnowInit DEF SparingInv
<1>2. SparingInv /\ [Next]_vars => SparingInv'
  BY BindStep, KnowStep DEF SparingInv
<1>3. SparingInv /\ [Next]_vars =>
        [\A t \in Monitors : RecoverStop(t) => \A g \in Gens : Spared(g) => Serves(g)']_vars
  <2> SUFFICES ASSUME SparingInv, NEW t \in Monitors, RecoverStop(t), NEW g \in Gens, Spared(g)
               PROVE  FALSE
    OBVIOUS
  <2>0. /\ KnowInv /\ BindAt(t) /\ BoundKnown /\ VolumeSerialized /\ t \in Tasks /\ TrackAt(t)
        /\ task[t] \in Locals /\ PlaceOK(t, task[t]) /\ volumes # None /\ task[t].pc = "stop"
    BY OneInside DEF SparingInv, KnowInv, SafeInv, TrackInv, BindInv, TypeInv, TypeOK, PlaceInv, MutexInv, Tasks,
                     RecoverStop, At
  <2>1. PICK p \in Paths : bind[p] = g
    BY DEF Spared
  <2>2. staging = g /\ Is(staging, {"live", "slow"}) /\ staging # None
    BY NamesAssumption DEF Spared, Is
  <2>3. volObj[volumes].unmounter /\ task[t].pubs = {}
    BY <2>0, <2>1, <2>2 DEF BindAt, Unused
  <2>4. task[t].op = "recover"
    BY <2>0 DEF PlaceOK, Locals, Begin, Rebuilding, Staging, Retrying, Recovering
  <2>5. Current = {}
    BY <2>0, <2>3, <2>4 DEF TrackAt, Collected
  <2>6. \A u \in Rpcs : task[u].pc # "track"
    BY <2>0 DEF VolumeSerialized, InCriticalSection, Tasks
  <2> QED
    BY <2>0, <2>1, <2>2, <2>3, <2>5, <2>6 DEF BoundKnown
<1> QED
  BY <1>1, <1>2, <1>3, PTL DEF Spec, NoLiveTeardown
=============================================================================
