---------------------------- MODULE MountManager ----------------------------
(***************************************************************************)
(* The mount service (pkg/mountmanager): a Manager that owns one `weed     *)
(* mount` process per volume.  HTTP handlers run Manager.Mount, Unmount    *)
(* and List concurrently; every process has a goroutine running            *)
(* weedMountProcess.wait and, once recorded, one running watchProcessExit. *)
(* A mountEntry and its weedMountProcess are created together and never    *)
(* shared, so one identifier stands for both.                              *)
(***************************************************************************)
EXTENDS Naturals

CONSTANTS
    Volumes,     \* volume IDs
    Targets,     \* staging paths, the mount targets of requests
    VolumeOf,    \* the volume a staging path belongs to (kubelet derives the
                 \* path from the volume, so no path serves two volumes)
    Handlers,    \* concurrent HTTP requests
    Procs,       \* weed mount processes alive or remembered at one time (bound)
    None         \* the nil pointer

ASSUME VolumeOfAssumption == VolumeOf \in [Targets -> Volumes]
ASSUME NoneAssumption == None \notin Procs \cup Handlers \cup Targets \cup Volumes

VARIABLES
    mounts,   \* Manager.mounts: volume -> entry
    locks,    \* Manager.locks: volume -> handler that holds the mutex
    pc,       \* where each handler is, in the end what it answered
    op,       \* which method it runs
    vol,      \* req.VolumeID
    tgt,      \* req.TargetPath
    entry,    \* the handler's local `entry` or `process`
    todo,     \* List: entries of the snapshot not looked at yet
    listed,   \* List: entries put in the response
    phase,    \* each process and its wait() goroutine
    ptgt,     \* weedMountProcess.target
    killed,   \* stop() has sent it SIGKILL and it is not gone yet
    watched,  \* a watchProcessExit goroutine is waiting for it
    host      \* the FUSE mount visible at each target, by serving process

handlerVars == <<pc, op, vol, tgt, entry, todo, listed>>
procVars == <<phase, ptgt, killed, watched>>
vars == <<mounts, locks, pc, op, vol, tgt, entry, todo, listed,
          phase, ptgt, killed, watched, host>>

(***************************************************************************)
(* A process is started ("starting"), mounts its target ("serving"), dies  *)
(* ("dead": gone, cmd.Wait has not returned), then its wait() goroutine    *)
(* closes `exited`, unmounts the target ("cleaned") and closes `done`.     *)
(* "gone" is one never started, or that died with the whole mount service. *)
(***************************************************************************)
Phases == {"gone", "starting", "serving", "dead", "exited", "cleaned", "done"}
Alive(p) == phase[p] \in {"starting", "serving"}
Exited(p) == phase[p] \in {"exited", "cleaned", "done"}
Corrupted(t) == host[t] # None /\ ~Alive(host[t])

(* The handler states in which the per-volume mutex is held.               *)
MountPCs == {"lookup", "check", "drain", "clean", "spawn", "await", "record"}
StopPCs == {"term", "termWait", "killWait"}
LockedPCs == MountPCs \cup StopPCs \cup {"remove"}
IdlePCs == {"idle", "ok", "error"}
PCs == LockedPCs \cup IdlePCs \cup {"lock", "snapshot", "filter"}

TypeOK ==
    /\ mounts \in [Volumes -> Procs \cup {None}]
    /\ locks \in [Volumes -> Handlers \cup {None}]
    /\ pc \in [Handlers -> PCs]
    /\ op \in [Handlers -> {"none", "mount", "unmount", "list"}]
    /\ vol \in [Handlers -> Volumes \cup {None}]
    /\ tgt \in [Handlers -> Targets \cup {None}]
    /\ entry \in [Handlers -> Procs \cup {None}]
    /\ todo \in [Handlers -> SUBSET Procs]
    /\ listed \in [Handlers -> SUBSET Procs]
    /\ phase \in [Procs -> Phases]
    /\ ptgt \in [Procs -> Targets \cup {None}]
    /\ killed \in [Procs -> BOOLEAN]
    /\ watched \in [Procs -> BOOLEAN]
    /\ host \in [Targets -> Procs \cup {None}]

Init ==
    /\ mounts = [v \in Volumes |-> None]
    /\ locks = [v \in Volumes |-> None]
    /\ pc = [c \in Handlers |-> "idle"]
    /\ op = [c \in Handlers |-> "none"]
    /\ vol = [c \in Handlers |-> None]
    /\ tgt = [c \in Handlers |-> None]
    /\ entry = [c \in Handlers |-> None]
    /\ todo = [c \in Handlers |-> {}]
    /\ listed = [c \in Handlers |-> {}]
    /\ phase = [p \in Procs |-> "gone"]
    /\ ptgt = [p \in Procs |-> None]
    /\ killed = [p \in Procs |-> FALSE]
    /\ watched = [p \in Procs |-> FALSE]
    /\ host = [t \in Targets |-> None]

(* A handler moves on; it answers, which drops its locals.                 *)
Goto(c, l) == pc' = [pc EXCEPT ![c] = l]

Answer(c, r) ==
    /\ Goto(c, r)
    /\ op' = [op EXCEPT ![c] = "none"]
    /\ vol' = [vol EXCEPT ![c] = None]
    /\ tgt' = [tgt EXCEPT ![c] = None]
    /\ entry' = [entry EXCEPT ![c] = None]
    /\ todo' = [todo EXCEPT ![c] = {}]
    /\ listed' = [listed EXCEPT ![c] = {}]

(* The deferred lock.Unlock() of Mount and Unmount.                        *)
AnswerAndUnlock(c, r) ==
    /\ Answer(c, r)
    /\ locks' = [locks EXCEPT ![vol[c]] = None]

(* An identifier no goroutine, map or mount refers to any more.            *)
Free(p) ==
    /\ phase[p] \in {"gone", "done"}
    /\ ~watched[p]
    /\ \A v \in Volumes : mounts[v] # p
    /\ \A c \in Handlers : entry[c] # p /\ p \notin todo[c] \cup listed[c]
    /\ \A t \in Targets : host[t] # p

-----------------------------------------------------------------------------
(* A request arrives; one that fails validation changes nothing.           *)
Call(c, o, v, t, l) ==
    /\ pc[c] \in IdlePCs
    /\ Goto(c, l)
    /\ op' = [op EXCEPT ![c] = o]
    /\ vol' = [vol EXCEPT ![c] = v]
    /\ tgt' = [tgt EXCEPT ![c] = t]
    /\ UNCHANGED <<entry, todo, listed, mounts, locks, host, procVars>>

MountCall(c) == \E t \in Targets : Call(c, "mount", VolumeOf[t], t, "lock")
UnmountCall(c) == \E v \in Volumes : Call(c, "unmount", v, None, "lock")
ListCall(c) == Call(c, "list", None, None, "snapshot")

(* Mutant of Lock: the handler enters whoever holds the volume's mutex.    *)
LockNotExclusive(c) ==
    /\ pc[c] = "lock"
    /\ locks' = [locks EXCEPT ![vol[c]] = c]
    /\ Goto(c, "lookup")
    /\ UNCHANGED <<op, vol, tgt, entry, todo, listed, mounts, host, procVars>>

(* locks.get(volumeID).Lock(): the mutex of a volume is never deleted.     *)
Lock(c) ==
    /\ pc[c] = "lock"
    /\ locks[vol[c]] = None
    /\ locks' = [locks EXCEPT ![vol[c]] = c]
    /\ Goto(c, "lookup")
    /\ UNCHANGED <<op, vol, tgt, entry, todo, listed, mounts, host, procVars>>

(* Mount, step 1: getMount.                                                *)
MountLookup(c) ==
    /\ pc[c] = "lookup" /\ op[c] = "mount"
    /\ entry' = [entry EXCEPT ![c] = mounts[vol[c]]]
    /\ Goto(c, IF mounts[vol[c]] = None THEN "clean" ELSE "check")
    /\ UNCHANGED <<op, vol, tgt, todo, listed, mounts, locks, host, procVars>>

(* Mount, step 2: select on entry.process.exited.                          *)
MountAlready(c) ==
    /\ pc[c] = "check"
    /\ ~Exited(entry[c])
    /\ AnswerAndUnlock(c, IF ptgt[entry[c]] = tgt[c] THEN "ok" ELSE "error")
    /\ UNCHANGED <<mounts, host, procVars>>

MountStale(c) ==
    /\ pc[c] = "check"
    /\ Exited(entry[c])
    /\ Goto(c, "drain")
    /\ UNCHANGED <<op, vol, tgt, entry, todo, listed, mounts, locks, host, procVars>>

(* Mutant of MountDrain: no wait for `done`.                               *)
MountDrainNoWait(c) ==
    /\ pc[c] = "drain"
    /\ mounts' = [mounts EXCEPT ![vol[c]] = None]
    /\ entry' = [entry EXCEPT ![c] = None]
    /\ Goto(c, "clean")
    /\ UNCHANGED <<op, vol, tgt, todo, listed, locks, host, procVars>>

(* Mount, step 3: <-entry.process.done, then removeMount.                  *)
MountDrain(c) ==
    /\ pc[c] = "drain"
    /\ phase[entry[c]] = "done"
    /\ mounts' = [mounts EXCEPT ![vol[c]] = None]
    /\ entry' = [entry EXCEPT ![c] = None]
    /\ Goto(c, "clean")
    /\ UNCHANGED <<op, vol, tgt, todo, listed, locks, host, procVars>>

(* Mutant of EnsureTargetClean: an existing mount is left where it is.     *)
TargetNotCleaned(c) ==
    /\ pc[c] = "clean"
    /\ Goto(c, "spawn")
    /\ UNCHANGED <<op, vol, tgt, entry, todo, listed, mounts, locks, host, procVars>>

(* startMount: ensureTargetClean unmounts what it finds at the target.     *)
EnsureTargetClean(c) ==
    /\ pc[c] = "clean"
    /\ host' = [host EXCEPT ![tgt[c]] = None]
    /\ Goto(c, "spawn")
    /\ UNCHANGED <<op, vol, tgt, entry, todo, listed, mounts, locks, procVars>>

(* The unmount fails (busy, or even lazily), or a directory cannot be made.*)
StartMountFails(c) ==
    /\ pc[c] \in {"clean", "spawn"}
    /\ AnswerAndUnlock(c, "error")
    /\ UNCHANGED <<mounts, host, procVars>>

(* startWeedMountProcess: cmd.Start and `go process.wait()`.               *)
StartProcess(c) ==
    /\ pc[c] = "spawn"
    /\ \E p \in Procs :
        /\ Free(p)
        /\ phase' = [phase EXCEPT ![p] = "starting"]
        /\ ptgt' = [ptgt EXCEPT ![p] = tgt[c]]
        /\ killed' = [killed EXCEPT ![p] = FALSE]
        /\ entry' = [entry EXCEPT ![c] = p]
    /\ Goto(c, "await")
    /\ UNCHANGED <<op, vol, tgt, todo, listed, mounts, locks, host, watched>>

(* waitForMount: the target is a readable mount point, whoever serves it.  *)
WaitForMountOK(c) ==
    /\ pc[c] = "await"
    /\ host[tgt[c]] # None /\ ~Corrupted(tgt[c])
    /\ Goto(c, "record")
    /\ UNCHANGED <<op, vol, tgt, entry, todo, listed, mounts, locks, host, procVars>>

(* It times out, or the check itself fails: process.stop() follows.        *)
WaitForMountFails(c) ==
    /\ pc[c] = "await"
    /\ host[tgt[c]] = None \/ Corrupted(tgt[c])
    /\ Goto(c, "term")
    /\ UNCHANGED <<op, vol, tgt, entry, todo, listed, mounts, locks, host, procVars>>

(* Mutant of MountRecord: `go watchProcessExit` is forgotten.              *)
MountRecordUnwatched(c) ==
    /\ pc[c] = "record"
    /\ mounts' = [mounts EXCEPT ![vol[c]] = entry[c]]
    /\ AnswerAndUnlock(c, "ok")
    /\ UNCHANGED <<host, procVars>>

(* Mount records the entry and starts its watcher.                         *)
MountRecord(c) ==
    /\ pc[c] = "record"
    /\ mounts' = [mounts EXCEPT ![vol[c]] = entry[c]]
    /\ watched' = [watched EXCEPT ![entry[c]] = TRUE]
    /\ AnswerAndUnlock(c, "ok")
    /\ UNCHANGED <<phase, ptgt, killed, host>>

(* Unmount, step 1: getMount; an unknown volume is a success.              *)
UnmountLookup(c) ==
    /\ pc[c] = "lookup" /\ op[c] = "unmount"
    /\ IF mounts[vol[c]] = None
       THEN AnswerAndUnlock(c, "ok")
       ELSE /\ entry' = [entry EXCEPT ![c] = mounts[vol[c]]]
            /\ Goto(c, "term")
            /\ UNCHANGED <<op, vol, tgt, todo, listed, locks>>
    /\ UNCHANGED <<mounts, host, procVars>>

(* stop: SIGTERM, wait for `done`, SIGKILL, wait again.  A process need    *)
(* not react to SIGTERM; signalling one that is already gone only logs.    *)
StopTerm(c) ==
    /\ pc[c] = "term"
    /\ Goto(c, "termWait")
    /\ UNCHANGED <<op, vol, tgt, entry, todo, listed, mounts, locks, host, procVars>>

StopKill(c) ==
    /\ pc[c] = "termWait"
    /\ killed' = [killed EXCEPT ![entry[c]] = Alive(entry[c])]
    /\ Goto(c, "killWait")
    /\ UNCHANGED <<op, vol, tgt, entry, todo, listed, mounts, locks, host,
                   phase, ptgt, watched>>

(* Mutant of StopDone: stop returns without waiting for the process.       *)
StopDoneEarly(c) ==
    /\ pc[c] \in {"termWait", "killWait"}
    /\ IF op[c] = "mount"
       THEN AnswerAndUnlock(c, "error")
       ELSE Goto(c, "remove") /\ UNCHANGED <<op, vol, tgt, entry, todo, listed, locks>>
    /\ UNCHANGED <<mounts, host, procVars>>

(* stop returns nil.  A failed start answers its own error; Unmount goes   *)
(* on to remove the entry.                                                 *)
StopDone(c) ==
    /\ pc[c] \in {"termWait", "killWait"}
    /\ phase[entry[c]] = "done"
    /\ IF op[c] = "mount"
       THEN AnswerAndUnlock(c, "error")
       ELSE Goto(c, "remove") /\ UNCHANGED <<op, vol, tgt, entry, todo, listed, locks>>
    /\ UNCHANGED <<mounts, host, procVars>>

(* Mutant of StopTimeout: the error path forgets to unlock.                *)
StopTimeoutLocked(c) ==
    /\ pc[c] = "killWait"
    /\ Answer(c, "error")
    /\ UNCHANGED <<locks, mounts, host, procVars>>

(* stop times out after SIGKILL: Unmount keeps the entry; a failed start   *)
(* only logs and forgets the process.                                      *)
StopTimeout(c) ==
    /\ pc[c] = "killWait"
    /\ AnswerAndUnlock(c, "error")
    /\ UNCHANGED <<mounts, host, procVars>>

(* Mutant of UnmountRemove: the entry stays in the map.                    *)
UnmountKeepsEntry(c) ==
    /\ pc[c] = "remove"
    /\ AnswerAndUnlock(c, "ok")
    /\ UNCHANGED <<mounts, host, procVars>>

(* Unmount's removeMount deletes whatever the map holds for the volume.    *)
UnmountRemove(c) ==
    /\ pc[c] = "remove"
    /\ mounts' = [mounts EXCEPT ![vol[c]] = None]
    /\ AnswerAndUnlock(c, "ok")
    /\ UNCHANGED <<host, procVars>>

(* Mutant of ListSnapshot: absent entries are copied as nil.               *)
ListSnapshotNil(c) ==
    /\ pc[c] = "snapshot"
    /\ todo' = [todo EXCEPT ![c] = {mounts[v] : v \in Volumes}]
    /\ Goto(c, "filter")
    /\ UNCHANGED <<op, vol, tgt, entry, listed, mounts, locks, host, procVars>>

(* List copies the entries under Manager.mu, then looks at each one.       *)
ListSnapshot(c) ==
    /\ pc[c] = "snapshot"
    /\ todo' = [todo EXCEPT ![c] = {mounts[v] : v \in Volumes} \ {None}]
    /\ Goto(c, "filter")
    /\ UNCHANGED <<op, vol, tgt, entry, listed, mounts, locks, host, procVars>>

(* Mutant of ListFilter: entries are listed without the `exited` check.    *)
ListUnfiltered(c) ==
    /\ pc[c] = "filter"
    /\ \E p \in todo[c] :
        /\ todo' = [todo EXCEPT ![c] = @ \ {p}]
        /\ listed' = [listed EXCEPT ![c] = @ \cup {p}]
    /\ UNCHANGED <<pc, op, vol, tgt, entry, mounts, locks, host, procVars>>

ListFilter(c) ==
    /\ pc[c] = "filter"
    /\ \E p \in todo[c] :
        /\ todo' = [todo EXCEPT ![c] = @ \ {p}]
        /\ listed' = [listed EXCEPT ![c] = IF Exited(p) THEN @ ELSE @ \cup {p}]
    /\ UNCHANGED <<pc, op, vol, tgt, entry, mounts, locks, host, procVars>>

ListReturn(c) ==
    /\ pc[c] = "filter" /\ todo[c] = {}
    /\ Answer(c, "ok")
    /\ UNCHANGED <<mounts, locks, host, procVars>>

-----------------------------------------------------------------------------
(* The weed process: it mounts its target unless it has been killed, and   *)
(* may die at any time, unmounting first if it leaves in good order.       *)
ProcMounts(p) ==
    /\ phase[p] = "starting" /\ ~killed[p]
    /\ phase' = [phase EXCEPT ![p] = "serving"]
    /\ host' = [host EXCEPT ![ptgt[p]] = p]
    /\ UNCHANGED <<mounts, locks, handlerVars, ptgt, killed, watched>>

ProcDies(p) ==
    /\ Alive(p)
    /\ phase' = [phase EXCEPT ![p] = "dead"]
    /\ killed' = [killed EXCEPT ![p] = FALSE]
    /\ host' \in {host, [host EXCEPT ![ptgt[p]] = IF @ = p THEN None ELSE @]}
    /\ UNCHANGED <<mounts, locks, handlerVars, ptgt, watched>>

(* wait(): cmd.Wait returns and `exited` is closed.                        *)
WaitExited(p) ==
    /\ phase[p] = "dead"
    /\ phase' = [phase EXCEPT ![p] = "exited"]
    /\ UNCHANGED <<mounts, locks, handlerVars, ptgt, killed, watched, host>>

(* wait(): unmount the target by path, lazily if that fails; both may fail.*)
WaitUnmount(p) ==
    /\ phase[p] = "exited"
    /\ phase' = [phase EXCEPT ![p] = "cleaned"]
    /\ host' \in {host, [host EXCEPT ![ptgt[p]] = None]}
    /\ UNCHANGED <<mounts, locks, handlerVars, ptgt, killed, watched>>

WaitDone(p) ==
    /\ phase[p] = "cleaned"
    /\ phase' = [phase EXCEPT ![p] = "done"]
    /\ UNCHANGED <<mounts, locks, handlerVars, ptgt, killed, watched, host>>

(* Mutant of WatchProcessExit: it removes by volume ID, not by identity.   *)
WatchByVolume(p) ==
    /\ watched[p] /\ phase[p] = "done"
    /\ watched' = [watched EXCEPT ![p] = FALSE]
    /\ mounts' = [mounts EXCEPT ![VolumeOf[ptgt[p]]] = None]
    /\ UNCHANGED <<locks, handlerVars, phase, ptgt, killed, host>>

(* watchProcessExit: remove the entry if it is still this one.             *)
WatchProcessExit(p) ==
    /\ watched[p] /\ phase[p] = "done"
    /\ watched' = [watched EXCEPT ![p] = FALSE]
    /\ mounts' = [v \in Volumes |-> IF v = VolumeOf[ptgt[p]] /\ mounts[v] = p
                                    THEN None ELSE mounts[v]]
    /\ UNCHANGED <<locks, handlerVars, phase, ptgt, killed, host>>

(* The CSI driver unmounts a staging path itself (Volume.Stage,            *)
(* Volume.Unstage without an unmounter, cleanupStaleStagingPath).          *)
DriverUnmount(t) ==
    /\ host[t] # None
    /\ host' = [host EXCEPT ![t] = None]
    /\ UNCHANGED <<mounts, locks, handlerVars, procVars>>

(* The mount service's container restarts: every process and goroutine is  *)
(* gone, NewManager starts empty, the dead FUSE mounts stay on the host.   *)
Restart ==
    /\ mounts' = [v \in Volumes |-> None]
    /\ locks' = [v \in Volumes |-> None]
    /\ pc' = [c \in Handlers |-> "error"]
    /\ op' = [c \in Handlers |-> "none"]
    /\ vol' = [c \in Handlers |-> None]
    /\ tgt' = [c \in Handlers |-> None]
    /\ entry' = [c \in Handlers |-> None]
    /\ todo' = [c \in Handlers |-> {}]
    /\ listed' = [c \in Handlers |-> {}]
    /\ phase' = [p \in Procs |-> "gone"]
    /\ ptgt' = [p \in Procs |-> None]
    /\ killed' = [p \in Procs |-> FALSE]
    /\ watched' = [p \in Procs |-> FALSE]
    /\ UNCHANGED host

HandlerStep(c) ==
    \/ MountLookup(c) \/ MountAlready(c) \/ MountStale(c) \/ MountDrain(c)
    \/ EnsureTargetClean(c) \/ StartMountFails(c) \/ StartProcess(c)
    \/ WaitForMountOK(c) \/ WaitForMountFails(c) \/ MountRecord(c)
    \/ UnmountLookup(c) \/ StopTerm(c) \/ StopKill(c) \/ StopDone(c)
    \/ StopTimeout(c) \/ UnmountRemove(c)
    \/ ListSnapshot(c) \/ ListFilter(c) \/ ListReturn(c)

WaitStep(p) == WaitExited(p) \/ WaitUnmount(p) \/ WaitDone(p)

Next ==
    \/ \E c \in Handlers : MountCall(c) \/ UnmountCall(c) \/ ListCall(c)
                           \/ Lock(c) \/ HandlerStep(c)
    \/ \E p \in Procs : ProcMounts(p) \/ ProcDies(p) \/ WaitStep(p) \/ WatchProcessExit(p)
    \/ \E t \in Targets : DriverUnmount(t)
    \/ Restart

Spec == Init /\ [][Next]_vars

(* Goroutines keep running and system calls return; sync.Mutex hands over  *)
(* to a waiter that has starved.  Nothing is assumed of the callers or of  *)
(* when a weed process dies.                                               *)
Fairness ==
    /\ \A c \in Handlers : SF_vars(Lock(c)) /\ WF_vars(HandlerStep(c))
    /\ \A p \in Procs : WF_vars(WaitStep(p)) /\ WF_vars(WatchProcessExit(p))

FairSpec == Spec /\ Fairness
-----------------------------------------------------------------------------
(* Two weed processes never serve one volume: as long as a process of a    *)
(* volume can still serve (it is alive and has not been sent SIGKILL),     *)
(* there is no other.  Mount relies on the per-volume lock and on removing *)
(* an entry only once its process is gone.                                 *)
OneServerPerVolume ==
    \A p, q \in Procs :
        /\ Alive(p) /\ ~killed[p]
        /\ Alive(q) /\ ~killed[q]
        /\ VolumeOf[ptgt[p]] = VolumeOf[ptgt[q]]
        => p = q

(* A process about to mount finds its target bare: ensureTargetClean's     *)
(* result still holds when the new FUSE mount appears, so mounts at a      *)
(* target never stack.                                                     *)
MountsOnBareTarget ==
    \A p \in Procs : phase[p] = "starting" /\ ~killed[p] => host[ptgt[p]] = None

(* The unmount by path in wait() of a process Mount has recorded finds its *)
(* own mount or none: Mount starts no successor before `done` is closed.   *)
RecordedCleanupIsOwn ==
    \A p \in Procs : watched[p] /\ phase[p] = "exited" => host[ptgt[p]] \in {p, None}

(* An entry leaves the map only after its process has closed `done`,       *)
(* whoever removes it: Unmount and Mount delete by volume ID, the watcher  *)
(* by identity, so none of them may hit a successor's entry.               *)
EntryOutlivesProcess ==
    [][\A v \in Volumes : mounts[v] # None /\ mounts'[v] # mounts[v]
            => phase[mounts[v]] = "done" \/ phase'[mounts[v]] = "gone"]_vars

(* When Unmount answers success no process of the volume can serve any     *)
(* more, also the one of a Mount that was still starting when it came.     *)
UnmountedMeansStopped ==
    [][\A c \in Handlers :
            op[c] = "unmount" /\ pc'[c] = "ok"
            => \A p \in Procs : Alive(p) /\ VolumeOf[ptgt[p]] = vol[c] => killed[p]]_vars

(* What List reports from its snapshot is still the volume's current entry *)
(* when it is reported: the `exited` check filters every entry that could  *)
(* have been replaced since.                                               *)
ListedIsTracked ==
    [][\A c \in Handlers : \A p \in listed'[c] \ listed[c] :
            mounts[VolumeOf[ptgt[p]]] = p]_vars

(* Every request is answered: no handler waits for ever for the lock, for  *)
(* `done` or in stop().                                                    *)
EveryRequestReturns ==
    \A c \in Handlers : pc[c] \notin IdlePCs ~> pc[c] \in IdlePCs

(* The entry of a process that has died leaves the map without any         *)
(* Unmount (watchProcessExit).                                             *)
StaleEntryCleared ==
    \A v \in Volumes, p \in Procs :
        mounts[v] = p /\ ~Alive(p) ~> mounts[v] # p

(* The service as its callers see it: a volume's record, the processes     *)
(* that can serve, and the requests.  Everything between a request's       *)
(* arrival and its answer is hidden.                                       *)
CanServe == {p \in Procs : Alive(p) /\ ~killed[p]}
OwnerOf == [p \in Procs |-> IF ptgt[p] = None THEN None ELSE VolumeOf[ptgt[p]]]
RequestOf == [c \in Handlers |-> [op |-> op[c], vol |-> vol[c]]]
ResultOf == [c \in Handlers |-> IF pc[c] \in IdlePCs THEN pc[c] ELSE "pending"]

Service == INSTANCE MountService WITH
    registry <- mounts, running <- CanServe, owner <- OwnerOf,
    request <- RequestOf, result <- ResultOf, reported <- listed

(* Every interleaving of Mount, Unmount, List, the wait and watch          *)
(* goroutines, crashes, kills and restarts looks to the callers like       *)
(* requests that take effect one at a time, in the step that answers them. *)
ImplementsService == Service!Spec
=============================================================================
