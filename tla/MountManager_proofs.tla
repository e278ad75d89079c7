------------------------ MODULE MountManager_proofs ------------------------
(***************************************************************************)
(* Safety of the mount service for any set of volumes, targets, handlers   *)
(* and processes.  The argument: the per-volume lock makes the handler     *)
(* that is starting a process (its creator) unique; a process that can     *)
(* still serve is either the volume's map entry or the creator's, never    *)
(* one of each; and an entry leaves the map only when its process is done. *)
(***************************************************************************)
EXTENDS MountManager, TLAPS

Vol(p) == VolumeOf[ptgt[p]]

(* The handler c is starting p, which is not in the map yet.               *)
Creating(c, p) ==
    /\ entry[c] = p /\ op[c] = "mount"
    /\ pc[c] \in {"await", "record"} \cup StopPCs

(* p is in the map or being started.                                       *)
Owned(p) == mounts[Vol(p)] = p \/ \E c \in Handlers : Creating(c, p)

LockInv ==
    \A c \in Handlers : pc[c] \in LockedPCs => locks[vol[c]] = c

RequestInv ==
    \A c \in Handlers :
        /\ pc[c] \in LockedPCs \cup {"lock"} => vol[c] \in Volumes /\ op[c] \in {"mount", "unmount"}
        /\ pc[c] \in MountPCs \ {"lookup"} => op[c] = "mount"
        /\ pc[c] = "remove" => op[c] = "unmount"
        /\ pc[c] \in IdlePCs => op[c] = "none"
        /\ pc[c] \in {"snapshot", "filter"} => op[c] = "list"
        /\ op[c] = "mount" => tgt[c] \in Targets /\ vol[c] = VolumeOf[tgt[c]]

(* What a lock holder knows of its volume's entry and of its local one.    *)
HolderInv ==
    \A c \in Handlers :
        /\ pc[c] \in {"check", "drain", "await", "record", "remove"} \cup StopPCs
           => /\ entry[c] \in Procs /\ phase[entry[c]] # "gone"
              /\ ptgt[entry[c]] \in Targets /\ Vol(entry[c]) = vol[c]
        /\ pc[c] \in {"check", "drain", "remove"} \cup StopPCs /\ ~Creating(c, entry[c])
           => mounts[vol[c]] \in {entry[c], None}
        /\ pc[c] \in {"clean", "spawn"} \/ Creating(c, entry[c]) => mounts[vol[c]] = None
        /\ Creating(c, entry[c]) => ptgt[entry[c]] = tgt[c] /\ ~watched[entry[c]]
        /\ pc[c] = "remove" => phase[entry[c]] = "done"
        /\ pc[c] = "killWait" => killed[entry[c]] \/ ~Alive(entry[c])

(* Entries and their watchers.                                             *)
EntryInv ==
    /\ \A v \in Volumes : mounts[v] # None =>
            /\ phase[mounts[v]] # "gone" /\ watched[mounts[v]]
            /\ ptgt[mounts[v]] \in Targets /\ Vol(mounts[v]) = v
    /\ \A p \in Procs : phase[p] # "gone" => ptgt[p] \in Targets
    /\ \A p \in Procs : watched[p] /\ phase[p] # "done" => mounts[Vol(p)] = p
    /\ \A p \in Procs : watched[p] => phase[p] # "gone"
    /\ \A c \in Handlers : \A p \in todo[c] :
            phase[p] # "gone" /\ (phase[p] # "done" => mounts[Vol(p)] = p)

(* A process that can still serve is owned.                                *)
ServingInv ==
    \A p \in Procs : Alive(p) /\ ~killed[p] => Owned(p)

(* What is mounted at the target of an owned process.                      *)
HostInv ==
    /\ \A c \in Handlers : pc[c] = "spawn" => host[tgt[c]] = None
    /\ \A p \in Procs : phase[p] = "starting" /\ ~killed[p] => host[ptgt[p]] = None
    /\ \A p \in Procs : phase[p] \notin {"gone", "done"} /\ Owned(p) => host[ptgt[p]] \in {p, None}

IInv == TypeOK /\ LockInv /\ RequestInv /\ HolderInv /\ EntryInv /\ ServingInv /\ HostInv

-----------------------------------------------------------------------------
(* A volume has at most one owned process: the lock makes the creator      *)
(* unique and the map holds no entry while there is one.                   *)
LEMMA OwnedUnique ==
    ASSUME IInv, NEW p \in Procs, NEW q \in Procs, Owned(p), Owned(q),
           phase[p] # "gone", phase[q] # "gone", Vol(p) = Vol(q)
    PROVE  p = q
<1>1. ASSUME NEW r \in Procs, phase[r] # "gone", NEW c \in Handlers, Creating(c, r)
      PROVE  /\ pc[c] \in LockedPCs /\ vol[c] = Vol(r) /\ locks[Vol(r)] = c
             /\ mounts[Vol(r)] = None
  BY <1>1 DEF IInv, HolderInv, LockInv, Creating, LockedPCs, MountPCs, StopPCs
<1>2. CASE mounts[Vol(p)] = p /\ mounts[Vol(q)] = q
  BY <1>2
<1>3. ASSUME NEW c \in Handlers, NEW d \in Handlers, Creating(c, p), Creating(d, q) PROVE p = q
  <2>1. c = d
    BY <1>1, <1>3
  <2> QED
    BY <2>1, <1>3 DEF Creating
<1>4. ASSUME NEW c \in Handlers, Creating(c, p), mounts[Vol(q)] = q PROVE FALSE
  BY <1>1, <1>4, NoneAssumption
<1>5. ASSUME NEW c \in Handlers, Creating(c, q), mounts[Vol(p)] = p PROVE FALSE
  BY <1>1, <1>5, NoneAssumption
<1> QED
  BY <1>2, <1>3, <1>4, <1>5 DEF Owned

(* A handler about to start a process finds none owned for its volume.     *)
LEMMA SpawnUnowned ==
    ASSUME IInv, NEW c \in Handlers, pc[c] \in {"clean", "spawn"},
           NEW p \in Procs, phase[p] # "gone", Owned(p)
    PROVE  tgt[c] \in Targets /\ Vol(p) # VolumeOf[tgt[c]] /\ tgt[c] # ptgt[p]
<1>1. op[c] = "mount" /\ tgt[c] \in Targets /\ vol[c] = VolumeOf[tgt[c]] /\ mounts[vol[c]] = None
  BY DEF IInv, RequestInv, HolderInv, MountPCs
<1>2. locks[vol[c]] = c
  BY DEF IInv, LockInv, LockedPCs, MountPCs
<1>3. ASSUME NEW d \in Handlers, Creating(d, p) PROVE locks[Vol(p)] = d /\ d # c
  BY <1>3 DEF IInv, HolderInv, LockInv, Creating, LockedPCs, MountPCs, StopPCs
<1>4. Vol(p) # VolumeOf[tgt[c]]
  BY <1>1, <1>2, <1>3, NoneAssumption DEF Owned
<1> QED
  BY <1>1, <1>4 DEF Vol

(* An answer with unlock that leaves the rest alone keeps the types.       *)
LEMMA AnswerType ==
    ASSUME TypeOK, NEW c \in Handlers, NEW r \in {"ok", "error"}, AnswerAndUnlock(c, r),
           UNCHANGED <<mounts, host, procVars>>
    PROVE  TypeOK'
BY DEF TypeOK, AnswerAndUnlock, Answer, Goto, PCs, IdlePCs, procVars

(* Every step keeps the types; a lock holder's volume is a volume.         *)
LEMMA TypeStep ==
    ASSUME TypeOK, RequestInv, [Next]_vars
    PROVE  TypeOK'
<1> USE DEF TypeOK, PCs, IdlePCs, LockedPCs, MountPCs, StopPCs, Phases, procVars, handlerVars,
            Goto, Answer, AnswerAndUnlock, RequestInv
<1>1. ASSUME NEW c \in Handlers, MountCall(c) PROVE TypeOK'
  <2>1. PICK t \in Targets : Call(c, "mount", VolumeOf[t], t, "lock")
    BY <1>1 DEF MountCall
  <2>2. VolumeOf[t] \in Volumes
    BY VolumeOfAssumption
  <2> QED
    BY <2>1, <2>2 DEF Call
<1>2. ASSUME NEW c \in Handlers, UnmountCall(c) PROVE TypeOK'
  BY <1>2, VolumeOfAssumption DEF UnmountCall, Call
<1>3. ASSUME NEW c \in Handlers, ListCall(c) PROVE TypeOK'
  BY <1>3, VolumeOfAssumption DEF ListCall, Call
<1>4. ASSUME NEW c \in Handlers, Lock(c) PROVE TypeOK'
  BY <1>4 DEF Lock
<1>5. ASSUME NEW c \in Handlers, MountLookup(c) PROVE TypeOK'
  BY <1>5 DEF MountLookup
<1>6. ASSUME NEW c \in Handlers, MountAlready(c) PROVE TypeOK'
  BY <1>6 DEF MountAlready
<1>7. ASSUME NEW c \in Handlers, MountStale(c) PROVE TypeOK'
  BY <1>7 DEF MountStale
<1>8. ASSUME NEW c \in Handlers, MountDrain(c) PROVE TypeOK'
  BY <1>8 DEF MountDrain
<1>9. ASSUME NEW c \in Handlers, EnsureTargetClean(c) PROVE TypeOK'
  BY <1>9 DEF EnsureTargetClean
<1>10. ASSUME NEW c \in Handlers, StartMountFails(c) PROVE TypeOK'
  BY <1>10 DEF StartMountFails
<1>11. ASSUME NEW c \in Handlers, StartProcess(c) PROVE TypeOK'
  BY <1>11 DEF StartProcess
<1>12. ASSUME NEW c \in Handlers, WaitForMountOK(c) PROVE TypeOK'
  BY <1>12 DEF WaitForMountOK
<1>13. ASSUME NEW c \in Handlers, WaitForMountFails(c) PROVE TypeOK'
  BY <1>13 DEF WaitForMountFails
<1>14. ASSUME NEW c \in Handlers, MountRecord(c) PROVE TypeOK'
  BY <1>14 DEF MountRecord
<1>15. ASSUME NEW c \in Handlers, UnmountLookup(c) PROVE TypeOK'
  <2>1. CASE mounts[vol[c]] = None
    <3>1. AnswerAndUnlock(c, "ok") /\ UNCHANGED <<mounts, host, procVars>>
      BY <1>15, <2>1 DEF UnmountLookup
    <3> QED
      BY <3>1, AnswerType
  <2>2. CASE ~(mounts[vol[c]] = None)
    BY <1>15, <2>2 DEF UnmountLookup
  <2> QED
    BY <2>1, <2>2
<1>16. ASSUME NEW c \in Handlers, StopTerm(c) PROVE TypeOK'
  BY <1>16 DEF StopTerm
<1>17. ASSUME NEW c \in Handlers, StopKill(c) PROVE TypeOK'
  <2>1. Alive(entry[c]) \in BOOLEAN
    BY DEF Alive
  <2> QED
    BY <1>17, <2>1 DEF StopKill
<1>18. ASSUME NEW c \in Handlers, StopDone(c) PROVE TypeOK'
  <2>1. CASE op[c] = "mount"
    <3>1. AnswerAndUnlock(c, "error") /\ UNCHANGED <<mounts, host, procVars>>
      BY <1>18, <2>1 DEF StopDone
    <3> QED
      BY <3>1, AnswerType
  <2>2. CASE op[c] # "mount"
    BY <1>18, <2>2 DEF StopDone
  <2> QED
    BY <2>1, <2>2
<1>19. ASSUME NEW c \in Handlers, StopTimeout(c) PROVE TypeOK'
  BY <1>19 DEF StopTimeout
<1>20. ASSUME NEW c \in Handlers, UnmountRemove(c) PROVE TypeOK'
  BY <1>20 DEF UnmountRemove
<1>21. ASSUME NEW c \in Handlers, ListSnapshot(c) PROVE TypeOK'
  BY <1>21 DEF ListSnapshot
<1>22. ASSUME NEW c \in Handlers, ListFilter(c) PROVE TypeOK'
  BY <1>22 DEF ListFilter
<1>23. ASSUME NEW c \in Handlers, ListReturn(c) PROVE TypeOK'
  BY <1>23 DEF ListReturn
<1>24. ASSUME NEW p \in Procs, ProcMounts(p) PROVE TypeOK'
  BY <1>24 DEF ProcMounts
<1>25. ASSUME NEW p \in Procs, ProcDies(p) PROVE TypeOK'
  BY <1>25 DEF ProcDies
<1>26. ASSUME NEW p \in Procs, WaitExited(p) PROVE TypeOK'
  BY <1>26 DEF WaitExited
<1>27. ASSUME NEW p \in Procs, WaitUnmount(p) PROVE TypeOK'
  BY <1>27 DEF WaitUnmount
<1>28. ASSUME NEW p \in Procs, WaitDone(p) PROVE TypeOK'
  BY <1>28 DEF WaitDone
<1>29. ASSUME NEW p \in Procs, WatchProcessExit(p) PROVE TypeOK'
  BY <1>29 DEF WatchProcessExit
<1>30. ASSUME NEW t \in Targets, DriverUnmount(t) PROVE TypeOK'
  BY <1>30 DEF DriverUnmount
<1>31. CASE Restart
  BY <1>31 DEF Restart
<1>32. CASE UNCHANGED vars
  BY <1>32 DEF vars
<1> QED
  BY <1>1, <1>2, <1>3, <1>4, <1>5, <1>6, <1>7, <1>8, <1>9, <1>10,
     <1>11, <1>12, <1>13, <1>14, <1>15, <1>16, <1>17, <1>18, <1>19, <1>20,
     <1>21, <1>22, <1>23, <1>24, <1>25, <1>26, <1>27, <1>28, <1>29, <1>30,
     <1>31, <1>32
  DEF Next, HandlerStep, WaitStep

(* What a request is about does not change while it runs.                  *)
LEMMA RequestStep ==
    ASSUME TypeOK, RequestInv, [Next]_vars
    PROVE  RequestInv'
<1> USE DEF TypeOK, PCs, IdlePCs, LockedPCs, MountPCs, StopPCs, Phases, procVars, handlerVars,
            Goto, Answer, AnswerAndUnlock, RequestInv
<1>1. ASSUME NEW c \in Handlers, MountCall(c) PROVE RequestInv'
  BY <1>1, VolumeOfAssumption DEF MountCall, Call
<1>2. ASSUME NEW c \in Handlers, UnmountCall(c) PROVE RequestInv'
  BY <1>2, VolumeOfAssumption DEF UnmountCall, Call
<1>3. ASSUME NEW c \in Handlers, ListCall(c) PROVE RequestInv'
  BY <1>3, VolumeOfAssumption DEF ListCall, Call
<1>4. ASSUME NEW c \in Handlers, Lock(c) PROVE RequestInv'
  BY <1>4 DEF Lock
<1>5. ASSUME NEW c \in Handlers, MountLookup(c) PROVE RequestInv'
  BY <1>5 DEF MountLookup
<1>6. ASSUME NEW c \in Handlers, MountAlready(c) PROVE RequestInv'
  BY <1>6 DEF MountAlready
<1>7. ASSUME NEW c \in Handlers, MountStale(c) PROVE RequestInv'
  BY <1>7 DEF MountStale
<1>8. ASSUME NEW c \in Handlers, MountDrain(c) PROVE RequestInv'
  BY <1>8 DEF MountDrain
<1>9. ASSUME NEW c \in Handlers, EnsureTargetClean(c) PROVE RequestInv'
  BY <1>9 DEF EnsureTargetClean
<1>10. ASSUME NEW c \in Handlers, StartMountFails(c) PROVE RequestInv'
  BY <1>10 DEF StartMountFails
<1>11. ASSUME NEW c \in Handlers, StartProcess(c) PROVE RequestInv'
  BY <1>11 DEF StartProcess
<1>12. ASSUME NEW c \in Handlers, WaitForMountOK(c) PROVE RequestInv'
  BY <1>12 DEF WaitForMountOK
<1>13. ASSUME NEW c \in Handlers, WaitForMountFails(c) PROVE RequestInv'
  BY <1>13 DEF WaitForMountFails
<1>14. ASSUME NEW c \in Handlers, MountRecord(c) PROVE RequestInv'
  BY <1>14 DEF MountRecord
<1>15. ASSUME NEW c \in Handlers, UnmountLookup(c) PROVE RequestInv'
  BY <1>15 DEF UnmountLookup
<1>16. ASSUME NEW c \in Handlers, StopTerm(c) PROVE RequestInv'
  BY <1>16 DEF StopTerm
<1>17. ASSUME NEW c \in Handlers, StopKill(c) PROVE RequestInv'
  BY <1>17 DEF StopKill
<1>18. ASSUME NEW c \in Handlers, StopDone(c) PROVE RequestInv'
  BY <1>18 DEF StopDone
<1>19. ASSUME NEW c \in Handlers, StopTimeout(c) PROVE RequestInv'
  BY <1>19 DEF StopTimeout
<1>20. ASSUME NEW c \in Handlers, UnmountRemove(c) PROVE RequestInv'
  BY <1>20 DEF UnmountRemove
<1>21. ASSUME NEW c \in Handlers, ListSnapshot(c) PROVE RequestInv'
  BY <1>21 DEF ListSnapshot
<1>22. ASSUME NEW c \in Handlers, ListFilter(c) PROVE RequestInv'
  BY <1>22 DEF ListFilter
<1>23. ASSUME NEW c \in Handlers, ListReturn(c) PROVE RequestInv'
  BY <1>23 DEF ListReturn
<1>24. ASSUME NEW p \in Procs, ProcMounts(p) PROVE RequestInv'
  BY <1>24 DEF ProcMounts
<1>25. ASSUME NEW p \in Procs, ProcDies(p) PROVE RequestInv'
  BY <1>25 DEF ProcDies
<1>26. ASSUME NEW p \in Procs, WaitExited(p) PROVE RequestInv'
  BY <1>26 DEF WaitExited
<1>27. ASSUME NEW p \in Procs, WaitUnmount(p) PROVE RequestInv'
  BY <1>27 DEF WaitUnmount
<1>28. ASSUME NEW p \in Procs, WaitDone(p) PROVE RequestInv'
  BY <1>28 DEF WaitDone
<1>29. ASSUME NEW p \in Procs, WatchProcessExit(p) PROVE RequestInv'
  BY <1>29 DEF WatchProcessExit
<1>30. ASSUME NEW t \in Targets, DriverUnmount(t) PROVE RequestInv'
  BY <1>30 DEF DriverUnmount
<1>31. CASE Restart
  BY <1>31 DEF Restart
<1>32. CASE UNCHANGED vars
  BY <1>32 DEF vars
<1> QED
  BY <1>1, <1>2, <1>3, <1>4, <1>5, <1>6, <1>7, <1>8, <1>9, <1>10,
     <1>11, <1>12, <1>13, <1>14, <1>15, <1>16, <1>17, <1>18, <1>19, <1>20,
     <1>21, <1>22, <1>23, <1>24, <1>25, <1>26, <1>27, <1>28, <1>29, <1>30,
     <1>31, <1>32
  DEF Next, HandlerStep, WaitStep

(* The mutex of a volume has one holder: only Lock takes it, when free.    *)
LEMMA LockStep ==
    ASSUME TypeOK, RequestInv, LockInv, [Next]_vars
    PROVE  LockInv'
<1> USE DEF TypeOK, PCs, IdlePCs, LockedPCs, MountPCs, StopPCs, Phases, procVars, handlerVars,
            Goto, Answer, AnswerAndUnlock, RequestInv, LockInv
<1>1. ASSUME NEW c \in Handlers, MountCall(c) PROVE LockInv'
  BY <1>1, VolumeOfAssumption DEF MountCall, Call
<1>2. ASSUME NEW c \in Handlers, UnmountCall(c) PROVE LockInv'
  BY <1>2, VolumeOfAssumption DEF UnmountCall, Call
<1>3. ASSUME NEW c \in Handlers, ListCall(c) PROVE LockInv'
  BY <1>3, VolumeOfAssumption DEF ListCall, Call
<1>4. ASSUME NEW c \in Handlers, Lock(c) PROVE LockInv'
  BY <1>4, NoneAssumption DEF Lock
<1>5. ASSUME NEW c \in Handlers, MountLookup(c) PROVE LockInv'
  BY <1>5 DEF MountLookup
<1>6. ASSUME NEW c \in Handlers, MountAlready(c) PROVE LockInv'
  BY <1>6 DEF MountAlready
<1>7. ASSUME NEW c \in Handlers, MountStale(c) PROVE LockInv'
  BY <1>7 DEF MountStale
<1>8. ASSUME NEW c \in Handlers, MountDrain(c) PROVE LockInv'
  BY <1>8 DEF MountDrain
<1>9. ASSUME NEW c \in Handlers, EnsureTargetClean(c) PROVE LockInv'
  BY <1>9 DEF EnsureTargetClean
<1>10. ASSUME NEW c \in Handlers, StartMountFails(c) PROVE LockInv'
  BY <1>10 DEF StartMountFails
<1>11. ASSUME NEW c \in Handlers, StartProcess(c) PROVE LockInv'
  BY <1>11 DEF StartProcess
<1>12. ASSUME NEW c \in Handlers, WaitForMountOK(c) PROVE LockInv'
  BY <1>12 DEF WaitForMountOK
<1>13. ASSUME NEW c \in Handlers, WaitForMountFails(c) PROVE LockInv'
  BY <1>13 DEF WaitForMountFails
<1>14. ASSUME NEW c \in Handlers, MountRecord(c) PROVE LockInv'
  BY <1>14 DEF MountRecord
<1>15. ASSUME NEW c \in Handlers, UnmountLookup(c) PROVE LockInv'
  <2>1. CASE mounts[vol[c]] = None
    BY <1>15, <2>1 DEF UnmountLookup
  <2>2. CASE ~(mounts[vol[c]] = None)
    BY <1>15, <2>2 DEF UnmountLookup
  <2> QED
    BY <2>1, <2>2
<1>16. ASSUME NEW c \in Handlers, StopTerm(c) PROVE LockInv'
  BY <1>16 DEF StopTerm
<1>17. ASSUME NEW c \in Handlers, StopKill(c) PROVE LockInv'
  BY <1>17 DEF StopKill
<1>18. ASSUME NEW c \in Handlers, StopDone(c) PROVE LockInv'
  <2>1. CASE op[c] = "mount"
    BY <1>18, <2>1 DEF StopDone
  <2>2. CASE ~(op[c] = "mount")
    BY <1>18, <2>2 DEF StopDone
  <2> QED
    BY <2>1, <2>2
<1>19. ASSUME NEW c \in Handlers, StopTimeout(c) PROVE LockInv'
  BY <1>19 DEF StopTimeout
<1>20. ASSUME NEW c \in Handlers, UnmountRemove(c) PROVE LockInv'
  BY <1>20 DEF UnmountRemove
<1>21. ASSUME NEW c \in Handlers, ListSnapshot(c) PROVE LockInv'
  BY <1>21 DEF ListSnapshot
<1>22. ASSUME NEW c \in Handlers, ListFilter(c) PROVE LockInv'
  BY <1>22 DEF ListFilter
<1>23. ASSUME NEW c \in Handlers, ListReturn(c) PROVE LockInv'
  BY <1>23 DEF ListReturn
<1>24. ASSUME NEW p \in Procs, ProcMounts(p) PROVE LockInv'
  BY <1>24 DEF ProcMounts
<1>25. ASSUME NEW p \in Procs, ProcDies(p) PROVE LockInv'
  BY <1>25 DEF ProcDies
<1>26. ASSUME NEW p \in Procs, WaitExited(p) PROVE LockInv'
  BY <1>26 DEF WaitExited
<1>27. ASSUME NEW p \in Procs, WaitUnmount(p) PROVE LockInv'
  BY <1>27 DEF WaitUnmount
<1>28. ASSUME NEW p \in Procs, WaitDone(p) PROVE LockInv'
  BY <1>28 DEF WaitDone
<1>29. ASSUME NEW p \in Procs, WatchProcessExit(p) PROVE LockInv'
  BY <1>29 DEF WatchProcessExit
<1>30. ASSUME NEW t \in Targets, DriverUnmount(t) PROVE LockInv'
  BY <1>30 DEF DriverUnmount
<1>31. CASE Restart
  BY <1>31 DEF Restart
<1>32. CASE UNCHANGED vars
  BY <1>32 DEF vars
<1> QED
  BY <1>1, <1>2, <1>3, <1>4, <1>5, <1>6, <1>7, <1>8, <1>9, <1>10,
     <1>11, <1>12, <1>13, <1>14, <1>15, <1>16, <1>17, <1>18, <1>19, <1>20,
     <1>21, <1>22, <1>23, <1>24, <1>25, <1>26, <1>27, <1>28, <1>29, <1>30,
     <1>31, <1>32
  DEF Next, HandlerStep, WaitStep

(* What a lock holder knows stays true while others run.                   *)
LEMMA HolderStep ==
    ASSUME IInv, [Next]_vars
    PROVE  HolderInv'
<1> USE DEF TypeOK, PCs, IdlePCs, LockedPCs, MountPCs, StopPCs, Phases, procVars, handlerVars,
            Goto, Answer, AnswerAndUnlock, RequestInv, LockInv, IInv, HolderInv, EntryInv, Creating, Vol, Alive, Exited
<1>1. ASSUME NEW c \in Handlers, MountCall(c) PROVE HolderInv'
  BY <1>1, VolumeOfAssumption DEF MountCall, Call
<1>2. ASSUME NEW c \in Handlers, UnmountCall(c) PROVE HolderInv'
  BY <1>2, VolumeOfAssumption DEF UnmountCall, Call
<1>3. ASSUME NEW c \in Handlers, ListCall(c) PROVE HolderInv'
  BY <1>3, VolumeOfAssumption DEF ListCall, Call
<1>4. ASSUME NEW c \in Handlers, Lock(c) PROVE HolderInv'
  BY <1>4 DEF Lock
<1>5. ASSUME NEW c \in Handlers, MountLookup(c) PROVE HolderInv'
  BY <1>5 DEF MountLookup
<1>6. ASSUME NEW c \in Handlers, MountAlready(c) PROVE HolderInv'
  BY <1>6 DEF MountAlready
<1>7. ASSUME NEW c \in Handlers, MountStale(c) PROVE HolderInv'
  BY <1>7 DEF MountStale
<1>8. ASSUME NEW c \in Handlers, MountDrain(c) PROVE HolderInv'
  BY <1>8 DEF MountDrain
<1>9. ASSUME NEW c \in Handlers, EnsureTargetClean(c) PROVE HolderInv'
  BY <1>9 DEF EnsureTargetClean
<1>10. ASSUME NEW c \in Handlers, StartMountFails(c) PROVE HolderInv'
  BY <1>10 DEF StartMountFails
<1>11. ASSUME NEW c \in Handlers, StartProcess(c) PROVE HolderInv'
  <2>1. PICK q \in Procs : /\ Free(q)
                          /\ phase' = [phase EXCEPT ![q] = "starting"]
                          /\ ptgt' = [ptgt EXCEPT ![q] = tgt[c]]
                          /\ killed' = [killed EXCEPT ![q] = FALSE]
                          /\ entry' = [entry EXCEPT ![c] = q]
    BY <1>11 DEF StartProcess
  <2>2. \A d \in Handlers \ {c} : entry[d] # q /\ entry'[d] = entry[d] /\ pc'[d] = pc[d]
    BY <2>1, <1>11 DEF Free, StartProcess
  <2>3. /\ entry'[c] = q /\ ptgt'[q] = tgt[c] /\ phase'[q] = "starting" /\ ~watched[q]
        /\ pc[c] = "spawn" /\ pc'[c] = "await"
    BY <2>1, <1>11 DEF Free, StartProcess
  <2>4. \A r \in Procs \ {q} : ptgt'[r] = ptgt[r] /\ phase'[r] = phase[r] /\ killed'[r] = killed[r]
    BY <2>1
  <2>5. UNCHANGED <<op, vol, tgt, mounts, watched>>
    BY <1>11 DEF StartProcess
  <2> QED
    BY <2>2, <2>3, <2>4, <2>5
<1>12. ASSUME NEW c \in Handlers, WaitForMountOK(c) PROVE HolderInv'
  BY <1>12 DEF WaitForMountOK
<1>13. ASSUME NEW c \in Handlers, WaitForMountFails(c) PROVE HolderInv'
  BY <1>13 DEF WaitForMountFails
<1>14. ASSUME NEW c \in Handlers, MountRecord(c) PROVE HolderInv'
  BY <1>14 DEF MountRecord
<1>15. ASSUME NEW c \in Handlers, UnmountLookup(c) PROVE HolderInv'
  <2>1. CASE mounts[vol[c]] = None
    BY <1>15, <2>1 DEF UnmountLookup
  <2>2. CASE ~(mounts[vol[c]] = None)
    BY <1>15, <2>2 DEF UnmountLookup
  <2> QED
    BY <2>1, <2>2
<1>16. ASSUME NEW c \in Handlers, StopTerm(c) PROVE HolderInv'
  BY <1>16 DEF StopTerm
<1>17. ASSUME NEW c \in Handlers, StopKill(c) PROVE HolderInv'
  <2>1. entry[c] \in Procs /\ Alive(entry[c]) \in BOOLEAN /\ pc[c] = "termWait"
    BY <1>17 DEF StopKill
  <2>2. killed'[entry[c]] = Alive(entry[c])
    BY <1>17, <2>1 DEF StopKill
  <2>3. \A r \in Procs : r # entry[c] => killed'[r] = killed[r]
    BY <1>17 DEF StopKill
  <2>4. \A d \in Handlers : pc'[d] = "killWait" => killed'[entry[d]] \/ ~Alive(entry[d])
    <3> SUFFICES ASSUME NEW d \in Handlers, pc'[d] = "killWait"
                 PROVE  killed'[entry[d]] \/ ~Alive(entry[d])
      OBVIOUS
    <3>1. CASE entry[d] = entry[c]
      BY <3>1, <2>2
    <3>2. CASE entry[d] # entry[c]
      <4>1. pc[d] = "killWait" /\ entry[d] \in Procs
        BY <1>17, <3>2 DEF StopKill
      <4> QED
        BY <4>1, <3>2, <2>3
    <3> QED
      BY <3>1, <3>2
  <2>5. UNCHANGED <<op, vol, tgt, entry, mounts, watched, phase, ptgt>>
    BY <1>17 DEF StopKill
  <2>6. \A d \in Handlers : pc'[d] = IF d = c THEN "killWait" ELSE pc[d]
    BY <1>17 DEF StopKill
  <2> QED
    BY <2>1, <2>4, <2>5, <2>6
<1>18. ASSUME NEW c \in Handlers, StopDone(c) PROVE HolderInv'
  <2>1. CASE op[c] = "mount"
    BY <1>18, <2>1 DEF StopDone
  <2>2. CASE ~(op[c] = "mount")
    BY <1>18, <2>2 DEF StopDone
  <2> QED
    BY <2>1, <2>2
<1>19. ASSUME NEW c \in Handlers, StopTimeout(c) PROVE HolderInv'
  BY <1>19 DEF StopTimeout
<1>20. ASSUME NEW c \in Handlers, UnmountRemove(c) PROVE HolderInv'
  BY <1>20 DEF UnmountRemove
<1>21. ASSUME NEW c \in Handlers, ListSnapshot(c) PROVE HolderInv'
  BY <1>21 DEF ListSnapshot
<1>22. ASSUME NEW c \in Handlers, ListFilter(c) PROVE HolderInv'
  BY <1>22 DEF ListFilter
<1>23. ASSUME NEW c \in Handlers, ListReturn(c) PROVE HolderInv'
  BY <1>23 DEF ListReturn
<1>24. ASSUME NEW p \in Procs, ProcMounts(p) PROVE HolderInv'
  BY <1>24 DEF ProcMounts
<1>25. ASSUME NEW p \in Procs, ProcDies(p) PROVE HolderInv'
  BY <1>25 DEF ProcDies
<1>26. ASSUME NEW p \in Procs, WaitExited(p) PROVE HolderInv'
  BY <1>26 DEF WaitExited
<1>27. ASSUME NEW p \in Procs, WaitUnmount(p) PROVE HolderInv'
  BY <1>27 DEF WaitUnmount
<1>28. ASSUME NEW p \in Procs, WaitDone(p) PROVE HolderInv'
  BY <1>28 DEF WaitDone
<1>29. ASSUME NEW p \in Procs, WatchProcessExit(p) PROVE HolderInv'
  BY <1>29 DEF WatchProcessExit
<1>30. ASSUME NEW t \in Targets, DriverUnmount(t) PROVE HolderInv'
  BY <1>30 DEF DriverUnmount
<1>31. CASE Restart
  BY <1>31 DEF Restart
<1>32. CASE UNCHANGED vars
  BY <1>32 DEF vars
<1> QED
  BY <1>1, <1>2, <1>3, <1>4, <1>5, <1>6, <1>7, <1>8, <1>9, <1>10,
     <1>11, <1>12, <1>13, <1>14, <1>15, <1>16, <1>17, <1>18, <1>19, <1>20,
     <1>21, <1>22, <1>23, <1>24, <1>25, <1>26, <1>27, <1>28, <1>29, <1>30,
     <1>31, <1>32
  DEF Next, HandlerStep, WaitStep

(* An entry stays in the map until its process is done, and is watched.    *)
LEMMA EntryStep ==
    ASSUME IInv, [Next]_vars
    PROVE  EntryInv'
<1> USE DEF TypeOK, PCs, IdlePCs, LockedPCs, MountPCs, StopPCs, Phases, procVars, handlerVars,
            Goto, Answer, AnswerAndUnlock,
            RequestInv, LockInv, IInv, HolderInv, EntryInv, Creating, Vol, Alive, Exited
<1>1. ASSUME NEW c \in Handlers, MountCall(c) PROVE EntryInv'
  BY <1>1, VolumeOfAssumption DEF MountCall, Call
<1>2. ASSUME NEW c \in Handlers, UnmountCall(c) PROVE EntryInv'
  BY <1>2, VolumeOfAssumption DEF UnmountCall, Call
<1>3. ASSUME NEW c \in Handlers, ListCall(c) PROVE EntryInv'
  BY <1>3, VolumeOfAssumption DEF ListCall, Call
<1>4. ASSUME NEW c \in Handlers, Lock(c) PROVE EntryInv'
  BY <1>4 DEF Lock
<1>5. ASSUME NEW c \in Handlers, MountLookup(c) PROVE EntryInv'
  BY <1>5 DEF MountLookup
<1>6. ASSUME NEW c \in Handlers, MountAlready(c) PROVE EntryInv'
  BY <1>6 DEF MountAlready
<1>7. ASSUME NEW c \in Handlers, MountStale(c) PROVE EntryInv'
  BY <1>7 DEF MountStale
<1>8. ASSUME NEW c \in Handlers, MountDrain(c) PROVE EntryInv'
  BY <1>8 DEF MountDrain
<1>9. ASSUME NEW c \in Handlers, EnsureTargetClean(c) PROVE EntryInv'
  BY <1>9 DEF EnsureTargetClean
<1>10. ASSUME NEW c \in Handlers, StartMountFails(c) PROVE EntryInv'
  BY <1>10 DEF StartMountFails
<1>11. ASSUME NEW c \in Handlers, StartProcess(c) PROVE EntryInv'
  <2>1. PICK q \in Procs : /\ Free(q)
                          /\ phase' = [phase EXCEPT ![q] = "starting"]
                          /\ ptgt' = [ptgt EXCEPT ![q] = tgt[c]]
                          /\ killed' = [killed EXCEPT ![q] = FALSE]
                          /\ entry' = [entry EXCEPT ![c] = q]
    BY <1>11 DEF StartProcess
  <2>2. UNCHANGED <<mounts, watched, todo>>
    BY <1>11 DEF StartProcess
  <2>3. /\ \A v \in Volumes : mounts[v] # q
        /\ \A d \in Handlers : q \notin todo[d]
        /\ ~watched[q]
    BY <2>1 DEF Free
  <2>4. tgt[c] \in Targets
    BY <1>11 DEF StartProcess
  <2>5. \A r \in Procs : /\ ptgt'[r] = IF r = q THEN tgt[c] ELSE ptgt[r]
                         /\ phase'[r] = IF r = q THEN "starting" ELSE phase[r]
    BY <2>1
  <2> QED
    BY <2>2, <2>3, <2>4, <2>5
<1>12. ASSUME NEW c \in Handlers, WaitForMountOK(c) PROVE EntryInv'
  BY <1>12 DEF WaitForMountOK
<1>13. ASSUME NEW c \in Handlers, WaitForMountFails(c) PROVE EntryInv'
  BY <1>13 DEF WaitForMountFails
<1>14. ASSUME NEW c \in Handlers, MountRecord(c) PROVE EntryInv'
  <2>1. /\ entry[c] \in Procs /\ vol[c] \in Volumes /\ mounts[vol[c]] = None
        /\ phase[entry[c]] # "gone" /\ ptgt[entry[c]] \in Targets /\ Vol(entry[c]) = vol[c]
    BY <1>14 DEF MountRecord
  <2>2. UNCHANGED <<phase, ptgt>> /\ \A d \in Handlers : todo'[d] \subseteq todo[d]
    BY <1>14 DEF MountRecord
  <2>3. /\ \A v \in Volumes : mounts'[v] = IF v = vol[c] THEN entry[c] ELSE mounts[v]
        /\ watched'[entry[c]] /\ \A p \in Procs : p # entry[c] => (watched'[p] <=> watched[p])
    BY <1>14, <2>1 DEF MountRecord
  <2>4. \A p \in Procs : phase[p] # "gone" => Vol(p) \in Volumes
    BY VolumeOfAssumption
  <2>5. \A p \in Procs : phase[p] # "gone" /\ mounts[Vol(p)] = p => mounts'[Vol(p)] = p
    BY <2>1, <2>3, <2>4, NoneAssumption
  <2>6. \A p \in Procs : watched'[p] /\ phase[p] # "done" => mounts'[Vol(p)] = p
    BY <2>1, <2>3, <2>5
  <2>7. \A v \in Volumes : mounts'[v] # None =>
            /\ phase[mounts'[v]] # "gone" /\ watched'[mounts'[v]]
            /\ ptgt[mounts'[v]] \in Targets /\ Vol(mounts'[v]) = v
    BY <2>1, <2>3
  <2>8. \A d \in Handlers : \A p \in todo'[d] :
            phase[p] # "gone" /\ (phase[p] # "done" => mounts'[Vol(p)] = p)
    BY <2>2, <2>5
  <2>9. \A p \in Procs : /\ phase[p] # "gone" => ptgt[p] \in Targets
                         /\ watched'[p] => phase[p] # "gone"
    BY <2>1, <2>3
  <2> QED
    BY <2>2, <2>6, <2>7, <2>8, <2>9
<1>15. ASSUME NEW c \in Handlers, UnmountLookup(c) PROVE EntryInv'
  <2>1. CASE mounts[vol[c]] = None
    BY <1>15, <2>1 DEF UnmountLookup
  <2>2. CASE ~(mounts[vol[c]] = None)
    BY <1>15, <2>2 DEF UnmountLookup
  <2> QED
    BY <2>1, <2>2
<1>16. ASSUME NEW c \in Handlers, StopTerm(c) PROVE EntryInv'
  BY <1>16 DEF StopTerm
<1>17. ASSUME NEW c \in Handlers, StopKill(c) PROVE EntryInv'
  BY <1>17 DEF StopKill
<1>18. ASSUME NEW c \in Handlers, StopDone(c) PROVE EntryInv'
  <2>1. CASE op[c] = "mount"
    BY <1>18, <2>1 DEF StopDone
  <2>2. CASE ~(op[c] = "mount")
    BY <1>18, <2>2 DEF StopDone
  <2> QED
    BY <2>1, <2>2
<1>19. ASSUME NEW c \in Handlers, StopTimeout(c) PROVE EntryInv'
  BY <1>19 DEF StopTimeout
<1>20. ASSUME NEW c \in Handlers, UnmountRemove(c) PROVE EntryInv'
  BY <1>20 DEF UnmountRemove
<1>21. ASSUME NEW c \in Handlers, ListSnapshot(c) PROVE EntryInv'
  BY <1>21 DEF ListSnapshot
<1>22. ASSUME NEW c \in Handlers, ListFilter(c) PROVE EntryInv'
  BY <1>22 DEF ListFilter
<1>23. ASSUME NEW c \in Handlers, ListReturn(c) PROVE EntryInv'
  BY <1>23 DEF ListReturn
<1>24. ASSUME NEW p \in Procs, ProcMounts(p) PROVE EntryInv'
  BY <1>24 DEF ProcMounts
<1>25. ASSUME NEW p \in Procs, ProcDies(p) PROVE EntryInv'
  BY <1>25 DEF ProcDies
<1>26. ASSUME NEW p \in Procs, WaitExited(p) PROVE EntryInv'
  BY <1>26 DEF WaitExited
<1>27. ASSUME NEW p \in Procs, WaitUnmount(p) PROVE EntryInv'
  BY <1>27 DEF WaitUnmount
<1>28. ASSUME NEW p \in Procs, WaitDone(p) PROVE EntryInv'
  BY <1>28 DEF WaitDone
<1>29. ASSUME NEW p \in Procs, WatchProcessExit(p) PROVE EntryInv'
  <2>1. /\ watched[p] /\ phase[p] = "done" /\ UNCHANGED <<phase, ptgt, killed, host, handlerVars>>
        /\ ~watched'[p] /\ \A q \in Procs : q # p => (watched'[q] <=> watched[q])
    BY <1>29 DEF WatchProcessExit
  <2>2. \A q \in Procs : phase[q] # "gone" => Vol(q) \in Volumes
    BY VolumeOfAssumption
  <2>3. \A v \in Volumes : mounts'[v] = IF mounts[v] = p THEN None ELSE mounts[v]
    BY <1>29, NoneAssumption DEF WatchProcessExit
  <2>4. \A q \in Procs : phase[q] \notin {"gone", "done"} /\ mounts[Vol(q)] = q => mounts'[Vol(q)] = q
    BY <2>1, <2>2, <2>3
  <2>5. \A v \in Volumes : mounts'[v] # None => mounts'[v] = mounts[v] /\ mounts[v] # p
    BY <2>3
  <2>6. \A v \in Volumes : mounts'[v] # None =>
            /\ phase[mounts'[v]] # "gone" /\ watched'[mounts'[v]]
            /\ ptgt[mounts'[v]] \in Targets /\ Vol(mounts'[v]) = v
    BY <2>1, <2>5
  <2>7. \A q \in Procs : watched'[q] /\ phase[q] # "done" => mounts'[Vol(q)] = q
    BY <2>1, <2>4
  <2>8. \A d \in Handlers : \A q \in todo[d] :
            phase[q] # "gone" /\ (phase[q] # "done" => mounts'[Vol(q)] = q)
    BY <2>1, <2>4
  <2>9. \A q \in Procs : /\ phase[q] # "gone" => ptgt[q] \in Targets
                         /\ watched'[q] => phase[q] # "gone"
    BY <2>1
  <2> QED
    BY <2>1, <2>6, <2>7, <2>8, <2>9
<1>30. ASSUME NEW t \in Targets, DriverUnmount(t) PROVE EntryInv'
  BY <1>30 DEF DriverUnmount
<1>31. CASE Restart
  BY <1>31 DEF Restart
<1>32. CASE UNCHANGED vars
  BY <1>32 DEF vars
<1> QED
  BY <1>1, <1>2, <1>3, <1>4, <1>5, <1>6, <1>7, <1>8, <1>9, <1>10,
     <1>11, <1>12, <1>13, <1>14, <1>15, <1>16, <1>17, <1>18, <1>19, <1>20,
     <1>21, <1>22, <1>23, <1>24, <1>25, <1>26, <1>27, <1>28, <1>29, <1>30,
     <1>31, <1>32
  DEF Next, HandlerStep, WaitStep

(* A process that can still serve stays in the map or with its creator.    *)
LEMMA ServingStep ==
    ASSUME IInv, [Next]_vars
    PROVE  ServingInv'
<1> USE DEF TypeOK, PCs, IdlePCs, LockedPCs, MountPCs, StopPCs, Phases, procVars, handlerVars,
            Goto, Answer, AnswerAndUnlock,
            RequestInv, LockInv, IInv, HolderInv, EntryInv, Creating, Vol, Alive, Exited, Owned, ServingInv
<1>1. ASSUME NEW c \in Handlers, MountCall(c) PROVE ServingInv'
  BY <1>1, VolumeOfAssumption DEF MountCall, Call
<1>2. ASSUME NEW c \in Handlers, UnmountCall(c) PROVE ServingInv'
  BY <1>2, VolumeOfAssumption DEF UnmountCall, Call
<1>3. ASSUME NEW c \in Handlers, ListCall(c) PROVE ServingInv'
  BY <1>3, VolumeOfAssumption DEF ListCall, Call
<1>4. ASSUME NEW c \in Handlers, Lock(c) PROVE ServingInv'
  BY <1>4 DEF Lock
<1>5. ASSUME NEW c \in Handlers, MountLookup(c) PROVE ServingInv'
  BY <1>5 DEF MountLookup
<1>6. ASSUME NEW c \in Handlers, MountAlready(c) PROVE ServingInv'
  BY <1>6 DEF MountAlready
<1>7. ASSUME NEW c \in Handlers, MountStale(c) PROVE ServingInv'
  BY <1>7 DEF MountStale
<1>8. ASSUME NEW c \in Handlers, MountDrain(c) PROVE ServingInv'
  BY <1>8 DEF MountDrain
<1>9. ASSUME NEW c \in Handlers, EnsureTargetClean(c) PROVE ServingInv'
  BY <1>9 DEF EnsureTargetClean
<1>10. ASSUME NEW c \in Handlers, StartMountFails(c) PROVE ServingInv'
  BY <1>10 DEF StartMountFails
<1>11. ASSUME NEW c \in Handlers, StartProcess(c) PROVE ServingInv'
  BY <1>11 DEF StartProcess
<1>12. ASSUME NEW c \in Handlers, WaitForMountOK(c) PROVE ServingInv'
  BY <1>12 DEF WaitForMountOK
<1>13. ASSUME NEW c \in Handlers, WaitForMountFails(c) PROVE ServingInv'
  BY <1>13 DEF WaitForMountFails
<1>14. ASSUME NEW c \in Handlers, MountRecord(c) PROVE ServingInv'
  BY <1>14, NoneAssumption DEF MountRecord
<1>15. ASSUME NEW c \in Handlers, UnmountLookup(c) PROVE ServingInv'
  <2>1. CASE mounts[vol[c]] = None
    BY <1>15, <2>1 DEF UnmountLookup
  <2>2. CASE ~(mounts[vol[c]] = None)
    BY <1>15, <2>2 DEF UnmountLookup
  <2> QED
    BY <2>1, <2>2
<1>16. ASSUME NEW c \in Handlers, StopTerm(c) PROVE ServingInv'
  BY <1>16 DEF StopTerm
<1>17. ASSUME NEW c \in Handlers, StopKill(c) PROVE ServingInv'
  BY <1>17 DEF StopKill
<1>18. ASSUME NEW c \in Handlers, StopDone(c) PROVE ServingInv'
  <2>1. CASE op[c] = "mount"
    BY <1>18, <2>1 DEF StopDone
  <2>2. CASE ~(op[c] = "mount")
    BY <1>18, <2>2 DEF StopDone
  <2> QED
    BY <2>1, <2>2
<1>19. ASSUME NEW c \in Handlers, StopTimeout(c) PROVE ServingInv'
  BY <1>19 DEF StopTimeout
<1>20. ASSUME NEW c \in Handlers, UnmountRemove(c) PROVE ServingInv'
  BY <1>20 DEF UnmountRemove
<1>21. ASSUME NEW c \in Handlers, ListSnapshot(c) PROVE ServingInv'
  BY <1>21 DEF ListSnapshot
<1>22. ASSUME NEW c \in Handlers, ListFilter(c) PROVE ServingInv'
  BY <1>22 DEF ListFilter
<1>23. ASSUME NEW c \in Handlers, ListReturn(c) PROVE ServingInv'
  BY <1>23 DEF ListReturn
<1>24. ASSUME NEW p \in Procs, ProcMounts(p) PROVE ServingInv'
  BY <1>24 DEF ProcMounts
<1>25. ASSUME NEW p \in Procs, ProcDies(p) PROVE ServingInv'
  BY <1>25 DEF ProcDies
<1>26. ASSUME NEW p \in Procs, WaitExited(p) PROVE ServingInv'
  BY <1>26 DEF WaitExited
<1>27. ASSUME NEW p \in Procs, WaitUnmount(p) PROVE ServingInv'
  BY <1>27 DEF WaitUnmount
<1>28. ASSUME NEW p \in Procs, WaitDone(p) PROVE ServingInv'
  BY <1>28 DEF WaitDone
<1>29. ASSUME NEW p \in Procs, WatchProcessExit(p) PROVE ServingInv'
  <2>1. /\ watched[p] /\ phase[p] = "done" /\ UNCHANGED <<phase, ptgt, killed, host, handlerVars>>
        /\ ~watched'[p] /\ \A q \in Procs : q # p => (watched'[q] <=> watched[q])
    BY <1>29 DEF WatchProcessExit
  <2>2. \A q \in Procs : phase[q] # "gone" => Vol(q) \in Volumes
    BY VolumeOfAssumption
  <2>3. \A v \in Volumes : mounts'[v] = IF mounts[v] = p THEN None ELSE mounts[v]
    BY <1>29, NoneAssumption DEF WatchProcessExit
  <2>4. \A q \in Procs : Alive(q) /\ mounts[Vol(q)] = q => mounts'[Vol(q)] = q
    BY <2>1, <2>2, <2>3
  <2> QED
    BY <2>1, <2>4
<1>30. ASSUME NEW t \in Targets, DriverUnmount(t) PROVE ServingInv'
  BY <1>30 DEF DriverUnmount
<1>31. CASE Restart
  BY <1>31 DEF Restart
<1>32. CASE UNCHANGED vars
  BY <1>32 DEF vars
<1> QED
  BY <1>1, <1>2, <1>3, <1>4, <1>5, <1>6, <1>7, <1>8, <1>9, <1>10,
     <1>11, <1>12, <1>13, <1>14, <1>15, <1>16, <1>17, <1>18, <1>19, <1>20,
     <1>21, <1>22, <1>23, <1>24, <1>25, <1>26, <1>27, <1>28, <1>29, <1>30,
     <1>31, <1>32
  DEF Next, HandlerStep, WaitStep

(* Only the owner of a target mounts there.                                *)
LEMMA HostStep ==
    ASSUME IInv, [Next]_vars
    PROVE  HostInv'
<1> USE DEF TypeOK, PCs, IdlePCs, LockedPCs, MountPCs, StopPCs, Phases, procVars, handlerVars,
            Goto, Answer, AnswerAndUnlock,
            RequestInv, LockInv, IInv, HolderInv, EntryInv, Creating, Vol, Alive, Exited, Owned, ServingInv, HostInv
<1>1. ASSUME NEW c \in Handlers, MountCall(c) PROVE HostInv'
  BY <1>1, VolumeOfAssumption DEF MountCall, Call
<1>2. ASSUME NEW c \in Handlers, UnmountCall(c) PROVE HostInv'
  BY <1>2, VolumeOfAssumption DEF UnmountCall, Call
<1>3. ASSUME NEW c \in Handlers, ListCall(c) PROVE HostInv'
  BY <1>3, VolumeOfAssumption DEF ListCall, Call
<1>4. ASSUME NEW c \in Handlers, Lock(c) PROVE HostInv'
  BY <1>4 DEF Lock
<1>5. ASSUME NEW c \in Handlers, MountLookup(c) PROVE HostInv'
  BY <1>5 DEF MountLookup
<1>6. ASSUME NEW c \in Handlers, MountAlready(c) PROVE HostInv'
  BY <1>6 DEF MountAlready
<1>7. ASSUME NEW c \in Handlers, MountStale(c) PROVE HostInv'
  BY <1>7 DEF MountStale
<1>8. ASSUME NEW c \in Handlers, MountDrain(c) PROVE HostInv'
  BY <1>8, NoneAssumption DEF MountDrain
<1>9. ASSUME NEW c \in Handlers, EnsureTargetClean(c) PROVE HostInv'
  BY <1>9 DEF EnsureTargetClean
<1>10. ASSUME NEW c \in Handlers, StartMountFails(c) PROVE HostInv'
  BY <1>10 DEF StartMountFails
<1>11. ASSUME NEW c \in Handlers, StartProcess(c) PROVE HostInv'
  BY <1>11 DEF StartProcess
<1>12. ASSUME NEW c \in Handlers, WaitForMountOK(c) PROVE HostInv'
  BY <1>12 DEF WaitForMountOK
<1>13. ASSUME NEW c \in Handlers, WaitForMountFails(c) PROVE HostInv'
  BY <1>13 DEF WaitForMountFails
<1>14. ASSUME NEW c \in Handlers, MountRecord(c) PROVE HostInv'
  BY <1>14 DEF MountRecord
<1>15. ASSUME NEW c \in Handlers, UnmountLookup(c) PROVE HostInv'
  <2>1. CASE mounts[vol[c]] = None
    <3>1. \A q \in Procs : Owned(q)' => Owned(q)
      BY <1>15, <2>1 DEF UnmountLookup
    <3>2. /\ \A d \in Handlers : pc'[d] = "spawn" => pc[d] = "spawn" /\ tgt'[d] = tgt[d]
          /\ UNCHANGED <<host, phase, ptgt, killed>>
      BY <1>15, <2>1 DEF UnmountLookup
    <3> QED
      BY <3>1, <3>2
  <2>2. CASE ~(mounts[vol[c]] = None)
    BY <1>15, <2>2 DEF UnmountLookup
  <2> QED
    BY <2>1, <2>2
<1>16. ASSUME NEW c \in Handlers, StopTerm(c) PROVE HostInv'
  BY <1>16 DEF StopTerm
<1>17. ASSUME NEW c \in Handlers, StopKill(c) PROVE HostInv'
  BY <1>17 DEF StopKill
<1>18. ASSUME NEW c \in Handlers, StopDone(c) PROVE HostInv'
  <2>1. CASE op[c] = "mount"
    BY <1>18, <2>1 DEF StopDone
  <2>2. CASE ~(op[c] = "mount")
    BY <1>18, <2>2 DEF StopDone
  <2> QED
    BY <2>1, <2>2
<1>19. ASSUME NEW c \in Handlers, StopTimeout(c) PROVE HostInv'
  BY <1>19 DEF StopTimeout
<1>20. ASSUME NEW c \in Handlers, UnmountRemove(c) PROVE HostInv'
  BY <1>20, NoneAssumption DEF UnmountRemove
<1>21. ASSUME NEW c \in Handlers, ListSnapshot(c) PROVE HostInv'
  BY <1>21 DEF ListSnapshot
<1>22. ASSUME NEW c \in Handlers, ListFilter(c) PROVE HostInv'
  BY <1>22 DEF ListFilter
<1>23. ASSUME NEW c \in Handlers, ListReturn(c) PROVE HostInv'
  BY <1>23 DEF ListReturn
<1>24. ASSUME NEW p \in Procs, ProcMounts(p) PROVE HostInv'
  <2>1. /\ phase[p] = "starting" /\ ~killed[p] /\ ptgt[p] \in Targets
        /\ UNCHANGED <<mounts, locks, handlerVars, ptgt, killed>>
        /\ \A q \in Procs : phase'[q] = IF q = p THEN "serving" ELSE phase[q]
        /\ \A t \in Targets : host'[t] = IF t = ptgt[p] THEN p ELSE host[t]
    BY <1>24 DEF ProcMounts
  <2>2. Owned(p)
    BY <2>1
  <2>3. ASSUME NEW q \in Procs, phase[q] # "gone", Owned(q), ptgt[q] = ptgt[p] PROVE q = p
    BY <2>2, <2>3, OwnedUnique, <2>1
  <2>4. \A c \in Handlers : pc[c] = "spawn" => tgt[c] \in Targets /\ tgt[c] # ptgt[p]
    BY <2>1, <2>2, SpawnUnowned
  <2>5. \A q \in Procs : Owned(q)' <=> Owned(q)
    BY <2>1
  <2>6. \A q \in Procs : phase'[q] = "starting" /\ ~killed[q] => ptgt[q] # ptgt[p]
    BY <2>1, <2>3
  <2> QED
    BY <2>1, <2>3, <2>4, <2>5, <2>6
<1>25. ASSUME NEW p \in Procs, ProcDies(p) PROVE HostInv'
  BY <1>25 DEF ProcDies
<1>26. ASSUME NEW p \in Procs, WaitExited(p) PROVE HostInv'
  BY <1>26 DEF WaitExited
<1>27. ASSUME NEW p \in Procs, WaitUnmount(p) PROVE HostInv'
  BY <1>27 DEF WaitUnmount
<1>28. ASSUME NEW p \in Procs, WaitDone(p) PROVE HostInv'
  BY <1>28 DEF WaitDone
<1>29. ASSUME NEW p \in Procs, WatchProcessExit(p) PROVE HostInv'
  <2>1. /\ watched[p] /\ phase[p] = "done" /\ UNCHANGED <<phase, ptgt, killed, host, handlerVars>>
        /\ ~watched'[p] /\ \A q \in Procs : q # p => (watched'[q] <=> watched[q])
    BY <1>29 DEF WatchProcessExit
  <2>2. \A q \in Procs : phase[q] # "gone" => Vol(q) \in Volumes
    BY VolumeOfAssumption
  <2>3. \A v \in Volumes : mounts'[v] = IF mounts[v] = p THEN None ELSE mounts[v]
    BY <1>29, NoneAssumption DEF WatchProcessExit
  <2>4. \A q \in Procs : phase[q] # "gone" /\ mounts'[Vol(q)] = q => mounts[Vol(q)] = q
    BY <2>2, <2>3, NoneAssumption
  <2> QED
    BY <2>1, <2>4
<1>30. ASSUME NEW t \in Targets, DriverUnmount(t) PROVE HostInv'
  BY <1>30 DEF DriverUnmount
<1>31. CASE Restart
  BY <1>31 DEF Restart
<1>32. CASE UNCHANGED vars
  BY <1>32 DEF vars
<1> QED
  BY <1>1, <1>2, <1>3, <1>4, <1>5, <1>6, <1>7, <1>8, <1>9, <1>10,
     <1>11, <1>12, <1>13, <1>14, <1>15, <1>16, <1>17, <1>18, <1>19, <1>20,
     <1>21, <1>22, <1>23, <1>24, <1>25, <1>26, <1>27, <1>28, <1>29, <1>30,
     <1>31, <1>32
  DEF Next, HandlerStep, WaitStep

-----------------------------------------------------------------------------
(* The inductive invariant holds initially and every step preserves it.    *)
LEMMA Inductive == Spec => []IInv
<1>1. Init => IInv
  <2> SUFFICES ASSUME Init PROVE IInv
    OBVIOUS
  <2> USE DEF Init, PCs, IdlePCs, LockedPCs, MountPCs, StopPCs
  <2>1. TypeOK
    BY DEF TypeOK, Phases
  <2>2. LockInv /\ RequestInv
    BY DEF LockInv, RequestInv
  <2>3. HolderInv
    BY DEF HolderInv, Creating
  <2>4. EntryInv /\ ServingInv /\ HostInv
    BY DEF EntryInv, ServingInv, HostInv, Alive
  <2> QED
    BY <2>1, <2>2, <2>3, <2>4 DEF IInv
<1>2. IInv /\ [Next]_vars => IInv'
  BY TypeStep, RequestStep, LockStep, HolderStep, EntryStep, ServingStep, HostStep DEF IInv
<1> QED
  BY <1>1, <1>2, PTL DEF Spec

(* Type correctness: no step of a handler, a process, the driver or a      *)
(* restart takes a variable of the Manager out of its type.                *)
THEOREM TypeCorrect == Spec => []TypeOK
<1>1. IInv => TypeOK
  BY DEF IInv
<1> QED
  BY <1>1, Inductive, PTL

(* However Mount, Unmount, crashes of weed processes and of the service    *)
(* interleave, a volume has at most one process that can still serve it.   *)
THEOREM OneServer == Spec => []OneServerPerVolume
<1>1. IInv => OneServerPerVolume
  <2> SUFFICES ASSUME IInv, NEW p \in Procs, NEW q \in Procs,
                      Alive(p), ~killed[p], Alive(q), ~killed[q], Vol(p) = Vol(q)
               PROVE  p = q
    BY DEF OneServerPerVolume, Vol
  <2>1. Owned(p) /\ Owned(q)
    BY DEF IInv, ServingInv
  <2>2. phase[p] # "gone" /\ phase[q] # "gone"
    BY DEF Alive
  <2> QED
    BY <2>1, <2>2, OwnedUnique
<1> QED
  BY <1>1, Inductive, PTL

(* FUSE mounts never stack at a target: what ensureTargetClean established *)
(* holds until the new process has mounted.                                *)
THEOREM BareTarget == Spec => []MountsOnBareTarget
<1>1. IInv => MountsOnBareTarget
  BY DEF IInv, HostInv, MountsOnBareTarget
<1> QED
  BY <1>1, Inductive, PTL

(* The unmount by path in wait() of a recorded process detaches its own    *)
(* mount or nothing.                                                       *)
THEOREM CleanupOfRecorded == Spec => []RecordedCleanupIsOwn
<1>1. IInv => RecordedCleanupIsOwn
  BY DEF IInv, EntryInv, HostInv, Owned, RecordedCleanupIsOwn
<1> QED
  BY <1>1, Inductive, PTL

(* Mount, Unmount and the watcher remove an entry only when its process    *)
(* has closed `done`, although the first two delete by volume ID.          *)
THEOREM EntryKept == Spec => EntryOutlivesProcess
<1>1. IInv /\ [Next]_vars =>
        [\A v \in Volumes : mounts[v] # None /\ mounts'[v] # mounts[v]
            => phase[mounts[v]] = "done" \/ phase'[mounts[v]] = "gone"]_vars
  <2> SUFFICES ASSUME IInv, Next, NEW v \in Volumes,
                      mounts[v] # None, mounts'[v] # mounts[v], phase'[mounts[v]] # "gone"
               PROVE  phase[mounts[v]] = "done"
    BY DEF vars
  <2> USE DEF IInv, TypeOK, StopPCs
  <2>1. ASSUME NEW c \in Handlers, MountDrain(c) PROVE phase[mounts[v]] = "done"
    BY <2>1 DEF MountDrain, HolderInv, RequestInv, Creating
  <2>2. ASSUME NEW c \in Handlers, UnmountRemove(c) PROVE phase[mounts[v]] = "done"
    BY <2>2 DEF UnmountRemove, HolderInv, RequestInv, Creating
  <2>3. ASSUME NEW c \in Handlers, MountRecord(c) PROVE FALSE
    BY <2>3 DEF MountRecord, HolderInv, RequestInv, Creating, MountPCs
  <2>4. ASSUME NEW p \in Procs, WatchProcessExit(p) PROVE phase[mounts[v]] = "done"
    BY <2>4 DEF WatchProcessExit
  <2>5. CASE Restart
    BY <2>5 DEF Restart
  <2>6. ASSUME NEW c \in Handlers,
               MountCall(c) \/ UnmountCall(c) \/ ListCall(c) \/ Lock(c)
        PROVE  FALSE
    BY <2>6 DEF MountCall, UnmountCall, ListCall, Call, Lock
  <2>7. ASSUME NEW c \in Handlers,
               HandlerStep(c), ~MountDrain(c), ~UnmountRemove(c), ~MountRecord(c)
        PROVE  FALSE
    BY <2>7 DEF HandlerStep, MountLookup, MountAlready, MountStale, EnsureTargetClean,
                StartMountFails, StartProcess, WaitForMountOK, WaitForMountFails, UnmountLookup,
                StopTerm, StopKill, StopDone, StopTimeout, ListSnapshot, ListFilter, ListReturn
  <2>8. ASSUME NEW p \in Procs, ProcMounts(p) \/ ProcDies(p) \/ WaitStep(p) PROVE FALSE
    BY <2>8 DEF ProcMounts, ProcDies, WaitStep, WaitExited, WaitUnmount, WaitDone
  <2>9. ASSUME NEW t \in Targets, DriverUnmount(t) PROVE FALSE
    BY <2>9 DEF DriverUnmount
  <2> QED
    BY <2>1, <2>2, <2>3, <2>4, <2>5, <2>6, <2>7, <2>8, <2>9 DEF Next
<1> QED
  BY <1>1, Inductive, PTL DEF Spec, EntryOutlivesProcess

(* A successful Unmount leaves no process that can serve the volume.       *)
THEOREM UnmountStops == Spec => UnmountedMeansStopped
<1>1. IInv /\ [Next]_vars =>
        [\A c \in Handlers : op[c] = "unmount" /\ pc'[c] = "ok"
            => \A p \in Procs : Alive(p) /\ VolumeOf[ptgt[p]] = vol[c] => killed[p]]_vars
  <2> SUFFICES ASSUME IInv, Next, NEW c \in Handlers, op[c] = "unmount", pc'[c] = "ok",
                      NEW p \in Procs, Alive(p), Vol(p) = vol[c], ~killed[p]
               PROVE  FALSE
    BY DEF Vol, vars
  <2>1. pc[c] \notin IdlePCs
    BY DEF IInv, RequestInv
  <2>2. Owned(p)
    BY DEF IInv, ServingInv
  <2>3. pc[c] \in LockedPCs => locks[vol[c]] = c
    BY DEF IInv, LockInv
  <2>4. ASSUME NEW d \in Handlers, Creating(d, p) PROVE locks[vol[c]] = d /\ op[d] = "mount"
    BY <2>4 DEF IInv, HolderInv, LockInv, Creating, LockedPCs, MountPCs, StopPCs
  <2>5. pc[c] \in LockedPCs => mounts[vol[c]] = p
    BY <2>2, <2>3, <2>4 DEF Owned
  <2>6. CASE UnmountLookup(c)
    <3>1. mounts[vol[c]] # None
      BY <2>6, <2>5, NoneAssumption DEF UnmountLookup, LockedPCs, MountPCs
    <3>2. pc'[c] = "term"
      BY <2>6, <3>1 DEF UnmountLookup, Goto, IInv, TypeOK
    <3> QED
      BY <3>2
  <2>7. CASE UnmountRemove(c)
    <3>1. mounts[vol[c]] \in {entry[c], None} /\ phase[entry[c]] = "done"
      BY <2>7 DEF UnmountRemove, IInv, HolderInv, Creating
    <3> QED
      BY <3>1, <2>5, <2>7, NoneAssumption DEF UnmountRemove, LockedPCs, Alive
  <2>8. ASSUME NEW d \in Handlers, HandlerStep(d), ~(UnmountLookup(c) \/ UnmountRemove(c)) PROVE FALSE
    <3> USE DEF IInv, TypeOK, RequestInv, MountPCs, IdlePCs, Goto, Answer, AnswerAndUnlock
    <3>1. CASE d # c
      BY <2>8, <2>1, <3>1 DEF HandlerStep, MountLookup, MountAlready, MountStale, MountDrain,
         EnsureTargetClean, StartMountFails, StartProcess, WaitForMountOK, WaitForMountFails,
         MountRecord, UnmountLookup, StopTerm, StopKill, StopDone, StopTimeout, UnmountRemove,
         ListSnapshot, ListFilter, ListReturn
    <3>2. CASE d = c
      BY <2>8, <2>1, <3>2 DEF HandlerStep, MountLookup, MountAlready, MountStale, MountDrain,
         EnsureTargetClean, StartMountFails, StartProcess, WaitForMountOK, WaitForMountFails,
         MountRecord, StopTerm, StopKill, StopDone, StopTimeout, ListSnapshot, ListFilter, ListReturn
    <3> QED
      BY <3>1, <3>2
  <2>9. ASSUME NEW d \in Handlers, MountCall(d) \/ UnmountCall(d) \/ ListCall(d) \/ Lock(d) PROVE FALSE
    BY <2>9, <2>1 DEF MountCall, UnmountCall, ListCall, Call, Lock, Goto, IdlePCs, IInv, TypeOK
  <2>10. (\E q \in Procs : ProcMounts(q) \/ ProcDies(q) \/ WaitStep(q) \/ WatchProcessExit(q))
             \/ (\E t \in Targets : DriverUnmount(t)) => UNCHANGED pc
    BY DEF ProcMounts, ProcDies, WaitStep, WaitExited, WaitUnmount, WaitDone, WatchProcessExit,
           DriverUnmount, handlerVars
  <2>11. Restart => pc'[c] = "error"
    BY DEF Restart
  <2> QED
    BY <2>1, <2>6, <2>7, <2>8, <2>9, <2>10, <2>11 DEF Next, IdlePCs
<1> QED
  BY <1>1, Inductive, PTL DEF Spec, UnmountedMeansStopped

(* List reports an entry only while it is the volume's current one.        *)
THEOREM ListIsCurrent == Spec => ListedIsTracked
<1>1. IInv /\ [Next]_vars =>
        [\A c \in Handlers : \A p \in listed'[c] \ listed[c] :
            mounts[VolumeOf[ptgt[p]]] = p]_vars
  <2> SUFFICES ASSUME IInv, Next, NEW c \in Handlers, NEW p \in listed'[c], p \notin listed[c]
               PROVE  mounts[Vol(p)] = p
    BY DEF Vol, vars
  <2> USE DEF IInv, TypeOK
  <2>1. ASSUME NEW d \in Handlers, ListFilter(d) PROVE mounts[Vol(p)] = p
    BY <2>1 DEF ListFilter, EntryInv, Exited
  <2>2. ASSUME NEW d \in Handlers, HandlerStep(d), ~ListFilter(d) PROVE FALSE
    BY <2>2 DEF HandlerStep, Answer, AnswerAndUnlock, MountLookup, MountAlready, MountStale, MountDrain,
       EnsureTargetClean, StartMountFails, StartProcess, WaitForMountOK, WaitForMountFails,
       MountRecord, UnmountLookup, StopTerm, StopKill, StopDone, StopTimeout, UnmountRemove,
       ListSnapshot, ListReturn
  <2>3. ASSUME NEW d \in Handlers, MountCall(d) \/ UnmountCall(d) \/ ListCall(d) \/ Lock(d) PROVE FALSE
    BY <2>3 DEF MountCall, UnmountCall, ListCall, Call, Lock
  <2>4. (\E q \in Procs : ProcMounts(q) \/ ProcDies(q) \/ WaitStep(q) \/ WatchProcessExit(q))
             \/ (\E t \in Targets : DriverUnmount(t)) => UNCHANGED listed
    BY DEF ProcMounts, ProcDies, WaitStep, WaitExited, WaitUnmount, WaitDone, WatchProcessExit,
           DriverUnmount, handlerVars
  <2>5. Restart => listed'[c] = {}
    BY DEF Restart
  <2> QED
    BY <2>1, <2>2, <2>3, <2>4, <2>5 DEF Next
<1> QED
  BY <1>1, Inductive, PTL DEF Spec, ListedIsTracked
=============================================================================
