---------------------- MODULE MountManager_refinement ----------------------
(***************************************************************************)
(* The mount service implements its abstract specification MountService,   *)
(* for any set of volumes, targets, handlers and processes.  Every step of *)
(* the Manager is a step of the service or is invisible to its callers;    *)
(* the inductive invariant of MountManager_proofs supplies what a step     *)
(* needs to know, with one addition: a Mount that is looking at an entry   *)
(* whose process is not done finds it still in the map.                    *)
(***************************************************************************)
EXTENDS MountManager_proofs

CheckInv ==
    \A c \in Handlers :
        pc[c] = "check" /\ phase[entry[c]] # "done" => mounts[vol[c]] = entry[c]

(* Only the holder of the lock and the watcher of a process that is done   *)
(* remove an entry, so it stays while Mount looks at its process.          *)
LEMMA CheckStep ==
    ASSUME IInv, CheckInv, [Next]_vars
    PROVE  CheckInv'
<1> USE DEF TypeOK, PCs, IdlePCs, LockedPCs, MountPCs, StopPCs, Goto, Answer, AnswerAndUnlock,
            procVars, handlerVars, IInv, LockInv, RequestInv, HolderInv, CheckInv
<1>1. ASSUME NEW c \in Handlers, MountCall(c) \/ UnmountCall(c) \/ ListCall(c) \/ Lock(c)
      PROVE  CheckInv'
  BY <1>1 DEF MountCall, UnmountCall, ListCall, Call, Lock
<1>2. ASSUME NEW c \in Handlers, MountLookup(c) PROVE CheckInv'
  BY <1>2 DEF MountLookup
<1>3. ASSUME NEW c \in Handlers, MountAlready(c) \/ MountStale(c) PROVE CheckInv'
  BY <1>3 DEF MountAlready, MountStale
<1>4. ASSUME NEW c \in Handlers, MountDrain(c) PROVE CheckInv'
  BY <1>4 DEF MountDrain
<1>5. ASSUME NEW c \in Handlers, EnsureTargetClean(c) \/ StartMountFails(c) PROVE CheckInv'
  BY <1>5 DEF EnsureTargetClean, StartMountFails
<1>6. ASSUME NEW c \in Handlers, StartProcess(c) PROVE CheckInv'
  BY <1>6 DEF StartProcess, Free
<1>7. ASSUME NEW c \in Handlers, WaitForMountOK(c) \/ WaitForMountFails(c) PROVE CheckInv'
  BY <1>7 DEF WaitForMountOK, WaitForMountFails
<1>8. ASSUME NEW c \in Handlers, MountRecord(c) PROVE CheckInv'
  BY <1>8 DEF MountRecord
<1>9. ASSUME NEW c \in Handlers, UnmountLookup(c) PROVE CheckInv'
  BY <1>9 DEF UnmountLookup
<1>10. ASSUME NEW c \in Handlers, StopTerm(c) \/ StopKill(c) PROVE CheckInv'
  BY <1>10 DEF StopTerm, StopKill
<1>11. ASSUME NEW c \in Handlers, StopDone(c) PROVE CheckInv'
  BY <1>11 DEF StopDone
<1>12. ASSUME NEW c \in Handlers, StopTimeout(c) PROVE CheckInv'
  BY <1>12 DEF StopTimeout
<1>13. ASSUME NEW c \in Handlers, UnmountRemove(c) PROVE CheckInv'
  BY <1>13 DEF UnmountRemove
<1>14. ASSUME NEW c \in Handlers, ListSnapshot(c) \/ ListFilter(c) \/ ListReturn(c) PROVE CheckInv'
  BY <1>14 DEF ListSnapshot, ListFilter, ListReturn
<1>15. ASSUME NEW p \in Procs, ProcMounts(p) \/ ProcDies(p) PROVE CheckInv'
  BY <1>15 DEF ProcMounts, ProcDies, Alive
<1>16. ASSUME NEW p \in Procs, WaitStep(p) PROVE CheckInv'
  BY <1>16 DEF WaitStep, WaitExited, WaitUnmount, WaitDone
<1>17. ASSUME NEW p \in Procs, WatchProcessExit(p) PROVE CheckInv'
  BY <1>17 DEF WatchProcessExit
<1>18. ASSUME NEW t \in Targets, DriverUnmount(t) PROVE CheckInv'
  BY <1>18 DEF DriverUnmount
<1>19. CASE Restart
  BY <1>19 DEF Restart
<1>20. CASE UNCHANGED vars
  BY <1>20 DEF vars
<1> QED
  BY <1>1, <1>2, <1>3, <1>4, <1>5, <1>6, <1>7, <1>8, <1>9, <1>10, <1>11, <1>12, <1>13,
     <1>14, <1>15, <1>16, <1>17, <1>18, <1>19, <1>20
  DEF Next, HandlerStep

-----------------------------------------------------------------------------
(* What the callers see of a step depends on few of its assignments.       *)
LEMMA ProcsSame ==
    ASSUME UNCHANGED <<phase, ptgt, killed>>
    PROVE  UNCHANGED <<CanServe, OwnerOf>>
BY DEF CanServe, OwnerOf, Alive

(* A handler that moves on without answering is not seen.                  *)
LEMMA MoveUnseen ==
    ASSUME TypeOK, NEW c \in Handlers, NEW l, Goto(c, l), UNCHANGED <<op, vol>>,
           pc[c] \notin IdlePCs, l \notin IdlePCs
    PROVE  UNCHANGED <<RequestOf, ResultOf>>
<1>1. RequestOf' = RequestOf
  BY DEF RequestOf
<1>2. \A d \in Handlers : pc'[d] \in IdlePCs <=> pc[d] \in IdlePCs
  BY DEF TypeOK, Goto
<1>3. \A d \in Handlers : pc[d] \in IdlePCs => pc'[d] = pc[d]
  BY DEF TypeOK, Goto
<1> QED
  BY <1>1, <1>2, <1>3 DEF ResultOf

(* An answer is one of the service.                                        *)
LEMMA AnswerSeen ==
    ASSUME TypeOK, NEW c \in Handlers, NEW r \in {"ok", "error"}, Answer(c, r),
           UNCHANGED <<phase, ptgt, killed>>
    PROVE  Service!Answer(c, r)
<1>1. ResultOf' = [ResultOf EXCEPT ![c] = r]
  BY DEF ResultOf, Answer, Goto, TypeOK, IdlePCs
<1>2. RequestOf' = [RequestOf EXCEPT ![c] = Service!NoRequest]
  BY DEF RequestOf, Answer, Service!NoRequest, TypeOK
<1>3. listed' = [listed EXCEPT ![c] = {}]
  BY DEF Answer
<1> QED
  BY <1>1, <1>2, <1>3, ProcsSame DEF Service!Answer

(* What the service knows of a handler that is at work.                    *)
LEMMA PendingSeen ==
    ASSUME NEW c \in Handlers, pc[c] \notin IdlePCs
    PROVE  /\ ResultOf[c] = "pending"
           /\ Service!Vol(c) = vol[c]
           /\ \A o : op[c] = o => Service!Pending(c, o)
BY DEF ResultOf, RequestOf, Service!Vol, Service!Pending

(* A process that can serve is owned by the volume of its target.          *)
LEMMA ServingSeen ==
    ASSUME IInv, NEW p \in CanServe
    PROVE  /\ p \in Procs /\ phase[p] # "gone" /\ Owned(p)
           /\ OwnerOf[p] = Vol(p) /\ Vol(p) \in Volumes
<1>1. p \in Procs /\ Alive(p) /\ ~killed[p]
  BY DEF CanServe
<1>2. phase[p] # "gone" /\ Owned(p)
  BY <1>1 DEF IInv, ServingInv, Alive
<1>3. ptgt[p] \in Targets
  BY <1>1, <1>2 DEF IInv, EntryInv
<1> QED
  BY <1>1, <1>2, <1>3, VolumeOfAssumption, NoneAssumption DEF OwnerOf, Vol

-----------------------------------------------------------------------------
(* The requests arrive.                                                    *)
LEMMA CallRefines ==
    ASSUME IInv, NEW c \in Handlers, MountCall(c) \/ UnmountCall(c) \/ ListCall(c)
    PROVE  Service!Receive(c) \/ Service!ReceiveList(c)
<1>1. PICK o, v, t, l :
        /\ Call(c, o, v, t, l)
        /\ l \in {"lock", "snapshot"}
        /\ \/ o \in {"mount", "unmount"} /\ v \in Volumes
           \/ o = "list" /\ v = None
  BY VolumeOfAssumption DEF MountCall, UnmountCall, ListCall
<1>2. ResultOf[c] # "pending" /\ ResultOf' = [ResultOf EXCEPT ![c] = "pending"]
  BY <1>1 DEF Call, Goto, ResultOf, IdlePCs, IInv, TypeOK
<1>3. RequestOf' = [RequestOf EXCEPT ![c] = [op |-> o, vol |-> v]]
  BY <1>1 DEF Call, RequestOf, IInv, TypeOK
<1>4. UNCHANGED <<mounts, CanServe, OwnerOf, listed>>
  BY <1>1, ProcsSame DEF Call, procVars
<1> QED
  BY <1>1, <1>2, <1>3, <1>4 DEF Service!Receive, Service!ReceiveList

(* A Mount that finds its volume served answers for the entry on record.   *)
LEMMA MountAlreadyRefines ==
    ASSUME IInv, CheckInv, NEW c \in Handlers, MountAlready(c)
    PROVE  Service!MountAgain(c) \/ Service!Fail(c)
<1>1. pc[c] \notin IdlePCs /\ op[c] = "mount"
  BY DEF MountAlready, IdlePCs, IInv, RequestInv, MountPCs
<1>2. entry[c] \in Procs /\ mounts[vol[c]] = entry[c]
  BY DEF MountAlready, Exited, CheckInv, IInv, HolderInv
<1>3. PICK r \in {"ok", "error"} : Answer(c, r)
  BY DEF MountAlready, AnswerAndUnlock
<1>4. Service!Answer(c, r)
  BY <1>3, AnswerSeen DEF MountAlready, procVars, IInv
<1>5. UNCHANGED mounts
  BY DEF MountAlready
<1> QED
  BY <1>1, <1>2, <1>4, <1>5, PendingSeen, NoneAssumption DEF Service!MountAgain, Service!Fail

(* Every other error answer leaves the record as it is.                    *)
LEMMA ErrorRefines ==
    ASSUME IInv, NEW c \in Handlers, pc[c] \notin IdlePCs, AnswerAndUnlock(c, "error"),
           UNCHANGED <<mounts, procVars>>
    PROVE  Service!Fail(c)
<1>1. Service!Answer(c, "error")
  BY AnswerSeen DEF AnswerAndUnlock, procVars, IInv
<1> QED
  BY <1>1, PendingSeen DEF Service!Fail

(* The lock holder removes the entry of a process that is done.            *)
LEMMA DrainRefines ==
    ASSUME IInv, NEW c \in Handlers, MountDrain(c)
    PROVE  (\E v \in Volumes : Service!Drop(v)) \/ UNCHANGED Service!vars
<1>1. UNCHANGED <<RequestOf, ResultOf>>
  BY MoveUnseen DEF MountDrain, IdlePCs, IInv
<1>2. UNCHANGED <<CanServe, OwnerOf, listed>>
  BY ProcsSame DEF MountDrain, procVars
<1>3. /\ vol[c] \in Volumes /\ entry[c] \in Procs /\ phase[entry[c]] = "done"
      /\ mounts[vol[c]] \in {entry[c], None}
      /\ mounts' = [mounts EXCEPT ![vol[c]] = None]
  BY DEF MountDrain, IInv, RequestInv, HolderInv, LockedPCs, MountPCs, StopPCs, Creating
<1>4. entry[c] \notin CanServe
  BY <1>3 DEF CanServe, Alive
<1>5. CASE mounts[vol[c]] = None
  <2>1. mounts' = mounts
    BY <1>3, <1>5 DEF IInv, TypeOK
  <2> QED
    BY <2>1, <1>1, <1>2 DEF Service!vars
<1>6. CASE mounts[vol[c]] = entry[c]
  BY <1>1, <1>2, <1>3, <1>4, <1>6, NoneAssumption DEF Service!Drop
<1> QED
  BY <1>3, <1>5, <1>6

(* A process is started where no other of the volume can serve.            *)
LEMMA StartRefines ==
    ASSUME IInv, NEW c \in Handlers, StartProcess(c)
    PROVE  Service!Start(c)
<1>1. pc[c] = "spawn" /\ pc[c] \notin IdlePCs /\ op[c] = "mount"
  BY DEF StartProcess, IdlePCs, IInv, RequestInv, MountPCs
<1>2. /\ tgt[c] \in Targets /\ tgt[c] # None /\ vol[c] = VolumeOf[tgt[c]]
      /\ mounts[vol[c]] = None
  BY <1>1, NoneAssumption DEF IInv, RequestInv, HolderInv
<1>3. PICK p \in Procs :
        /\ Free(p)
        /\ phase' = [phase EXCEPT ![p] = "starting"]
        /\ ptgt' = [ptgt EXCEPT ![p] = tgt[c]]
        /\ killed' = [killed EXCEPT ![p] = FALSE]
  BY DEF StartProcess
<1>4. p \notin CanServe /\ \A v \in Volumes : mounts[v] # p
  BY <1>3 DEF Free, CanServe, Alive
<1>5. CanServe' = CanServe \cup {p}
  BY <1>3 DEF CanServe, Alive, IInv, TypeOK
<1>6. OwnerOf' = [OwnerOf EXCEPT ![p] = vol[c]]
  BY <1>2, <1>3 DEF OwnerOf, IInv, TypeOK
<1>7. \A q \in CanServe : OwnerOf[q] # vol[c]
  BY <1>1, <1>2, SpawnUnowned, ServingSeen
<1>8. UNCHANGED <<RequestOf, ResultOf, mounts, listed>>
  BY <1>1, MoveUnseen DEF StartProcess, IInv, IdlePCs
<1> QED
  BY <1>1, <1>2, <1>4, <1>5, <1>6, <1>7, <1>8, PendingSeen DEF Service!Start

(* The entry of the new process goes on record.                            *)
LEMMA RecordRefines ==
    ASSUME IInv, NEW c \in Handlers, MountRecord(c)
    PROVE  Service!MountNew(c)
<1>1. pc[c] = "record" /\ pc[c] \notin IdlePCs /\ op[c] = "mount"
  BY DEF MountRecord, IdlePCs, IInv, RequestInv, MountPCs
<1>2. /\ entry[c] \in Procs /\ ptgt[entry[c]] \in Targets /\ Vol(entry[c]) = vol[c]
      /\ mounts[vol[c]] = None
  BY <1>1 DEF IInv, HolderInv, Creating
<1>3. OwnerOf[entry[c]] = vol[c]
  BY <1>2, NoneAssumption DEF OwnerOf, Vol
<1>4. Service!Answer(c, "ok")
  BY AnswerSeen DEF MountRecord, AnswerAndUnlock, IInv
<1> QED
  BY <1>1, <1>2, <1>3, <1>4, PendingSeen DEF MountRecord, Service!MountNew

(* An Unmount under the lock whose volume's entry, if any, is done finds   *)
(* no process that can serve the volume.                                   *)
LEMMA UnmountRefines ==
    ASSUME IInv, NEW c \in Handlers, pc[c] \in LockedPCs, op[c] = "unmount",
           mounts[vol[c]] # None => phase[mounts[vol[c]]] = "done",
           AnswerAndUnlock(c, "ok"), UNCHANGED procVars,
           mounts' = [mounts EXCEPT ![vol[c]] = None]
    PROVE  Service!Unmount(c)
<1>1. pc[c] \notin IdlePCs
  BY DEF LockedPCs, MountPCs, StopPCs, IdlePCs
<1>2. locks[vol[c]] = c
  BY DEF IInv, LockInv
<1>3. ASSUME NEW p \in CanServe, OwnerOf[p] = vol[c] PROVE FALSE
  <2>1. /\ p \in Procs /\ phase[p] # "gone" /\ Owned(p) /\ Vol(p) = vol[c]
    BY <1>3, ServingSeen
  <2>2. ASSUME NEW d \in Handlers, Creating(d, p) PROVE locks[vol[c]] = d /\ op[d] = "mount"
    BY <2>1, <2>2 DEF IInv, HolderInv, LockInv, Creating, LockedPCs, MountPCs, StopPCs
  <2>3. mounts[vol[c]] = p
    BY <2>1, <2>2, <1>2 DEF Owned
  <2> QED
    BY <2>1, <2>3, NoneAssumption DEF CanServe, Alive
<1>4. Service!Answer(c, "ok")
  BY AnswerSeen DEF AnswerAndUnlock, procVars, IInv
<1> QED
  BY <1>1, <1>3, <1>4, PendingSeen DEF Service!Unmount

(* List reports an entry that is on record, or nothing new.                *)
LEMMA FilterRefines ==
    ASSUME IInv, NEW c \in Handlers, ListFilter(c)
    PROVE  Service!Report(c) \/ UNCHANGED Service!vars
<1>1. pc[c] \notin IdlePCs /\ op[c] = "list"
  BY DEF ListFilter, IdlePCs, IInv, RequestInv
<1>2. UNCHANGED <<mounts, CanServe, OwnerOf, RequestOf, ResultOf>>
  BY ProcsSame DEF ListFilter, procVars, RequestOf, ResultOf
<1>3. PICK p \in todo[c] : listed' = [listed EXCEPT ![c] = IF Exited(p) THEN @ ELSE @ \cup {p}]
  BY DEF ListFilter
<1>4. CASE Exited(p)
  <2>1. listed' = listed
    BY <1>3, <1>4 DEF IInv, TypeOK
  <2> QED
    BY <2>1, <1>2 DEF Service!vars
<1>5. CASE ~Exited(p)
  <2>1. p \in Procs /\ phase[p] # "gone" /\ mounts[Vol(p)] = p
    BY <1>5 DEF Exited, IInv, EntryInv, TypeOK
  <2>2. OwnerOf[p] = Vol(p) /\ OwnerOf[p] # None
    BY <2>1, VolumeOfAssumption, NoneAssumption DEF OwnerOf, Vol, IInv, EntryInv
  <2>3. listed' = [listed EXCEPT ![c] = @ \cup {p}]
    BY <1>3, <1>5
  <2> QED
    BY <1>1, <1>2, <2>1, <2>2, <2>3, PendingSeen DEF Service!Report
<1> QED
  BY <1>4, <1>5

(* A process stops serving when it is killed or dies.                      *)
LEMMA StopRefines ==
    ASSUME IInv, NEW p \in Procs, UNCHANGED <<ptgt, mounts, listed, RequestOf, ResultOf>>,
           CanServe' \in {CanServe, CanServe \ {p}}
    PROVE  Service!Stop \/ UNCHANGED Service!vars
<1>1. UNCHANGED OwnerOf
  BY DEF OwnerOf
<1>2. CASE CanServe' = CanServe
  BY <1>1, <1>2 DEF Service!vars
<1>3. CASE CanServe' = CanServe \ {p} /\ CanServe' # CanServe
  <2>1. p \in CanServe
    BY <1>3
  <2> QED
    BY <1>1, <1>3, <2>1 DEF Service!Stop
<1> QED
  BY <1>2, <1>3

(* The watcher drops the record of a process that is done, or nothing.     *)
LEMMA WatchRefines ==
    ASSUME IInv, NEW p \in Procs, WatchProcessExit(p)
    PROVE  (\E v \in Volumes : Service!Drop(v)) \/ UNCHANGED Service!vars
<1>1. UNCHANGED <<CanServe, OwnerOf, listed, RequestOf, ResultOf>>
  BY ProcsSame DEF WatchProcessExit, handlerVars, RequestOf, ResultOf
<1>2. phase[p] = "done" /\ p \notin CanServe /\ Vol(p) \in Volumes
  BY VolumeOfAssumption DEF WatchProcessExit, CanServe, Alive, IInv, EntryInv, Vol
<1>3. CASE mounts[Vol(p)] = p
  <2>1. mounts' = [mounts EXCEPT ![Vol(p)] = None]
    BY <1>2, <1>3 DEF WatchProcessExit, Vol, IInv, TypeOK
  <2> QED
    BY <1>1, <1>2, <1>3, <2>1, NoneAssumption DEF Service!Drop
<1>4. CASE mounts[Vol(p)] # p
  <2>1. mounts' = mounts
    BY <1>4 DEF WatchProcessExit, Vol, IInv, TypeOK
  <2> QED
    BY <1>1, <2>1 DEF Service!vars
<1> QED
  BY <1>3, <1>4

-----------------------------------------------------------------------------
(* Every step of the Manager is one of the service, or not seen.           *)
LEMMA StepRefines ==
    ASSUME IInv, CheckInv, [Next]_vars
    PROVE  [Service!Next]_(Service!vars)
<1> DEFINE Seen == Service!Next \/ UNCHANGED Service!vars
<1>1. ASSUME NEW c \in Handlers, MountCall(c) \/ UnmountCall(c) \/ ListCall(c) PROVE Seen
  BY <1>1, CallRefines DEF Service!Next
<1>2. ASSUME NEW c \in Handlers,
             \/ Lock(c) \/ MountLookup(c) \/ MountStale(c) \/ EnsureTargetClean(c)
             \/ WaitForMountOK(c) \/ WaitForMountFails(c) \/ StopTerm(c) \/ ListSnapshot(c)
      PROVE  Seen
  <2>1. PICK l : Goto(c, l) /\ l \notin IdlePCs
    BY <1>2 DEF Lock, MountLookup, MountStale, EnsureTargetClean, WaitForMountOK,
       WaitForMountFails, StopTerm, ListSnapshot, IdlePCs
  <2>2. pc[c] \notin IdlePCs /\ UNCHANGED <<op, vol, mounts, listed, phase, ptgt, killed>>
    BY <1>2 DEF Lock, MountLookup, MountStale, EnsureTargetClean, WaitForMountOK,
       WaitForMountFails, StopTerm, ListSnapshot, IdlePCs, procVars
  <2> QED
    BY <2>1, <2>2, MoveUnseen, ProcsSame DEF IInv, Service!vars
<1>3. ASSUME NEW c \in Handlers, MountAlready(c) PROVE Seen
  BY <1>3, MountAlreadyRefines DEF Service!Next
<1>4. ASSUME NEW c \in Handlers, MountDrain(c) PROVE Seen
  BY <1>4, DrainRefines DEF Service!Next
<1>5. ASSUME NEW c \in Handlers, StartMountFails(c) \/ StopTimeout(c) PROVE Seen
  <2>1. /\ pc[c] \notin IdlePCs /\ AnswerAndUnlock(c, "error")
        /\ UNCHANGED <<mounts, procVars>>
    BY <1>5 DEF StartMountFails, StopTimeout, IdlePCs
  <2> QED
    BY <2>1, ErrorRefines DEF Service!Next
<1>6. ASSUME NEW c \in Handlers, StartProcess(c) PROVE Seen
  BY <1>6, StartRefines DEF Service!Next
<1>7. ASSUME NEW c \in Handlers, MountRecord(c) PROVE Seen
  BY <1>7, RecordRefines DEF Service!Next
<1>8. ASSUME NEW c \in Handlers, UnmountLookup(c) PROVE Seen
  <2>1. pc[c] \in LockedPCs /\ pc[c] \notin IdlePCs /\ op[c] = "unmount"
    BY <1>8 DEF UnmountLookup, LockedPCs, MountPCs, IdlePCs
  <2>2. CASE mounts[vol[c]] = None
    <3>1. /\ AnswerAndUnlock(c, "ok") /\ UNCHANGED procVars
          /\ mounts' = [mounts EXCEPT ![vol[c]] = None]
      BY <1>8, <2>2 DEF UnmountLookup, IInv, TypeOK
    <3>2. Service!Unmount(c)
      BY <2>1, <2>2, <3>1, UnmountRefines
    <3> QED
      BY <3>2 DEF Service!Next
  <2>3. CASE mounts[vol[c]] # None
    <3>1. Goto(c, "term") /\ UNCHANGED <<op, vol, mounts, listed, phase, ptgt, killed>>
      BY <1>8, <2>3 DEF UnmountLookup, procVars
    <3> QED
      BY <2>1, <3>1, MoveUnseen, ProcsSame DEF IInv, IdlePCs, Service!vars
  <2> QED
    BY <2>2, <2>3
<1>9. ASSUME NEW c \in Handlers, StopKill(c) PROVE Seen
  <2>1. UNCHANGED <<RequestOf, ResultOf, ptgt, mounts, listed>>
    BY <1>9, MoveUnseen DEF StopKill, IInv, IdlePCs
  <2>2. entry[c] \in Procs /\ CanServe' \in {CanServe, CanServe \ {entry[c]}}
    <3>1. entry[c] \in Procs
      BY <1>9 DEF StopKill, IInv, HolderInv, StopPCs
    <3>2. \A q \in Procs : q # entry[c] => (killed'[q] <=> killed[q])
      BY <1>9, <3>1 DEF StopKill, IInv, TypeOK
    <3>3. Alive(entry[c]) => killed'[entry[c]]
      BY <1>9, <3>1 DEF StopKill, IInv, TypeOK
    <3>4. \A q \in Procs : Alive(q)' <=> Alive(q)
      BY <1>9 DEF StopKill, Alive
    <3>5. CanServe' = CanServe \ {entry[c]}
      BY <3>1, <3>2, <3>3, <3>4 DEF CanServe
    <3> QED
      BY <3>1, <3>5
  <2> QED
    BY <2>1, <2>2, StopRefines DEF Service!Next
<1>10. ASSUME NEW c \in Handlers, StopDone(c) PROVE Seen
  <2>1. pc[c] \notin IdlePCs /\ UNCHANGED <<mounts, procVars>>
    BY <1>10 DEF StopDone, IdlePCs
  <2>2. CASE op[c] = "mount"
    <3>1. AnswerAndUnlock(c, "error")
      BY <1>10, <2>2 DEF StopDone
    <3> QED
      BY <2>1, <3>1, ErrorRefines DEF Service!Next
  <2>3. CASE op[c] # "mount"
    <3>1. Goto(c, "remove") /\ UNCHANGED <<op, vol, listed, phase, ptgt, killed>>
      BY <1>10, <2>3 DEF StopDone, procVars
    <3> QED
      BY <2>1, <3>1, MoveUnseen, ProcsSame DEF IInv, IdlePCs, Service!vars
  <2> QED
    BY <2>2, <2>3
<1>11. ASSUME NEW c \in Handlers, UnmountRemove(c) PROVE Seen
  <2>1. pc[c] \in LockedPCs /\ op[c] = "unmount"
    BY <1>11 DEF UnmountRemove, LockedPCs, IInv, RequestInv
  <2>2. mounts[vol[c]] # None => phase[mounts[vol[c]]] = "done"
    BY <1>11 DEF UnmountRemove, IInv, HolderInv, RequestInv, Creating
  <2>3. Service!Unmount(c)
    BY <1>11, <2>1, <2>2, UnmountRefines DEF UnmountRemove
  <2> QED
    BY <2>3 DEF Service!Next
<1>12. ASSUME NEW c \in Handlers, ListFilter(c) PROVE Seen
  BY <1>12, FilterRefines DEF Service!Next
<1>13. ASSUME NEW c \in Handlers, ListReturn(c) PROVE Seen
  <2>1. pc[c] \notin IdlePCs /\ op[c] = "list" /\ UNCHANGED mounts
    BY <1>13 DEF ListReturn, IdlePCs, IInv, RequestInv
  <2>2. Service!Answer(c, "ok")
    BY <1>13, AnswerSeen DEF ListReturn, procVars, IInv
  <2> QED
    BY <2>1, <2>2, PendingSeen DEF Service!List, Service!Next
<1>14. ASSUME NEW p \in Procs, ProcMounts(p) \/ ProcDies(p) PROVE Seen
  <2>1. UNCHANGED <<ptgt, mounts, listed, RequestOf, ResultOf>>
    BY <1>14 DEF ProcMounts, ProcDies, handlerVars, RequestOf, ResultOf
  <2>2. CASE ProcMounts(p)
    <3>1. CanServe' = CanServe
      BY <2>2 DEF ProcMounts, CanServe, Alive, IInv, TypeOK
    <3> QED
      BY <2>1, <3>1, StopRefines DEF Service!Next
  <2>3. CASE ProcDies(p)
    <3>1. CanServe' = CanServe \ {p}
      BY <2>3 DEF ProcDies, CanServe, Alive, IInv, TypeOK
    <3> QED
      BY <2>1, <3>1, StopRefines DEF Service!Next
  <2> QED
    BY <1>14, <2>2, <2>3
<1>15. ASSUME NEW p \in Procs, WaitStep(p) PROVE Seen
  <2>1. UNCHANGED <<ptgt, mounts, listed, RequestOf, ResultOf>>
    BY <1>15 DEF WaitStep, WaitExited, WaitUnmount, WaitDone, handlerVars, RequestOf, ResultOf
  <2>2. CanServe' = CanServe
    BY <1>15 DEF WaitStep, WaitExited, WaitUnmount, WaitDone, CanServe, Alive, IInv, TypeOK
  <2> QED
    BY <2>1, <2>2, StopRefines DEF Service!Next
<1>16. ASSUME NEW p \in Procs, WatchProcessExit(p) PROVE Seen
  BY <1>16, WatchRefines DEF Service!Next
<1>17. ASSUME NEW t \in Targets, DriverUnmount(t) PROVE Seen
  BY <1>17, ProcsSame DEF DriverUnmount, handlerVars, procVars, RequestOf, ResultOf, Service!vars
<1>18. CASE Restart
  <2>1. CanServe' = {} /\ OwnerOf' = [p \in Procs |-> None]
    BY <1>18 DEF Restart, CanServe, OwnerOf, Alive
  <2>2. RequestOf' = [c \in Handlers |-> Service!NoRequest]
    BY <1>18 DEF Restart, RequestOf, Service!NoRequest
  <2>3. ResultOf' = [c \in Handlers |-> "error"]
    BY <1>18 DEF Restart, ResultOf, IdlePCs
  <2> QED
    BY <1>18, <2>1, <2>2, <2>3 DEF Restart, Service!Restart, Service!Next
<1>19. CASE UNCHANGED vars
  BY <1>19, ProcsSame DEF vars, RequestOf, ResultOf, Service!vars
<1>20. Seen
  BY <1>1, <1>2, <1>3, <1>4, <1>5, <1>6, <1>7, <1>8, <1>9, <1>10, <1>11, <1>12, <1>13,
     <1>14, <1>15, <1>16, <1>17, <1>18, <1>19
  DEF Next, HandlerStep
<1> QED
  BY <1>20

(* Every interleaving of Mount, Unmount, List, the wait and watch          *)
(* goroutines, crashes, kills and restarts of the Manager is one of a      *)
(* service in which each request takes effect in the step that answers it. *)
THEOREM Refinement == Spec => ImplementsService
<1>1. Init => Service!Init
  <2> SUFFICES ASSUME Init PROVE Service!Init
    OBVIOUS
  <2>1. CanServe = {} /\ OwnerOf = [p \in Procs |-> None]
    BY DEF Init, CanServe, OwnerOf, Alive
  <2>2. RequestOf = [c \in Handlers |-> Service!NoRequest]
    BY DEF Init, RequestOf, Service!NoRequest
  <2>3. ResultOf = [c \in Handlers |-> "idle"]
    BY DEF Init, ResultOf, IdlePCs
  <2> QED
    BY <2>1, <2>2, <2>3 DEF Init, Service!Init
<1>2. Init => CheckInv
  BY DEF Init, CheckInv
<1>3. IInv /\ CheckInv /\ [Next]_vars => CheckInv'
  BY CheckStep
<1>4. IInv /\ CheckInv /\ [Next]_vars => [Service!Next]_(Service!vars)
  BY StepRefines
<1> QED
  BY <1>1, <1>2, <1>3, <1>4, Inductive, PTL DEF Spec, ImplementsService, Service!Spec
=============================================================================
