-------------------------- MODULE ContainerRemount --------------------------
(***************************************************************************)
(* How recoveries reach into running containers                            *)
(* (container_remount_linux.go, and steps 3 to 7 of recoverVolume and      *)
(* retryPublishPaths in health_monitor.go).  The binds of a container do   *)
(* not follow the host's mounts, so after a volume is staged again its     *)
(* stale mounts are looked up in each container's mount namespace and      *)
(* replaced.  A recovery knows them by the device number of the old FUSE   *)
(* mount; a retry of a publish path has no such key and scans for stale    *)
(* mounts.  Several volumes of one pod are recovered at the same time,     *)
(* each under its own mutex.  The steps up to the stage are NodeServer's   *)
(* and HealthMonitor's; here they are one step.                            *)
(***************************************************************************)
EXTENDS Integers

CONSTANTS
    NumVols,      \* the volumes of a pod
    Mounts,       \* the mount points of these volumes in its containers
    Containers,   \* its mount namespaces
    VolOf, In,    \* the volume and the container of a mount point
    RootOf,       \* its subPath ("/" for none)
    ReadOnly,     \* the volumes published read-only
    MaxSessions,  \* FUSE sessions mounted one after another (bound)
    MaxFaults     \* steps that fail (bound)

Vols == 1..NumVols
Sessions == 1..MaxSessions
Devices == 1..MaxSessions   \* the kernel's device numbers for FUSE mounts
Bare == 0                   \* nothing mounted; no device

ASSUME MountsAssumption ==
    /\ VolOf \in [Mounts -> Vols] /\ In \in [Mounts -> Containers]
    /\ DOMAIN RootOf = Mounts /\ ReadOnly \subseteq Vols
ASSUME BoundsAssumption ==
    /\ NumVols \in Nat /\ MaxSessions \in Nat /\ MaxFaults \in Nat /\ NumVols <= MaxSessions

VARIABLES
    session,  \* the FUSE sessions: volume, device number, daemon alive
    last,     \* how many there were
    staging,  \* the session mounted at a volume's staging path
    bind,     \* the session behind its publish path
    plain,    \* volumes whose publish path is a bind of the bare staging directory
    cont,     \* what is mounted at a container's mount point
    task,     \* the recovery or the retry of a volume, under its mutex
    exposed,  \* mount points whose read-only remount is due or has failed (history)
    faults

hostVars == <<session, last, staging, bind, plain>>
vars == <<session, last, staging, bind, plain, cont, task, exposed, faults>>

Idle == [pc |-> "idle", keyed |-> FALSE, key |-> Bare, was |-> Bare, seen |-> 0,
         pids |-> {}, todo |-> {}, lock |-> {}, failed |-> FALSE]
Unmounted == [of |-> Bare, root |-> "/", ro |-> FALSE]

(* Every volume is staged, published and mounted in its containers.        *)
Init ==
    /\ session = [s \in Sessions |-> [vol |-> s, dev |-> s, up |-> s \in Vols]]
    /\ last = NumVols
    /\ staging = [v \in Vols |-> v] /\ bind = [v \in Vols |-> v] /\ plain = {}
    /\ cont = [m \in Mounts |-> [of |-> VolOf[m], root |-> RootOf[m], ro |-> VolOf[m] \in ReadOnly]]
    /\ task = [v \in Vols |-> Idle] /\ exposed = {} /\ faults = 0

Healthy(s) == s # Bare /\ session[s].up
Device(s) == IF s = Bare THEN Bare ELSE session[s].dev

(* A number is taken as long as something is mounted from its session.     *)
Taken(stagings) ==
    {Device(stagings[v]) : v \in Vols} \cup {Device(bind[v]) : v \in Vols}
        \cup {Device(cont[m].of) : m \in Mounts}

Set(v, t) == task' = [task EXCEPT ![v] = t]
Goto(v, l) == Set(v, [task[v] EXCEPT !.pc = l])
Fault == faults < MaxFaults /\ faults' = faults + 1

-----------------------------------------------------------------------------
(* recoverVolume: the old device is read from the staging mount or, when   *)
(* it is gone, from a publish bind.  `was` and `seen` remember the session *)
(* it belonged to and how many there had been.                             *)
Recover(v) ==
    /\ task[v].pc = "idle" /\ ~Healthy(staging[v])
    /\ LET old == IF staging[v] # Bare THEN staging[v] ELSE bind[v]
       IN Set(v, [Idle EXCEPT !.pc = "stage", !.keyed = TRUE, !.key = Device(old),
                              !.was = old, !.seen = last])
    /\ UNCHANGED <<hostVars, cont, exposed, faults>>

Unstaged(v) == [staging EXCEPT ![v] = Bare]

(* Steps 1 to 3: the old mount is detached and a new session is mounted,   *)
(* with a number that is free by then.  A stage that fails may have        *)
(* mounted it all the same.                                                *)
MountNew(v) ==
    /\ last < MaxSessions
    /\ \E d \in Devices \ Taken(Unstaged(v)) :
        session' = [session EXCEPT ![last + 1] = [vol |-> v, dev |-> d, up |-> TRUE]]
    /\ last' = last + 1
    /\ staging' = [staging EXCEPT ![v] = last + 1]

Stage(v) ==
    /\ task[v].pc = "stage"
    /\ MountNew(v)
    /\ Goto(v, "tear")
    /\ UNCHANGED <<bind, plain, cont, exposed, faults>>

StageFails(v) ==
    /\ task[v].pc = "stage" /\ Fault
    /\ MountNew(v) \/ (staging' = Unstaged(v) /\ UNCHANGED <<session, last>>)
    /\ Set(v, Idle)
    /\ UNCHANGED <<bind, plain, cont, exposed>>

(* retryPublishPaths, when the staging mount is healthy and the bind not.  *)
(* A bind of the bare directory passes for healthy.                        *)
Retry(v) ==
    /\ task[v].pc = "idle" /\ Healthy(staging[v]) /\ ~Healthy(bind[v]) /\ v \notin plain
    /\ Goto(v, "tear")
    /\ UNCHANGED <<hostVars, cont, exposed, faults>>

(* tearDownStalePublishBind and Volume.Publish: when either fails, the     *)
(* path's containers are left alone.  The staging mount may have died, and *)
(* been unmounted by the mount service, since the stage.                   *)
TearDown(v) ==
    /\ task[v].pc = "tear"
    /\ \/ /\ bind' = [bind EXCEPT ![v] = Bare] /\ plain' = plain \ {v}
          /\ Goto(v, "bind") /\ UNCHANGED faults
       \/ Fault /\ Set(v, Idle) /\ UNCHANGED <<bind, plain>>
    /\ UNCHANGED <<session, last, staging, cont, exposed>>

(* A step that needs the staging mount fails by itself once that is gone.  *)
FaultOrGone(v) == Fault \/ (~Healthy(staging[v]) /\ UNCHANGED faults)

(* remountInContainers goes by the device of the old mount, if there is    *)
(* one; remountStaleFuseInContainers reads that of the staging mount.      *)
Rebind(v) ==
    /\ task[v].pc = "bind"
    /\ \/ /\ bind' = [bind EXCEPT ![v] = staging[v]]
          /\ LET key == IF task[v].keyed THEN task[v].key ELSE Device(staging[v])
             IN Set(v, IF key = Bare THEN Idle
                       ELSE [task[v] EXCEPT !.pc = "ns", !.key = key, !.pids = Containers])
          /\ plain' = IF staging[v] = Bare THEN plain \cup {v} ELSE plain
          /\ UNCHANGED faults
       \/ FaultOrGone(v) /\ Set(v, Idle) /\ UNCHANGED <<bind, plain>>
    /\ UNCHANGED <<session, last, staging, cont, exposed>>

-----------------------------------------------------------------------------
(* What the container's mountinfo lists: for a recovery the FUSE mounts of *)
(* the old device, for a retry those of any device but the staging mount's.*)
Listed(c) == {m \in Mounts : In[m] = c /\ cont[m].of # Bare}
Keyed(v, m) == (Device(cont[m].of) = task[v].key) <=> task[v].keyed
AsEntries(ms) == {[at |-> m, root |-> cont[m].root] : m \in ms}

(* Mutants of Matches: the key is not looked at; only the first match is   *)
(* returned.                                                               *)
AnyFuse(v, c) == AsEntries(Listed(c))

FirstMatch(v, c) ==
    LET all == {m \in Listed(c) : Keyed(v, m)}
    IN AsEntries(IF all = {} THEN {} ELSE {CHOOSE m \in all : TRUE})

Matches(v, c) == AsEntries({m \in Listed(c) : Keyed(v, m)})

Namespace(v) ==
    /\ task[v].pc = "ns"
    /\ \/ \E c \in task[v].pids :
            LET t == [task[v] EXCEPT !.pc = "mounts", !.pids = @ \ {c}] IN
            \/ Set(v, [t EXCEPT !.todo = Matches(v, c)]) /\ UNCHANGED faults
            \/ Fault /\ Set(v, [t EXCEPT !.todo = {}, !.failed = TRUE])
       \/ task[v].pids = {} /\ Set(v, Idle) /\ UNCHANGED faults
    /\ UNCHANGED <<hostVars, cont, exposed>>

(* Mutants of Source: the whole share is bound; the root field is lost     *)
(* when it cannot be decoded.                                              *)
SourceRoot(e) == "/"
SourceLost(e) == ""

(* remountViaSetns binds from the subdirectory the stale mount came from.  *)
Source(e) == e.root

(* The scan looks at each mount of its list; only a stale one is replaced. *)
Skip(v, e) ==
    /\ ~task[v].keyed /\ (cont[e.at].of = Bare \/ Healthy(cont[e.at].of))
    /\ Set(v, [task[v] EXCEPT !.todo = @ \ {e}])
    /\ UNCHANGED <<cont, exposed, faults>>

(* open_tree or setns may fail before anything is changed, as open_tree of *)
(* a subPath does on a bare staging path; then the mount is lazily         *)
(* unmounted, and move_mount may leave the place bare.                     *)
Replace(v, e) ==
    /\ task[v].keyed \/ (cont[e.at].of # Bare /\ ~Healthy(cont[e.at].of))
    /\ LET t == [task[v] EXCEPT !.todo = @ \ {e}]
           ro == v \in ReadOnly
       IN \/ /\ staging[v] # Bare \/ Source(e) = "/"
             /\ cont' = [cont EXCEPT ![e.at] = [of |-> staging[v], root |-> Source(e), ro |-> FALSE]]
             /\ exposed' = IF ro THEN exposed \cup {e.at} ELSE exposed \ {e.at}
             /\ Set(v, IF ro THEN [t EXCEPT !.pc = "ro", !.lock = {e.at}] ELSE t)
             /\ UNCHANGED faults
          \/ /\ Set(v, [t EXCEPT !.failed = TRUE])
             /\ \/ FaultOrGone(v) /\ UNCHANGED cont
                \/ Fault /\ cont' = [cont EXCEPT ![e.at] = Unmounted]
             /\ UNCHANGED exposed

EachMount(v) ==
    /\ task[v].pc = "mounts"
    /\ \/ \E e \in task[v].todo : Skip(v, e) \/ Replace(v, e)
       \/ task[v].todo = {} /\ Goto(v, "ns") /\ UNCHANGED <<cont, exposed, faults>>
    /\ UNCHANGED hostVars

(* Mutant of MakeReadOnly: the flag is left to the bind, which ignores it. *)
MakeReadOnlyLater(v) ==
    /\ task[v].pc = "ro"
    /\ Set(v, [task[v] EXCEPT !.pc = "mounts", !.lock = {}])
    /\ exposed' = exposed \ task[v].lock
    /\ UNCHANGED <<hostVars, cont, faults>>

(* The second remount of a read-only publish; its failure is only logged.  *)
MakeReadOnly(v) ==
    /\ task[v].pc = "ro"
    /\ Set(v, [task[v] EXCEPT !.pc = "mounts", !.lock = {}])
    /\ \/ /\ cont' = [m \in Mounts |-> IF m \in task[v].lock THEN [cont[m] EXCEPT !.ro = TRUE] ELSE cont[m]]
          /\ exposed' = exposed \ task[v].lock
          /\ UNCHANGED faults
       \/ Fault /\ UNCHANGED <<cont, exposed>>
    /\ UNCHANGED hostVars

-----------------------------------------------------------------------------
(* The daemon of the staged session dies; the mount service then unmounts  *)
(* the staging path, at any time or never.                                 *)
Die(v) ==
    /\ Healthy(staging[v])
    /\ session' = [session EXCEPT ![staging[v]].up = FALSE]
    /\ UNCHANGED <<last, staging, bind, plain, cont, task, exposed, faults>>

Reap(v) ==
    /\ staging[v] # Bare /\ ~Healthy(staging[v])
    /\ staging' = Unstaged(v)
    /\ UNCHANGED <<session, last, bind, plain, cont, task, exposed, faults>>

Next == \E v \in Vols :
    \/ Recover(v) \/ Stage(v) \/ StageFails(v) \/ Retry(v) \/ TearDown(v) \/ Rebind(v)
    \/ Namespace(v) \/ EachMount(v) \/ MakeReadOnly(v)
    \/ Die(v) \/ Reap(v)

Spec == Init /\ [][Next]_vars

-----------------------------------------------------------------------------
Roots == {RootOf[m] : m \in Mounts} \cup {"/"}
Entries == [at : Mounts, root : Roots]
Points == [of : 0..last, root : Roots, ro : BOOLEAN]
Tasks == [pc : {"idle", "stage", "tear", "bind", "ns", "mounts", "ro"}, keyed : BOOLEAN,
          key : 0..MaxSessions, was : 0..last, seen : 0..last, pids : SUBSET Containers,
          todo : SUBSET Entries, lock : SUBSET Mounts, failed : BOOLEAN]

TypeOK ==
    /\ session \in [Sessions -> [vol : Sessions, dev : Devices, up : BOOLEAN]]
    /\ last \in 0..MaxSessions /\ faults \in 0..MaxFaults
    /\ staging \in [Vols -> 0..last] /\ bind \in [Vols -> 0..last]
    /\ cont \in [Mounts -> Points] /\ task \in [Vols -> Tasks]
    /\ exposed \subseteq Mounts /\ plain \subseteq Vols

PicksOwnDead(v, e) == cont[e.at].of = task[v].was /\ ~session[cont[e.at].of].up

(* Step 7's comment: going by the device number, a recovery never touches  *)
(* another volume's mount, that is, it picks only mounts of the session    *)
(* whose number it read, which is dead.                                    *)
KeyPicksOwnDead ==
    [][\A v \in Vols :
        task[v].pc = "ns" /\ task'[v].pc = "mounts" /\ task[v].keyed =>
            \A e \in task'[v].todo : PicksOwnDead(v, e)]_vars

(* As long as any container still has a mount of the captured session, a   *)
(* recovery picks no other; a foreign mount can only be picked once there  *)
(* is nothing left to repair, and only one of a session that was mounted   *)
(* after the number was read.                                              *)
KeyPicksOneSession ==
    [][\A v \in Vols :
        task[v].pc = "ns" /\ task'[v].pc = "mounts" /\ task[v].keyed =>
            \A e \in task'[v].todo :
                \/ PicksOwnDead(v, e)
                \/ cont[e.at].of > task[v].seen /\ \A m \in Mounts : cont[m].of # task[v].was]_vars

(* After a recovery in which nothing failed no container of the pod has a  *)
(* mount of the old session left, wherever and however often it was        *)
(* mounted (findContainerMountsByDevice returns all of them).              *)
RepairComplete ==
    [][\A v \in Vols :
        LET t == task[v] IN
        t.pc = "ns" /\ task'[v].pc = "idle" /\ t.keyed /\ ~t.failed =>
            \A m \in Mounts : cont[m].of # t.was]_vars

(* A mount point with a subPath keeps it through recoveries, retries and   *)
(* remounts by several tasks.                                              *)
SubPathKept == \A m \in Mounts : cont[m].of # Bare => cont[m].root = RootOf[m]

(* A volume published read-only is read-only in every container, except    *)
(* between move_mount and the second remount, or when that one fails.      *)
ReadOnlyKept ==
    \A m \in Mounts :
        cont[m].of # Bare /\ session[cont[m].of].vol \in ReadOnly => cont[m].ro \/ m \in exposed

(* The comment on remountStaleFuseInContainers: it must not overwrite      *)
(* other volumes mounted in the same pod.                                  *)
ScanReplacesOwn ==
    [][\A v \in Vols, m \in Mounts :
        task[v].pc = "mounts" /\ ~task[v].keyed /\ task'[v] # task[v] /\ cont'[m] # cont[m] =>
            VolOf[m] = v]_vars
=============================================================================
