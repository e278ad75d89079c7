-------------------------- MODULE VolumeAttributes --------------------------
(***************************************************************************)
(* The mount parameters and the capacity of one volume ID, from the        *)
(* controller (CreateVolume, ControllerModifyVolume, DeleteVolume,         *)
(* ControllerExpandVolume) through the PersistentVolume and the persisted  *)
(* VolumeAttributesClass entry on the filer (vacstore.go) to the weed      *)
(* process a node starts (stageNewVolume, recoverVolume, NodeExpandVolume).*)
(* Parameters are functions from the keys that are set to their values.    *)
(***************************************************************************)
EXTENDS Naturals

CONSTANTS
    StaticParams,  \* StorageClass parameters in use
    ClassParams,   \* VolumeAttributesClass parameters in use, {} included
    Sizes,         \* capacities
    None,
    MaxVolumes     \* how often the volume ID may be created (bound)

MutableKeys == {"writebackCache", "dlm", "tuning"}   \* "tuning": any other mutable key
Empty == [k \in {} |-> ""]

ASSUME SizesAssumption == Sizes \subseteq Nat \ {0}
ASSUME ClassAssumption == Empty \in ClassParams
ASSUME VolumesAssumption == MaxVolumes \in Nat

(* Parameters set some of the keys in use; a volume context adds the       *)
(* capacity, an entry on the filer the volume it was written for.          *)
Keys == UNION {DOMAIN p : p \in StaticParams \cup ClassParams}
Values == UNION {{p[k] : k \in DOMAIN p} : p \in StaticParams \cup ClassParams}
Params == UNION {[D -> Values] : D \in SUBSET Keys}
Contexts == [params : Params, cap : Sizes]

ASSUME ParamsAssumption == StaticParams \cup ClassParams \subseteq Params
ASSUME NoneAssumption == None \notin Contexts \cup [params : Params, owner : Nat]

VARIABLES
    pv,        \* the PersistentVolume: context returned by CreateVolume
    size,      \* its spec.capacity, what the Kubernetes API answers
    store,     \* the entry under /.csi/vac: parameters and the volume it was written for
    modify,    \* the entry a Modify has validated and not yet written
    late,      \* a write that timed out and has not reached the filer
    accepted,  \* parameters of the last write if it succeeded, for this volume, else None
    created,   \* how many volumes had this ID so far
    ctx,       \* the node's Volume.volContext, None if not in the map
    mount,     \* context and quota of the running weed mount
    staged,    \* NodeStage succeeded and NodeUnstage has not
    expanded,  \* the size the last successful NodeExpand was called with
    failed     \* what has ever gone wrong: "store" (a write or delete on the
               \* filer), "api" (a capacity lookup), "lost" (a staged volume
               \* not restored after a restart)

controllerVars == <<pv, size, store, modify, late, accepted, created>>
nodeVars == <<ctx, mount, staged, expanded>>
vars == <<pv, size, store, modify, late, accepted, created, ctx, mount, staged, expanded, failed>>

Init ==
    /\ pv = None /\ size = None /\ store = None /\ modify = None /\ late = None /\ accepted = None
    /\ created = 0
    /\ ctx = None /\ mount = None /\ staged = FALSE /\ expanded = None
    /\ failed = {}

-----------------------------------------------------------------------------
Merge(base, over) ==
    [k \in DOMAIN base \cup DOMAIN over |-> IF k \in DOMAIN over THEN over[k] ELSE base[k]]
MutablePart(p) == [k \in DOMAIN p \cap MutableKeys |-> p[k]]

On(p, k) == k \in DOMAIN p /\ p[k] = "true"
Combo(p) == On(p, "writebackCache") /\ On(p, "dlm")        \* validateWritebackDlmCombo
WellFormed(p) == \A k \in DOMAIN p \cap MutableKeys : p[k] # "bad"   \* validateConstrainedParameterValues
Valid(p) == WellFormed(p) /\ ~Combo(p)
ValidMutable(p) == DOMAIN p \subseteq MutableKeys /\ Valid(p)   \* validateMutableParameters

(* CreateVolume validates the class on its own and lays it over the        *)
(* StorageClass parameters; the provisioner makes the PV from the answer.  *)
CreateVolume ==
    /\ pv = None /\ created < MaxVolumes
    /\ \E static \in StaticParams, class \in ClassParams, c \in Sizes :
        /\ ValidMutable(class)
        /\ pv' = [params |-> Merge(static, class), cap |-> c]
        /\ size' = c
    /\ created' = created + 1
    /\ accepted' = None
    /\ UNCHANGED <<store, modify, late, nodeVars, failed>>

(* Mutant of Acceptable: only the class itself is validated.               *)
AcceptableAlone(class) == class # Empty /\ ValidMutable(class)

(* Mutant of Acceptable: a modification without parameters is persisted.   *)
AcceptableEmpty(class) ==
    /\ ValidMutable(class)
    /\ Valid(Merge(MutablePart(pv.params), class))

(* ControllerModifyVolume reads the PV and validates the class and what it *)
(* makes of the PV.  Nothing keeps the volume from being deleted before    *)
(* the entry is written.                                                   *)
Acceptable(class) ==
    /\ class # Empty /\ ValidMutable(class)
    /\ Valid(Merge(MutablePart(pv.params), class))

ModifyVolume ==
    /\ pv # None /\ modify = None
    /\ \E class \in ClassParams :
        Acceptable(class) /\ modify' = [params |-> class, owner |-> created]
    /\ UNCHANGED <<pv, size, store, late, accepted, created, nodeVars, failed>>

ModifyWrites ==
    /\ modify # None
    /\ store' = modify /\ modify' = None
    /\ accepted' = IF pv # None /\ modify.owner = created THEN modify.params ELSE None
    /\ UNCHANGED <<pv, size, late, created, nodeVars, failed>>

(* The write fails: it may have reached the filer, reach it later, or not. *)
ModifyFails ==
    /\ modify # None /\ modify' = None
    /\ \/ store' = modify /\ UNCHANGED late
       \/ late' \in {modify, late} /\ UNCHANGED store
    /\ accepted' = None
    /\ failed' = failed \cup {"store"}
    /\ UNCHANGED <<pv, size, created, nodeVars>>

LateWrite ==
    /\ late # None
    /\ store' = late /\ late' = None
    /\ accepted' = None
    /\ UNCHANGED <<pv, size, modify, created, nodeVars, failed>>

(* store.Delete; an error is only logged.                                  *)
DeleteEntry ==
    \/ store' = None /\ UNCHANGED failed
    \/ UNCHANGED store /\ failed' = failed \cup {"store"}

(* DeleteVolume, once no node has the volume staged.                       *)
DeleteVolume ==
    /\ pv # None /\ ~staged
    /\ pv' = None /\ size' = None
    /\ DeleteEntry
    /\ accepted' = None
    /\ UNCHANGED <<modify, late, created, nodeVars>>

(* ControllerExpandVolume only answers; the resizer then updates the PV.   *)
ControllerExpandVolume ==
    /\ pv # None
    /\ \E c \in Sizes : c > size /\ size' = c
    /\ UNCHANGED <<pv, store, modify, late, accepted, created, nodeVars, failed>>

-----------------------------------------------------------------------------
(* loadPersistedVolumeAttributes: a store that cannot be read is ignored.  *)
Persisted == IF store = None THEN Empty ELSE store.params
ReadBack == {Persisted, Empty}

(* Mutant of Effective: static parameters take precedence.                 *)
EffectiveStatic(base, persisted) == Merge(MutablePart(persisted), base)

Effective(base, persisted) == Merge(base, MutablePart(persisted))

(* Mutant of Capacity: the volume context is asked first.                  *)
CapacityFromContext(base, c) == c = base.cap /\ UNCHANGED failed

(* resolveVolumeCapacity: the API, else the volume context.                *)
Capacity(base, c) ==
    \/ c = size /\ UNCHANGED failed
    \/ c = base.cap /\ failed' = failed \cup {"api"}

(* Volume.Quota: one byte stands for no quota.                             *)
Quota(c) == IF c = 1 THEN 0 ELSE c

(* stageNewVolume: the mount, the quota and the context the volume keeps.  *)
StageNewVolume(base, persisted) ==
    \E c \in {size, base.cap} :
        LET context == [params |-> Effective(base.params, persisted), cap |-> c] IN
        /\ Capacity(base, c)
        /\ Valid(context.params)
        /\ ctx' = context
        /\ mount' = [context |-> context, quota |-> Quota(c)]

(* NodeStage (or NodePublish, for a volume that is not in the map).        *)
NodeStage(persisted) ==
    /\ pv # None /\ ctx = None /\ mount = None
    /\ StageNewVolume(pv, persisted)
    /\ staged' = TRUE
    /\ UNCHANGED <<controllerVars, expanded>>

(* A healthy mount is found: the cache is rebuilt from the request.        *)
NodeStageRebuilds ==
    /\ pv # None /\ ctx = None /\ mount # None
    /\ ctx' = pv
    /\ staged' = TRUE
    /\ UNCHANGED <<controllerVars, mount, expanded, failed>>

(* recoverVolume stages again from the context the volume keeps.           *)
Recover ==
    /\ ctx # None /\ mount = None
    /\ \E persisted \in ReadBack : StageNewVolume(ctx, persisted)
    /\ UNCHANGED <<controllerVars, staged, expanded>>

NodeUnstage ==
    /\ staged
    /\ ctx' = None /\ mount' = None /\ staged' = FALSE /\ expanded' = None
    /\ UNCHANGED <<controllerVars, failed>>

(* NodeExpandVolume sets the quota of a volume in the map (an error if its *)
(* mount does not answer) and succeeds for any other.                      *)
NodeExpand ==
    /\ staged /\ size # pv.cap
    /\ \/ ctx # None /\ mount # None /\ mount' = [mount EXCEPT !.quota = Quota(size)]
       \/ ctx = None /\ UNCHANGED mount
    /\ expanded' = size
    /\ UNCHANGED <<controllerVars, ctx, staged, failed>>

SessionDies ==
    /\ mount # None /\ mount' = None
    /\ UNCHANGED <<controllerVars, ctx, staged, expanded, failed>>

(* The plugin restarts; restoreVolume adopts the mount with the context    *)
(* the mount service was given, or the volume is lost from the map.        *)
PluginRestart ==
    /\ \/ mount # None /\ ctx' = mount.context /\ UNCHANGED failed
       \/ /\ ctx' = None
          /\ failed' = IF staged THEN failed \cup {"lost"} ELSE failed
    /\ UNCHANGED <<controllerVars, mount, staged, expanded>>

Next ==
    \/ CreateVolume \/ ModifyVolume \/ ModifyWrites \/ ModifyFails \/ LateWrite \/ DeleteVolume
    \/ ControllerExpandVolume
    \/ \E persisted \in ReadBack : NodeStage(persisted)
    \/ NodeStageRebuilds \/ Recover \/ NodeUnstage \/ NodeExpand
    \/ SessionDies \/ PluginRestart

Spec == Init /\ [][Next]_vars

-----------------------------------------------------------------------------
TypeOK ==
    /\ pv \in Contexts \cup {None} /\ (pv # None => size \in Sizes)
    /\ created \in 0..MaxVolumes
    /\ \A e \in {store, modify, late} :
        e # None => e \in [params : ClassParams \ {Empty}, owner : 1..created]
    /\ accepted \in ClassParams \cup {None}
    /\ ctx \in Contexts \cup {None}
    /\ mount # None => mount \in [context : Contexts, quota : {Quota(c) : c \in Sizes}]
    /\ failed \subseteq {"store", "api", "lost"}
    /\ staged \in BOOLEAN /\ expanded \in Sizes \cup {None}

(* A modification that was persisted never makes the volume unstageable:   *)
(* the entry, laid over the PV's attributes, always passes the node's      *)
(* validation, also when the write was reported as failed or came late.    *)
ModifiedVolumeStages ==
    pv # None /\ store # None /\ store.owner = created => Valid(Effective(pv.params, store.params))

(* A first stage that can read the entry mounts with the accepted class    *)
(* over the PV's attributes, whatever was written or deleted before.       *)
StageAppliesClass ==
    [][NodeStage(Persisted) /\ accepted # None
        => mount'.context.params = Merge(pv.params, accepted)]_vars

(* The mount enforces at least the capacity of the last expansion that was *)
(* reported as done, through recoveries and restarts, unless a recovery    *)
(* could not ask the API or a restart lost the volume from the map.        *)
QuotaFollowsExpansion ==
    failed \subseteq {"store"} /\ expanded # None /\ mount # None
        => mount.quota = 0 \/ mount.quota >= expanded

(* Modify's comment: what it persists is not a combination that a later    *)
(* stage rejects.  Recovery too is such a stage, also when nothing has     *)
(* ever failed.                                                            *)
RecoveryAccepts ==
    failed = {} /\ ctx # None /\ mount = None /\ store # None
        /\ Valid(Effective(pv.params, store.params))
        => Valid(Effective(ctx.params, store.params))
=============================================================================
