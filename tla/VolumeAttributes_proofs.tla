----------------------- MODULE VolumeAttributes_proofs -----------------------
(* Theorems about VolumeAttributes, for all parameters, sizes and volumes. *)
EXTENDS VolumeAttributes, TLAPS

(* Modify validates the mutable part of the PV's attributes with the class *)
(* over it; a stage validates all of them with the mutable part of the     *)
(* class over them.  The two agree because both checks only look at        *)
(* mutable keys and an accepted class has no others.                       *)
LEMMA AcceptedIsStageable ==
    ASSUME NEW base, NEW class,
           DOMAIN class \subseteq MutableKeys,
           Valid(Merge(MutablePart(base), class))
    PROVE  Valid(Effective(base, class))
<1> DEFINE checked == Merge(MutablePart(base), class)
           stagedWith == Merge(base, MutablePart(class))
<1>1. DOMAIN MutablePart(class) = DOMAIN class
  BY DEF MutablePart
<1>2. \A k \in DOMAIN class : MutablePart(class)[k] = class[k]
  BY <1>1 DEF MutablePart
<1>3. DOMAIN checked = (DOMAIN base \cap MutableKeys) \cup DOMAIN class
  BY DEF Merge, MutablePart
<1>4. DOMAIN stagedWith = DOMAIN base \cup DOMAIN class
  BY <1>1 DEF Merge
<1>5. \A k \in MutableKeys : k \in DOMAIN stagedWith <=> k \in DOMAIN checked
  BY <1>3, <1>4
<1>6. ASSUME NEW k \in MutableKeys, k \in DOMAIN checked
      PROVE  stagedWith[k] = checked[k]
  <2>1. CASE k \in DOMAIN class
    BY <1>1, <1>2, <1>6, <2>1 DEF Merge
  <2>2. CASE k \notin DOMAIN class
    <3>1. k \in DOMAIN MutablePart(base) /\ MutablePart(base)[k] = base[k]
      BY <1>3, <1>6, <2>2 DEF MutablePart
    <3>2. checked[k] = base[k]
      BY <3>1, <2>2, <1>6 DEF Merge
    <3>3. stagedWith[k] = base[k]
      BY <1>1, <1>4, <1>5, <1>6, <2>2 DEF Merge
    <3>4. QED BY <3>2, <3>3
  <2>3. QED BY <2>1, <2>2
<1> HIDE DEF checked, stagedWith
<1>7. WellFormed(stagedWith)
  <2>1. WellFormed(checked)
    BY DEF Valid, checked
  <2>2. QED BY <1>5, <1>6, <2>1 DEF WellFormed
<1>8. ~Combo(stagedWith)
  <2>1. ~Combo(checked)
    BY DEF Valid, checked
  <2>2. "writebackCache" \in MutableKeys /\ "dlm" \in MutableKeys
    BY DEF MutableKeys
  <2>3. QED BY <1>5, <1>6, <2>1, <2>2 DEF Combo, On
<1>9. QED BY <1>7, <1>8 DEF Valid, Effective, stagedWith

(* What the filer holds, or may still receive, belongs to a volume that    *)
(* has been created, and can be staged if that volume is the present one.  *)
EntryStages(e) ==
    e # None =>
        /\ e.owner \in Nat /\ e.owner <= created
        /\ pv # None /\ e.owner = created => Valid(Effective(pv.params, e.params))

StageInv == created \in Nat /\ EntryStages(store) /\ EntryStages(modify) /\ EntryStages(late)

LEMMA NewEntryStages ==
    ASSUME StageInv, NEW class, Acceptable(class), UNCHANGED <<pv, created>>,
           NEW e, e = [params |-> class, owner |-> created]
    PROVE  EntryStages(e)'
<1>1. Valid(Effective(pv.params, class))
  BY AcceptedIsStageable DEF Acceptable, ValidMutable
<1>2. QED BY <1>1 DEF StageInv, EntryStages

LEMMA StageInvInductive ==
    ASSUME StageInv, [Next]_vars
    PROVE  StageInv'
<1> USE DEF StageInv, EntryStages
<1>1. CASE CreateVolume
  BY <1>1 DEF CreateVolume
<1>2. CASE ModifyVolume
  <2>1. PICK class \in ClassParams :
            Acceptable(class) /\ modify' = [params |-> class, owner |-> created]
    BY <1>2 DEF ModifyVolume
  <2>2. UNCHANGED <<pv, created, store, late>>
    BY <1>2 DEF ModifyVolume
  <2>3. EntryStages([params |-> class, owner |-> created])'
    BY <2>1, <2>2, NewEntryStages
  <2>4. QED BY <2>1, <2>2, <2>3
<1>3. CASE ModifyWrites \/ ModifyFails
  BY <1>3 DEF ModifyWrites, ModifyFails
<1>4. CASE LateWrite
  BY <1>4 DEF LateWrite
<1>5. CASE DeleteVolume
  BY <1>5 DEF DeleteVolume, DeleteEntry
<1>6. CASE ControllerExpandVolume
  BY <1>6 DEF ControllerExpandVolume
<1>7. CASE UNCHANGED controllerVars
  BY <1>7 DEF controllerVars
<1>8. ASSUME \/ \E persisted \in ReadBack : NodeStage(persisted)
             \/ NodeStageRebuilds \/ Recover \/ NodeUnstage \/ NodeExpand
             \/ SessionDies \/ PluginRestart \/ UNCHANGED vars
      PROVE  UNCHANGED controllerVars
  BY <1>8 DEF NodeStage, NodeStageRebuilds, Recover, NodeUnstage, NodeExpand, SessionDies,
              PluginRestart, vars, controllerVars
<1>9. QED
  BY <1>1, <1>2, <1>3, <1>4, <1>5, <1>6, <1>7, <1>8 DEF Next

(* ControllerModifyVolume's promise: what it persists for a volume passes  *)
(* the validation of stageNewVolume, for every StorageClass and every      *)
(* class, also when writes fail, land late or the entry survives a delete. *)
THEOREM ModifiedStages == Spec => []ModifiedVolumeStages
<1>1. Init => StageInv
  BY DEF Init, StageInv, EntryStages
<1>2. StageInv /\ [Next]_vars => StageInv'
  BY StageInvInductive
<1>3. StageInv => ModifiedVolumeStages
  BY DEF StageInv, EntryStages, ModifiedVolumeStages
<1>4. QED BY <1>1, <1>2, <1>3, PTL DEF Spec

-----------------------------------------------------------------------------
(* Laying parameters over others, or taking the mutable ones, gives        *)
(* parameters.                                                             *)
LEMMA ParamsClosed ==
    ASSUME NEW p \in Params, NEW q \in Params
    PROVE  Merge(p, q) \in Params /\ MutablePart(p) \in Params
<1>1. PICK D \in SUBSET Keys : p \in [D -> Values]
  BY DEF Params
<1>2. PICK E \in SUBSET Keys : q \in [E -> Values]
  BY DEF Params
<1>3. Merge(p, q) \in [D \cup E -> Values] /\ D \cup E \in SUBSET Keys
  BY <1>1, <1>2 DEF Merge
<1>4. MutablePart(p) \in [D \cap MutableKeys -> Values] /\ D \cap MutableKeys \in SUBSET Keys
  BY <1>1 DEF MutablePart
<1> QED
  BY <1>3, <1>4 DEF Params

(* The types, and who implies whom: a node has a context or a mount only   *)
(* for a volume it has staged, and a staged volume exists.                 *)
TypeInv ==
    /\ TypeOK
    /\ pv # None => created >= 1
    /\ ctx # None \/ mount # None => staged
    /\ staged => pv # None

(* What a stage leaves behind, for the base it starts from.                *)
LEMMA StageTypes ==
    ASSUME TypeInv, NEW base \in Contexts, pv # None, NEW persisted \in ReadBack,
           StageNewVolume(base, persisted)
    PROVE  /\ ctx' \in Contexts /\ ctx' # None
           /\ mount' \in [context : Contexts, quota : {Quota(c) : c \in Sizes}]
           /\ mount'.quota = Quota(ctx'.cap)
           /\ mount'.context.params = Effective(base.params, persisted)
           /\ \/ ctx'.cap = size /\ UNCHANGED failed
              \/ failed' = failed \cup {"api"}
<1>1. persisted \in Params
  <2>1. Empty \in Params
    BY ClassAssumption, ParamsAssumption
  <2>2. store # None => store.params \in Params
    BY ParamsAssumption DEF TypeInv, TypeOK
  <2> QED
    BY <2>1, <2>2 DEF ReadBack, Persisted
<1>2. Effective(base.params, persisted) \in Params
  BY <1>1, ParamsClosed DEF Effective, Contexts
<1>3. PICK c \in {size, base.cap} :
        /\ Capacity(base, c)
        /\ ctx' = [params |-> Effective(base.params, persisted), cap |-> c]
        /\ mount' = [context |-> [params |-> Effective(base.params, persisted), cap |-> c],
                     quota |-> Quota(c)]
  BY DEF StageNewVolume
<1>4. c \in Sizes
  BY DEF TypeInv, TypeOK, Contexts
<1>5. ctx' \in Contexts
  BY <1>2, <1>3, <1>4 DEF Contexts
<1>6. mount' \in [context : Contexts, quota : {Quota(d) : d \in Sizes}]
  BY <1>2, <1>3, <1>4 DEF Contexts
<1>7. mount'.quota = Quota(ctx'.cap) /\ mount'.context.params = Effective(base.params, persisted)
  BY <1>3
<1>8. ctx' # None
  BY <1>5, NoneAssumption
<1> QED
  BY <1>3, <1>5, <1>6, <1>7, <1>8 DEF Capacity

LEMMA TypeStep ==
    ASSUME TypeInv, [Next]_vars
    PROVE  TypeInv'
<1> USE DEF TypeInv, TypeOK
<1>1. CASE CreateVolume
  <2>1. PICK static \in StaticParams, class \in ClassParams, c \in Sizes :
            pv' = [params |-> Merge(static, class), cap |-> c] /\ size' = c
    BY <1>1 DEF CreateVolume
  <2>2. pv' \in Contexts
    BY <2>1, ParamsClosed, ParamsAssumption DEF Contexts
  <2>3. created' = created + 1 /\ created' \in 0..MaxVolumes /\ 1..created \subseteq 1..created'
    BY <1>1, VolumesAssumption DEF CreateVolume
  <2> QED
    BY <1>1, <2>1, <2>2, <2>3 DEF CreateVolume, nodeVars
<1>2. CASE ModifyVolume
  BY <1>2 DEF ModifyVolume, Acceptable, nodeVars
<1>3. CASE ModifyWrites \/ ModifyFails
  BY <1>3 DEF ModifyWrites, ModifyFails, nodeVars
<1>4. CASE LateWrite
  BY <1>4 DEF LateWrite, nodeVars
<1>5. CASE DeleteVolume
  BY <1>5 DEF DeleteVolume, DeleteEntry, nodeVars
<1>6. CASE ControllerExpandVolume
  BY <1>6 DEF ControllerExpandVolume, nodeVars
<1>7. ASSUME NEW persisted \in ReadBack, NodeStage(persisted) PROVE TypeInv'
  <2>1. pv \in Contexts /\ pv # None
    BY <1>7 DEF NodeStage
  <2> QED
    BY <1>7, <2>1, StageTypes DEF NodeStage, controllerVars
<1>8. CASE NodeStageRebuilds
  BY <1>8 DEF NodeStageRebuilds, controllerVars
<1>9. CASE Recover
  <2>1. PICK persisted \in ReadBack : StageNewVolume(ctx, persisted)
    BY <1>9 DEF Recover
  <2>2. ctx \in Contexts /\ pv # None
    BY <1>9 DEF Recover
  <2> QED
    BY <1>9, <2>1, <2>2, StageTypes DEF Recover, controllerVars
<1>10. CASE NodeUnstage
  BY <1>10 DEF NodeUnstage, controllerVars
<1>11. CASE NodeExpand
  BY <1>11 DEF NodeExpand, controllerVars
<1>12. CASE SessionDies
  BY <1>12 DEF SessionDies, controllerVars
<1>13. CASE PluginRestart
  BY <1>13 DEF PluginRestart, controllerVars
<1>14. CASE UNCHANGED vars
  BY <1>14 DEF vars
<1> QED
  BY <1>1, <1>2, <1>3, <1>4, <1>5, <1>6, <1>7, <1>8, <1>9, <1>10, <1>11, <1>12, <1>13, <1>14
  DEF Next

LEMMA Typed == Spec => []TypeInv
<1>1. Init => TypeInv
  <2> SUFFICES ASSUME Init PROVE TypeInv
    OBVIOUS
  <2>1. TypeOK
    <3>1. created \in 0..MaxVolumes
      BY VolumesAssumption DEF Init
    <3>2. failed \subseteq {"store", "api", "lost"} /\ staged \in BOOLEAN
      BY DEF Init
    <3> QED
      BY <3>1, <3>2, Zenon DEF Init, TypeOK
  <2> QED
    BY <2>1 DEF Init, TypeInv
<1>2. TypeInv /\ [Next]_vars => TypeInv'
  BY TypeStep
<1> QED
  BY <1>1, <1>2, PTL DEF Spec

(* Type correctness: contexts keep the keys and values in use, no entry    *)
(* without parameters is ever persisted, no quota but that of a size set.  *)
THEOREM TypeCorrect == Spec => []TypeOK
<1>1. TypeInv => TypeOK
  BY DEF TypeInv
<1> QED
  BY <1>1, Typed, PTL

-----------------------------------------------------------------------------
(* A volume that is staged and was never lost from the map is in it; the   *)
(* last expansion asked for no more than the volume's present size.        *)
QuotaInv ==
    /\ "lost" \notin failed /\ staged => ctx # None
    /\ expanded # None => staged /\ expanded <= size
    /\ QuotaFollowsExpansion

LEMMA QuotaStep ==
    ASSUME TypeInv, QuotaInv, [Next]_vars
    PROVE  QuotaInv'
<1> USE SizesAssumption DEF QuotaInv, QuotaFollowsExpansion
<1>1. CASE CreateVolume
  BY <1>1 DEF CreateVolume, nodeVars, TypeInv
<1>2. CASE ModifyVolume \/ ModifyWrites \/ ModifyFails \/ LateWrite
  BY <1>2 DEF ModifyVolume, ModifyWrites, ModifyFails, LateWrite, nodeVars
<1>3. CASE DeleteVolume
  BY <1>3 DEF DeleteVolume, DeleteEntry, nodeVars
<1>4. CASE ControllerExpandVolume
  <2>1. PICK c \in Sizes : c > size /\ size' = c
    BY <1>4 DEF ControllerExpandVolume
  <2>2. size \in Nat /\ c \in Nat
    BY <1>4 DEF ControllerExpandVolume, TypeInv, TypeOK
  <2>3. ASSUME expanded # None PROVE expanded <= size'
    <3>1. expanded \in Nat /\ expanded <= size
      BY <2>3 DEF TypeInv, TypeOK
    <3> QED
      BY <2>1, <2>2, <3>1
  <2> QED
    BY <1>4, <2>3 DEF ControllerExpandVolume, nodeVars
<1>5. ASSUME NEW base \in Contexts, NEW persisted \in ReadBack, StageNewVolume(base, persisted),
             pv # None, UNCHANGED <<controllerVars, expanded>>, staged' = TRUE
      PROVE  QuotaInv'
  <2>1. /\ ctx' # None /\ mount'.quota = Quota(ctx'.cap)
        /\ \/ ctx'.cap = size /\ UNCHANGED failed
           \/ failed' = failed \cup {"api"}
    BY <1>5, StageTypes
  <2>2. size' = size /\ size \in Sizes
    BY <1>5 DEF controllerVars, TypeInv, TypeOK
  <2>3. expanded # None => expanded <= size
    OBVIOUS
  <2>4. Quota(size) = 0 \/ Quota(size) = size
    BY DEF Quota
  <2> QED
    BY <1>5, <2>1, <2>2, <2>3, <2>4
<1>6. ASSUME NEW persisted \in ReadBack, NodeStage(persisted) PROVE QuotaInv'
  BY <1>5, <1>6 DEF NodeStage, TypeInv, TypeOK
<1>7. CASE Recover
  <2>1. ctx \in Contexts /\ pv # None /\ staged
    BY <1>7 DEF Recover, TypeInv, TypeOK
  <2> QED
    BY <1>5, <1>7, <2>1 DEF Recover
<1>8. CASE NodeStageRebuilds
  BY <1>8 DEF NodeStageRebuilds, controllerVars
<1>9. CASE NodeUnstage
  BY <1>9 DEF NodeUnstage
<1>10. CASE NodeExpand
  <2>1. size \in Sizes /\ size' = size /\ expanded' = size /\ UNCHANGED <<ctx, staged, failed>>
    BY <1>10 DEF NodeExpand, TypeInv, TypeOK, controllerVars
  <2>2. CASE ctx # None /\ mount # None /\ mount' = [mount EXCEPT !.quota = Quota(size)]
    <3>1. mount'.quota = Quota(size)
      BY <2>2 DEF TypeInv, TypeOK
    <3> QED
      BY <1>10, <2>1, <3>1 DEF NodeExpand, Quota
  <2>3. CASE ctx = None /\ UNCHANGED mount
    BY <1>10, <2>1, <2>3 DEF NodeExpand
  <2> QED
    BY <1>10, <2>2, <2>3 DEF NodeExpand
<1>11. CASE SessionDies
  BY <1>11 DEF SessionDies, controllerVars
<1>12. CASE PluginRestart
  <2>1. mount # None => mount.context # None
    BY NoneAssumption DEF TypeInv, TypeOK
  <2> QED
    BY <1>12, <2>1 DEF PluginRestart, controllerVars
<1>13. CASE UNCHANGED vars
  BY <1>13 DEF vars
<1> QED
  BY <1>1, <1>2, <1>3, <1>4, <1>6, <1>7, <1>8, <1>9, <1>10, <1>11, <1>12, <1>13 DEF Next

(* The quota of the running mount is never below the last expansion that   *)
(* NodeExpandVolume reported as done: a recovery takes the capacity from   *)
(* the API, and the volume's size only grows while it is staged.           *)
THEOREM QuotaKept == Spec => []QuotaFollowsExpansion
<1>1. Init => QuotaInv
  BY DEF Init, QuotaInv, QuotaFollowsExpansion
<1>2. TypeInv /\ QuotaInv /\ [Next]_vars => QuotaInv'
  BY QuotaStep
<1>3. QuotaInv => QuotaFollowsExpansion
  BY DEF QuotaInv
<1> QED
  BY <1>1, <1>2, <1>3, Typed, PTL DEF Spec

-----------------------------------------------------------------------------
(* The accepted class is what the filer holds, and it is mutable, as is    *)
(* the class a Modify is about to write.                                   *)
AcceptedInv ==
    /\ accepted # None =>
        /\ store # None /\ store.params = accepted
        /\ accepted \in Params /\ DOMAIN accepted \subseteq MutableKeys
    /\ modify # None => modify.params \in Params /\ DOMAIN modify.params \subseteq MutableKeys

LEMMA AcceptedStep ==
    ASSUME TypeInv, AcceptedInv, [Next]_vars
    PROVE  AcceptedInv'
<1> USE DEF AcceptedInv
<1>1. CASE ModifyVolume
  <2>1. PICK class \in ClassParams :
            Acceptable(class) /\ modify' = [params |-> class, owner |-> created]
    BY <1>1 DEF ModifyVolume
  <2>2. class \in Params /\ DOMAIN class \subseteq MutableKeys
    BY <2>1, ParamsAssumption DEF Acceptable, ValidMutable
  <2> QED
    BY <1>1, <2>1, <2>2 DEF ModifyVolume
<1>2. CASE ModifyWrites
  BY <1>2 DEF ModifyWrites
<1>3. CASE CreateVolume \/ ModifyFails \/ LateWrite \/ DeleteVolume
  BY <1>3 DEF CreateVolume, ModifyFails, LateWrite, DeleteVolume
<1>4. CASE ControllerExpandVolume
  BY <1>4 DEF ControllerExpandVolume
<1>5. ASSUME \/ \E persisted \in ReadBack : NodeStage(persisted)
             \/ NodeStageRebuilds \/ Recover \/ NodeUnstage \/ NodeExpand
             \/ SessionDies \/ PluginRestart \/ UNCHANGED vars
      PROVE  UNCHANGED <<accepted, store, modify>>
  BY <1>5 DEF NodeStage, NodeStageRebuilds, Recover, NodeUnstage, NodeExpand, SessionDies,
              PluginRestart, vars, controllerVars
<1> QED
  BY <1>1, <1>2, <1>3, <1>4, <1>5 DEF Next

(* A stage that can read the filer mounts with exactly the class that the  *)
(* last successful ControllerModifyVolume accepted, over the PV's own      *)
(* parameters.                                                             *)
THEOREM StageIsExact == Spec => StageAppliesClass
<1>1. Init => AcceptedInv
  BY DEF Init, AcceptedInv
<1>2. TypeInv /\ AcceptedInv /\ [Next]_vars => AcceptedInv'
  BY AcceptedStep
<1>3. TypeInv /\ AcceptedInv /\ [Next]_vars =>
        [NodeStage(Persisted) /\ accepted # None
            => mount'.context.params = Merge(pv.params, accepted)]_vars
  <2> SUFFICES ASSUME TypeInv, AcceptedInv, NodeStage(Persisted), accepted # None
               PROVE  mount'.context.params = Merge(pv.params, accepted)
    OBVIOUS
  <2>1. Persisted = accepted /\ Persisted \in ReadBack
    BY DEF AcceptedInv, Persisted, ReadBack
  <2>2. mount'.context.params = Effective(pv.params, accepted)
    BY <2>1, StageTypes DEF NodeStage, TypeInv, TypeOK
  <2>3. MutablePart(accepted) = accepted
    BY DEF AcceptedInv, MutablePart, Params
  <2> QED
    BY <2>2, <2>3 DEF Effective
<1> QED
  BY <1>1, <1>2, <1>3, Typed, PTL DEF Spec, StageAppliesClass
=============================================================================
