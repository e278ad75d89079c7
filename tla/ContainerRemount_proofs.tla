----------------------- MODULE ContainerRemount_proofs -----------------------
(***************************************************************************)
(* Safety of the repair of container mounts, for any pod: any volumes,     *)
(* containers, mount points, FUSE sessions and faults.  The argument: the  *)
(* sessions that something is mounted from have different device numbers,  *)
(* a session nothing is mounted from never comes back, and while the old   *)
(* number is used as a key only sessions that are newer than the key can   *)
(* have taken it over.                                                     *)
(***************************************************************************)
EXTENDS ContainerRemount, TLAPS

(* Something is mounted from the session.                                  *)
InUse(s) ==
    \/ \E v \in Vols : staging[v] = s \/ bind[v] = s
    \/ \E m \in Mounts : cont[m].of = s

(* A volume's paths show sessions of its own, and only the staged one can  *)
(* be alive.                                                               *)
HostInv ==
    \A v \in Vols :
        /\ staging[v] # Bare => session[staging[v]].vol = v
        /\ bind[v] # Bare => session[bind[v]].vol = v
        /\ Healthy(bind[v]) => staging[v] = bind[v]

DeviceInv ==
    \A s, t \in 1..last : InUse(s) /\ InUse(t) /\ session[s].dev = session[t].dev => s = t

(* What a recovery knows of the session whose number it goes by: it is     *)
(* dead, and of the sessions that are as old and still in use it alone has *)
(* the number.                                                             *)
KnownKey(v) ==
    LET t == task[v] IN
    /\ t.key = Device(t.was) /\ t.was <= t.seen
    /\ t.was # Bare =>
        /\ session[t.was].vol = v /\ ~session[t.was].up
        /\ \A s \in 1..t.seen : InUse(s) /\ s # t.was => session[s].dev # session[t.was].dev

KeyInv(v) ==
    LET t == task[v] IN
    /\ t.pc = "idle" => ~t.keyed
    /\ t.pc = "stage" => t.keyed /\ ~Healthy(staging[v])
    /\ t.keyed =>
        /\ KnownKey(v)
        /\ t.pc # "stage" => staging[v] = Bare \/ staging[v] > t.seen
        /\ t.pc \in {"ns", "mounts", "ro"} => t.was # Bare

(* Where mounts of the old session may be left.                            *)
RepairInv(v) ==
    LET t == task[v] IN
    t.keyed /\ ~t.failed /\ t.pc \in {"ns", "mounts", "ro"} =>
        \A m \in Mounts : cont[m].of = t.was =>
            In[m] \in t.pids \/ (t.pc # "ns" /\ \E e \in t.todo : e.at = m)

(* What a task read from mountinfo has the root of its mount point.        *)
EntryInv == \A v \in Vols : \A e \in task[v].todo : e.root = RootOf[e.at]

IInv ==
    /\ TypeOK /\ HostInv /\ DeviceInv /\ EntryInv /\ SubPathKept /\ ReadOnlyKept
    /\ \A v \in Vols : KeyInv(v) /\ RepairInv(v)
-----------------------------------------------------------------------------
(* The steps of one volume.                                                *)
Step(v) ==
    \/ Recover(v) \/ Stage(v) \/ StageFails(v) \/ Retry(v) \/ TearDown(v) \/ Rebind(v)
    \/ Namespace(v) \/ EachMount(v) \/ MakeReadOnly(v)
    \/ Die(v) \/ Reap(v)

Devs == [vol : Sessions, dev : Devices, up : BOOLEAN]

LEMMA Widening ==
    ASSUME last \in Nat, last' \in Nat, last <= last'
    PROVE  Tasks \subseteq Tasks' /\ Points \subseteq Points' /\ 0..last \subseteq 0..last'
<1>1. 0..last \subseteq 0..last'
  OBVIOUS
<1>2. Points \subseteq Points'
  BY <1>1 DEF Points
<1>3. Tasks \subseteq Tasks'
  BY <1>1 DEF Tasks
<1> QED
  BY <1>1, <1>2, <1>3

LEMMA TaskObjects ==
    ASSUME TypeOK
    PROVE  /\ Idle \in Tasks /\ Unmounted \in Points
           /\ \A v \in Vols : Device(staging[v]) \in 0..MaxSessions /\ Device(bind[v]) \in 0..MaxSessions
           /\ \A m \in Mounts : Device(cont[m].of) \in 0..MaxSessions
<1>1. last \in Nat /\ 0 \in 0..last /\ 0 \in 0..MaxSessions
  BY BoundsAssumption DEF TypeOK
<1>2. Idle \in Tasks
  BY <1>1 DEF Idle, Tasks, Bare
<1>3. Unmounted \in Points
  BY <1>1 DEF Unmounted, Points, Roots, Bare
<1>4. ASSUME NEW s \in 0..last PROVE Device(s) \in 0..MaxSessions
  BY <1>1, BoundsAssumption DEF TypeOK, Device, Bare, Sessions, Devices
<1>5. \A m \in Mounts : cont[m].of \in 0..last
  BY DEF TypeOK, Points
<1> QED
  BY <1>2, <1>3, <1>4, <1>5 DEF TypeOK

LEMMA TypeStep ==
    ASSUME TypeOK, NEW v \in Vols, Step(v)
    PROVE  TypeOK'
<1>0. /\ session \in [Sessions -> Devs] /\ last \in 0..MaxSessions /\ faults \in 0..MaxFaults
      /\ staging \in [Vols -> 0..last] /\ bind \in [Vols -> 0..last]
      /\ cont \in [Mounts -> Points] /\ task \in [Vols -> Tasks] /\ exposed \subseteq Mounts
      /\ plain \subseteq Vols
      /\ Vols \subseteq Sessions /\ 0 \in 0..last /\ last \in Nat
  <2>1. last \in 0..MaxSessions
    BY DEF TypeOK
  <2>2. Vols \subseteq Sessions /\ 0 \in 0..last /\ last \in Nat
    BY <2>1, BoundsAssumption DEF Vols, Sessions
  <2> QED
    BY <2>2 DEF TypeOK, Devs
<1> SUFFICES
      /\ session' \in [Sessions -> Devs] /\ last' \in 0..MaxSessions /\ faults' \in 0..MaxFaults
      /\ staging' \in [Vols -> 0..last'] /\ bind' \in [Vols -> 0..last']
      /\ cont' \in [Mounts -> Points'] /\ task' \in [Vols -> Tasks'] /\ exposed' \subseteq Mounts
      /\ plain' \subseteq Vols
  BY DEF TypeOK, Devs
<1> USE BoundsAssumption
<1>1. last' = last => Tasks' = Tasks /\ Points' = Points
  BY DEF Tasks, Points
<1>2. ASSUME NEW l \in {"idle", "stage", "tear", "bind", "ns", "mounts", "ro"}
      PROVE  [task[v] EXCEPT !.pc = l] \in Tasks
  BY <1>0 DEF Tasks
<1>3. Fault => faults' \in 0..MaxFaults
  BY <1>0 DEF Fault
<1>4. CASE Recover(v)
  <2> DEFINE old == IF staging[v] # Bare THEN staging[v] ELSE bind[v]
             t == [Idle EXCEPT !.pc = "stage", !.keyed = TRUE, !.key = Device(old), !.was = old, !.seen = last]
  <2>1. old \in 0..last /\ Device(old) \in 0..MaxSessions
    BY <1>0, TaskObjects
  <2> HIDE DEF old
  <2>2. t \in Tasks
    <3>1. ASSUME NEW r \in Tasks, NEW k \in 0..MaxSessions, NEW o \in 0..last, NEW n \in 0..last
          PROVE  [r EXCEPT !.pc = "stage", !.keyed = TRUE, !.key = k, !.was = o, !.seen = n] \in Tasks
      <4>1. [r EXCEPT !.pc = "stage", !.keyed = TRUE] \in Tasks
        BY DEF Tasks
      <4>2. \A q \in Tasks : [q EXCEPT !.key = k, !.was = o, !.seen = n] \in Tasks
        BY DEF Tasks
      <4> QED
        BY <4>1, <4>2
    <3>2. last \in 0..last /\ Idle \in Tasks
      BY <1>0, TaskObjects
    <3> QED
      BY <2>1, <3>1, <3>2, Zenon
  <2>3. task' = [task EXCEPT ![v] = t]
    BY <1>4 DEF Recover, Set, old
  <2> HIDE DEF t
  <2> QED
    BY <1>0, <1>1, <1>4, <2>2, <2>3 DEF Recover, hostVars
<1>5. ASSUME MountNew(v), NEW t \in Tasks, task' = [task EXCEPT ![v] = t],
             UNCHANGED <<bind, plain, cont, exposed>>, faults' \in 0..MaxFaults
      PROVE  TypeOK'
  <2>1. last' = last + 1 /\ last < MaxSessions
    BY <1>5 DEF MountNew
  <2>2. PICK d \in Devices : session' = [session EXCEPT ![last + 1] = [vol |-> v, dev |-> d, up |-> TRUE]]
    BY <1>5 DEF MountNew
  <2>3. session' \in [Sessions -> Devs]
    BY <1>0, <2>2 DEF Devs
  <2>4. staging' = [staging EXCEPT ![v] = last + 1]
    BY <1>5 DEF MountNew
  <2>6. Tasks \subseteq Tasks' /\ Points \subseteq Points' /\ 0..last \subseteq 0..last'
    BY <1>0, <2>1, Widening
  <2>7. task' \in [Vols -> Tasks'] /\ cont' \in [Mounts -> Points']
    BY <1>0, <1>5, <2>6
  <2>8. staging' \in [Vols -> 0..last'] /\ bind' \in [Vols -> 0..last']
    BY <1>0, <1>5, <2>1, <2>4, <2>6
  <2>9. last' \in 0..MaxSessions
    BY <1>0, <2>1
  <2> QED
    BY <1>0, <1>5, <2>3, <2>7, <2>8, <2>9 DEF TypeOK, Devs
<1>5a. CASE Stage(v)
  BY <1>0, <1>2, <1>5, <1>5a DEF Stage, Goto, Set, TypeOK, Devs
<1>6. CASE StageFails(v)
  <2>1. CASE MountNew(v)
    BY <1>0, <1>3, <1>5, <1>6, <2>1, TaskObjects DEF StageFails, Set, TypeOK, Devs
  <2>2. CASE staging' = Unstaged(v) /\ UNCHANGED <<session, last>>
    BY <1>0, <1>1, <1>3, <1>6, <2>2, TaskObjects DEF StageFails, Unstaged, Set, Bare
  <2> QED
    BY <1>6, <2>1, <2>2 DEF StageFails
<1>7. CASE Retry(v)
  BY <1>0, <1>1, <1>2, <1>7 DEF Retry, Goto, Set, hostVars
<1>8. CASE TearDown(v)
  BY <1>0, <1>1, <1>2, <1>3, <1>8, TaskObjects DEF TearDown, Goto, Set, Bare
<1>9. CASE Rebind(v)
  <2> DEFINE key == IF task[v].keyed THEN task[v].key ELSE Device(staging[v])
             t == [task[v] EXCEPT !.pc = "ns", !.key = key, !.pids = Containers]
  <2>1. key \in 0..MaxSessions
    BY <1>0, TaskObjects DEF Tasks
  <2> HIDE DEF key
  <2>2. t \in Tasks
    BY <1>0, <2>1 DEF Tasks
  <2>3. task' = [task EXCEPT ![v] = t] \/ task' = [task EXCEPT ![v] = Idle]
    BY <1>9 DEF Rebind, Set, key
  <2> HIDE DEF t
  <2>4. task' \in [Vols -> Tasks]
    BY <1>0, <2>2, <2>3, TaskObjects
  <2> QED
    BY <1>0, <1>1, <1>3, <1>9, <2>4 DEF Rebind, FaultOrGone
<1>10. CASE Namespace(v)
  <2>1. task' \in [Vols -> Tasks]
    <3>1. \A c : Matches(v, c) \subseteq Entries
      BY <1>0 DEF Matches, AsEntries, Listed, Entries, Points
    <3>2. \A c, f : f \in {Matches(v, c), {}} => f \in SUBSET Entries
      BY <3>1
    <3>3. \A c, f : f \in SUBSET Entries =>
              /\ [[task[v] EXCEPT !.pc = "mounts", !.pids = @ \ {c}] EXCEPT !.todo = f] \in Tasks
              /\ [[task[v] EXCEPT !.pc = "mounts", !.pids = @ \ {c}] EXCEPT !.todo = f, !.failed = TRUE] \in Tasks
      BY <1>0 DEF Tasks
    <3>4. PICK r \in Tasks : task' = [task EXCEPT ![v] = r]
      BY <1>10, <3>2, <3>3, TaskObjects, Zenon DEF Namespace, Set
    <3> QED
      BY <1>0, <3>4
  <2> QED
    BY <1>0, <1>1, <1>3, <1>10, <2>1 DEF Namespace, hostVars
<1>11. CASE EachMount(v)
  <2>1. CASE task[v].todo = {} /\ Goto(v, "ns") /\ UNCHANGED <<cont, exposed, faults>>
    BY <1>0, <1>1, <1>2, <1>11, <2>1 DEF EachMount, Goto, Set, hostVars
  <2>2. ASSUME NEW e \in task[v].todo, Skip(v, e) \/ Replace(v, e)
        PROVE  /\ task' \in [Vols -> Tasks] /\ cont' \in [Mounts -> Points] /\ exposed' \subseteq Mounts
               /\ faults' \in 0..MaxFaults
    <3>1. e.at \in Mounts /\ e.root \in Roots
      BY <1>0 DEF Tasks, Entries
    <3> DEFINE t == [task[v] EXCEPT !.todo = @ \ {e}]
    <3>2. t \in Tasks /\ [t EXCEPT !.failed = TRUE] \in Tasks
      BY <1>0 DEF Tasks
    <3>3. [t EXCEPT !.pc = "ro", !.lock = {e.at}] \in Tasks
      BY <3>1, <3>2 DEF Tasks
    <3> HIDE DEF t
    <3>4. [of |-> staging[v], root |-> Source(e), ro |-> FALSE] \in Points
      BY <1>0, <3>1 DEF Points, Source
    <3>5. task' = [task EXCEPT ![v] = t] \/ task' = [task EXCEPT ![v] = [t EXCEPT !.failed = TRUE]]
              \/ task' = [task EXCEPT ![v] = [t EXCEPT !.pc = "ro", !.lock = {e.at}]]
      BY <2>2 DEF Skip, Replace, Set, t
    <3>6. cont' = cont \/ cont' = [cont EXCEPT ![e.at] = Unmounted]
              \/ cont' = [cont EXCEPT ![e.at] = [of |-> staging[v], root |-> Source(e), ro |-> FALSE]]
      BY <2>2 DEF Skip, Replace
    <3>7. exposed' \subseteq Mounts /\ faults' \in 0..MaxFaults
      BY <1>0, <1>3, <2>2, <3>1 DEF Skip, Replace, FaultOrGone
    <3>8. task' \in [Vols -> Tasks]
      BY <1>0, <3>2, <3>3, <3>5
    <3>9. cont' \in [Mounts -> Points]
      BY <1>0, <3>1, <3>4, <3>6, TaskObjects
    <3> QED
      BY <3>7, <3>8, <3>9
  <2> QED
    BY <1>0, <1>1, <1>11, <2>1, <2>2 DEF EachMount, hostVars
<1>12. CASE MakeReadOnly(v)
  <2>1. [task[v] EXCEPT !.pc = "mounts", !.lock = {}] \in Tasks
    BY <1>0 DEF Tasks
  <2>2. \A m \in Mounts : [cont[m] EXCEPT !.ro = TRUE] \in Points
    BY <1>0 DEF Points
  <2> QED
    BY <1>0, <1>1, <1>3, <1>12, <2>1, <2>2 DEF MakeReadOnly, Set, hostVars
<1>13. CASE Die(v)
  <2>1. session' \in [Sessions -> Devs]
    BY <1>0, <1>13 DEF Die, Devs
  <2> QED
    BY <1>0, <1>1, <1>13, <2>1 DEF Die
<1>14. CASE Reap(v)
  BY <1>0, <1>1, <1>14 DEF Reap, Unstaged, Bare
<1> QED
  BY <1>4, <1>5a, <1>6, <1>7, <1>8, <1>9, <1>10, <1>11, <1>12, <1>13, <1>14 DEF Step

-----------------------------------------------------------------------------
(* What a step of one volume can do to the mounts: containers get the      *)
(* volume's staging mount or nothing, and the paths of the other volumes   *)
(* and what their tasks know are left alone.                               *)
LEMMA MountsOfStep ==
    ASSUME TypeOK, NEW v \in Vols, Step(v)
    PROVE  /\ staging' \in {staging, [staging EXCEPT ![v] = Bare], [staging EXCEPT ![v] = last + 1]}
           /\ bind' \in {bind, [bind EXCEPT ![v] = Bare], [bind EXCEPT ![v] = staging[v]]}
           /\ \A m \in Mounts : cont'[m].of \in {cont[m].of, Bare, staging[v]}
           /\ \E t : task' = [task EXCEPT ![v] = t]
           /\ last' \in {last, last + 1}
           /\ last' # last => MountNew(v) /\ UNCHANGED <<bind, cont>> /\ task[v].pc = "stage"
<1>0. /\ cont \in [Mounts -> Points] /\ task \in [Vols -> Tasks] /\ staging \in [Vols -> 0..last]
      /\ task = [task EXCEPT ![v] = task[v]] /\ last \in Nat
  BY BoundsAssumption DEF TypeOK
<1>1. CASE Recover(v) \/ Retry(v) \/ Namespace(v)
  BY <1>0, <1>1 DEF Recover, Retry, Namespace, Goto, Set, hostVars
<1>2. CASE Stage(v)
  BY <1>0, <1>2 DEF Stage, MountNew, Goto, Set
<1>3. CASE StageFails(v) \/ Reap(v) \/ Die(v)
  BY <1>0, <1>3 DEF StageFails, MountNew, Reap, Die, Set, Unstaged, Bare
<1>4. CASE TearDown(v) \/ Rebind(v)
  BY <1>0, <1>4 DEF TearDown, Rebind, Goto, Set
<1>5. CASE EachMount(v)
  <2>1. UNCHANGED <<staging, bind, last>>
    BY <1>5 DEF EachMount, hostVars
  <2>2. \E t : task' = [task EXCEPT ![v] = t]
    BY <1>5 DEF EachMount, Skip, Replace, Goto, Set
  <2>3. \A m \in Mounts : cont'[m].of \in {cont[m].of, Bare, staging[v]}
    <3>1. CASE UNCHANGED cont
      BY <3>1
    <3>2. ASSUME NEW e \in task[v].todo, Replace(v, e), NEW m \in Mounts
          PROVE  cont'[m].of \in {cont[m].of, Bare, staging[v]}
      <4>1. \/ cont' = cont
            \/ cont' = [cont EXCEPT ![e.at] = Unmounted]
            \/ cont' = [cont EXCEPT ![e.at] = [of |-> staging[v], root |-> Source(e), ro |-> FALSE]]
        BY <3>2 DEF Replace
      <4> QED
        BY <1>0, <4>1 DEF Unmounted
    <3> QED
      BY <1>5, <3>1, <3>2 DEF EachMount, Skip
  <2> QED
    BY <1>0, <2>1, <2>2, <2>3
<1>6. CASE MakeReadOnly(v)
  <2>1. UNCHANGED <<staging, bind, last>>
    BY <1>6 DEF MakeReadOnly, hostVars
  <2>2. \A m \in Mounts : cont'[m].of = cont[m].of
    BY <1>0, <1>6 DEF MakeReadOnly, Points
  <2> QED
    BY <1>0, <1>6, <2>1, <2>2 DEF MakeReadOnly, Set
<1> QED
  BY <1>1, <1>2, <1>3, <1>4, <1>5, <1>6 DEF Step

(* A session keeps its volume and its number; death is final; and what is  *)
(* no longer mounted anywhere stays so.                                    *)
LEMMA Growth ==
    ASSUME TypeOK, NEW v \in Vols, Step(v)
    PROVE  /\ \A s \in 1..last :
                /\ session'[s].vol = session[s].vol /\ session'[s].dev = session[s].dev
                /\ session'[s].up => session[s].up
                /\ InUse(s)' => InUse(s)
           /\ \A w \in Vols : w # v => task'[w] = task[w] /\ staging'[w] = staging[w] /\ bind'[w] = bind[w]
<1>0. /\ session \in [Sessions -> Devs] /\ task \in [Vols -> Tasks] /\ last \in Nat /\ 1..last \subseteq Sessions
      /\ staging \in [Vols -> 0..last] /\ bind \in [Vols -> 0..last]
  BY BoundsAssumption DEF TypeOK, Devs, Sessions
<1>1. \A w \in Vols : w # v => task'[w] = task[w] /\ staging'[w] = staging[w] /\ bind'[w] = bind[w]
  BY <1>0, MountsOfStep
<1>2. ASSUME NEW s \in 1..last
      PROVE  /\ session'[s].vol = session[s].vol /\ session'[s].dev = session[s].dev
             /\ session'[s].up => session[s].up
  <2>1. CASE MountNew(v)
    <3>1. PICK d \in Devices : session' = [session EXCEPT ![last + 1] = [vol |-> v, dev |-> d, up |-> TRUE]]
      BY <2>1 DEF MountNew
    <3> QED
      BY <1>0, <3>1
  <2>2. CASE Die(v)
    BY <1>0, <2>2 DEF Die, Devs
  <2>3. CASE UNCHANGED session
    BY <2>3
  <2>4. MountNew(v) \/ Die(v) \/ UNCHANGED session
    BY DEF Step, Recover, Stage, StageFails, Retry, TearDown, Rebind, Namespace, EachMount, MakeReadOnly, Reap, hostVars
  <2> QED
    BY <2>1, <2>2, <2>3, <2>4
<1>3. ASSUME NEW s \in 1..last, InUse(s)' PROVE InUse(s)
  <2>1. s # Bare /\ s # last + 1
    BY <1>0 DEF Bare
  <2>2. ASSUME NEW w \in Vols, staging'[w] = s PROVE staging[w] = s
    BY <1>0, <2>1, <2>2, MountsOfStep
  <2>3. ASSUME NEW w \in Vols, bind'[w] = s PROVE bind[w] = s \/ staging[w] = s
    BY <1>0, <2>1, <2>3, MountsOfStep
  <2>4. ASSUME NEW m \in Mounts, cont'[m].of = s PROVE cont[m].of = s \/ staging[v] = s
    BY <2>1, <2>4, MountsOfStep
  <2> QED
    BY <1>3, <2>2, <2>3, <2>4 DEF InUse
<1> QED
  BY <1>1, <1>2, <1>3

LEMMA InUseTyped ==
    ASSUME TypeOK, NEW s, InUse(s)
    PROVE  s \in 0..last
BY DEF TypeOK, InUse, Points

(* The kernel gives a new session a number that nothing mounted has.       *)
LEMMA DeviceStep ==
    ASSUME TypeOK, TypeOK', DeviceInv, NEW v \in Vols, Step(v)
    PROVE  DeviceInv'
<1>0. last \in Nat /\ session \in [Sessions -> Devs] /\ 1..last \subseteq Sessions
  <2>1. session \in [Sessions -> Devs] /\ last \in 0..MaxSessions
    BY DEF TypeOK, Devs
  <2> QED
    BY <2>1, BoundsAssumption DEF Sessions
<1>1. CASE last' = last
  BY <1>1, Growth DEF DeviceInv
<1>2. CASE MountNew(v) /\ UNCHANGED <<bind, cont>>
  <2>1. PICK d \in Devices \ Taken(Unstaged(v)) :
            session' = [session EXCEPT ![last + 1] = [vol |-> v, dev |-> d, up |-> TRUE]]
    BY <1>2 DEF MountNew
  <2>2. last + 1 \in Sessions /\ last' = last + 1
    BY <1>0, <1>2, BoundsAssumption DEF MountNew, Sessions
  <2>3. session'[last + 1].dev = d
    BY <1>0, <2>1, <2>2
  <2>4. /\ staging \in [Vols -> 0..last] /\ staging' = [staging EXCEPT ![v] = last + 1]
        /\ UNCHANGED <<bind, cont>>
    BY <1>2 DEF MountNew, TypeOK
  <2>5. ASSUME NEW s \in 1..last, InUse(s)' PROVE session[s].dev # d
    <3>1. s # Bare /\ s # last + 1 /\ Device(s) = session[s].dev
      BY <1>0 DEF Bare, Device
    <3>2. CASE \E w \in Vols : staging'[w] = s
      <4>1. PICK w \in Vols : staging'[w] = s
        BY <3>2
      <4>2. w # v /\ staging[w] = s
        BY <2>4, <3>1, <4>1
      <4>3. Unstaged(v)[w] = s
        BY <2>4, <4>2 DEF Unstaged
      <4> QED
        BY <2>1, <3>1, <4>3 DEF Taken
    <3>3. CASE \E w \in Vols : bind'[w] = s
      BY <2>1, <2>4, <3>1, <3>3 DEF Taken
    <3>4. CASE \E m \in Mounts : cont'[m].of = s
      BY <2>1, <2>4, <3>1, <3>4 DEF Taken
    <3> QED
      BY <2>5, <3>2, <3>3, <3>4 DEF InUse
  <2>6. \A s \in 1..last : session'[s].dev = session[s].dev /\ (InUse(s)' => InUse(s))
    BY Growth
  <2> QED
    BY <1>0, <2>2, <2>3, <2>5, <2>6 DEF DeviceInv
<1> QED
  BY <1>1, <1>2, MountsOfStep

(* The fields of a task after each step: the ones it does not set stay.    *)
SameKey(t, u) == u.keyed = t.keyed /\ u.was = t.was /\ u.seen = t.seen

LEMMA TaskAfterHostStep ==
    ASSUME TypeOK, NEW v \in Vols
    PROVE  LET t == task[v] u == task'[v] old == IF staging[v] # Bare THEN staging[v] ELSE bind[v] IN
           /\ Recover(v) => /\ u.pc = "stage" /\ u.keyed /\ u.key = Device(old) /\ u.was = old
                            /\ u.seen = last /\ u.todo = {}
           /\ Stage(v) \/ Retry(v) =>
                 u.pc = "tear" /\ SameKey(t, u) /\ u.key = t.key /\ u.todo = t.todo
           /\ StageFails(v) => u = Idle
           /\ TearDown(v) => u = Idle \/ (u.pc = "bind" /\ SameKey(t, u) /\ u.key = t.key /\ u.todo = t.todo)
           /\ Rebind(v) =>
                 \/ u = Idle
                 \/ /\ u.pc = "ns" /\ SameKey(t, u) /\ u.todo = t.todo /\ u.pids = Containers
                    /\ t.keyed => u.key = t.key
                    /\ u.key # Bare
           /\ Die(v) \/ Reap(v) => u = t
<1>0. task \in [Vols -> Tasks] /\ task[v] \in Tasks
  BY DEF TypeOK
<1>1. \A x : Set(v, x) => task'[v] = x
  BY <1>0 DEF Set
<1> DEFINE old == IF staging[v] # Bare THEN staging[v] ELSE bind[v]
           r == [Idle EXCEPT !.pc = "stage", !.keyed = TRUE, !.key = Device(old), !.was = old, !.seen = last]
           key == IF task[v].keyed THEN task[v].key ELSE Device(staging[v])
           b == [task[v] EXCEPT !.pc = "ns", !.key = key, !.pids = Containers]
<1> HIDE DEF old, key
<1>2. r.pc = "stage" /\ r.keyed /\ r.key = Device(old) /\ r.was = old /\ r.seen = last /\ r.todo = {}
  BY DEF Idle
<1>3. Recover(v) => task'[v] = r
  BY <1>1 DEF Recover, old
<1>4. \A l : LET u == [task[v] EXCEPT !.pc = l] IN
             u.pc = l /\ SameKey(task[v], u) /\ u.key = task[v].key /\ u.todo = task[v].todo
  BY <1>0 DEF Tasks, SameKey
<1>5. Stage(v) \/ Retry(v) => task'[v] = [task[v] EXCEPT !.pc = "tear"]
  BY <1>1 DEF Stage, Retry, Goto
<1>6. TearDown(v) => task'[v] = Idle \/ task'[v] = [task[v] EXCEPT !.pc = "bind"]
  BY <1>1 DEF TearDown, Goto
<1>7. Rebind(v) => task'[v] = Idle \/ (task'[v] = b /\ key # Bare)
  BY <1>1 DEF Rebind, key
<1>8. /\ b.pc = "ns" /\ SameKey(task[v], b) /\ b.todo = task[v].todo /\ b.pids = Containers /\ b.key = key
      /\ task[v].keyed => b.key = task[v].key
  BY <1>0 DEF Tasks, SameKey, key
<1>9. StageFails(v) => task'[v] = Idle
  BY <1>1 DEF StageFails
<1>10. Die(v) \/ Reap(v) => task'[v] = task[v]
  BY DEF Die, Reap
<1> HIDE DEF r, b
<1>11. Recover(v) => LET u == task'[v] IN /\ u.pc = "stage" /\ u.keyed /\ u.key = Device(old) /\ u.was = old
                            /\ u.seen = last /\ u.todo = {}
  BY <1>2, <1>3
<1>12. Stage(v) \/ Retry(v) => LET t == task[v] u == task'[v] IN
                 u.pc = "tear" /\ SameKey(t, u) /\ u.key = t.key /\ u.todo = t.todo
  BY <1>4, <1>5
<1>13. TearDown(v) => LET t == task[v] u == task'[v] IN
                 u = Idle \/ (u.pc = "bind" /\ SameKey(t, u) /\ u.key = t.key /\ u.todo = t.todo)
  BY <1>4, <1>6
<1>14. Rebind(v) => LET t == task[v] u == task'[v] IN
                 \/ u = Idle
                 \/ /\ u.pc = "ns" /\ SameKey(t, u) /\ u.todo = t.todo /\ u.pids = Containers
                    /\ t.keyed => u.key = t.key
                    /\ u.key # Bare
  BY <1>7, <1>8
<1> QED
  BY <1>9, <1>10, <1>11, <1>12, <1>13, <1>14 DEF old

LEMMA TaskAfterContainerStep ==
    ASSUME TypeOK, NEW v \in Vols
    PROVE  LET t == task[v] u == task'[v] IN
           /\ Namespace(v) =>
                 \/ u = Idle /\ t.pids = {}
                 \/ \E c \in t.pids :
                      /\ u.pc = "mounts" /\ SameKey(t, u) /\ u.key = t.key /\ u.pids = t.pids \ {c}
                      /\ \/ u.todo = Matches(v, c) /\ u.failed = t.failed
                         \/ u.todo = {} /\ u.failed
           /\ Goto(v, "ns") => /\ u.pc = "ns" /\ SameKey(t, u) /\ u.key = t.key /\ u.pids = t.pids
                               /\ u.todo = t.todo /\ u.failed = t.failed
           /\ \A e : Skip(v, e) \/ Replace(v, e) =>
                 /\ SameKey(t, u) /\ u.key = t.key /\ u.pids = t.pids /\ u.todo = t.todo \ {e}
                 /\ u.pc \in {t.pc, "ro"}
                 /\ u.failed \/ u.failed = t.failed
           /\ MakeReadOnly(v) =>
                 /\ u.pc = "mounts" /\ SameKey(t, u) /\ u.key = t.key /\ u.pids = t.pids
                 /\ u.todo = t.todo /\ u.failed = t.failed
<1>0. task \in [Vols -> Tasks] /\ task[v] \in Tasks
  BY DEF TypeOK
<1>1. \A x : Set(v, x) => task'[v] = x
  BY <1>0 DEF Set
<1> DEFINE t == task[v]
           u == task'[v]
<1> HIDE DEF u
<1>2. ASSUME Namespace(v), u # Idle \/ t.pids # {}
      PROVE  \E c \in t.pids :
               /\ u.pc = "mounts" /\ SameKey(t, u) /\ u.key = t.key /\ u.pids = t.pids \ {c}
               /\ \/ u.todo = Matches(v, c) /\ u.failed = t.failed
                  \/ u.todo = {} /\ u.failed
  <2> DEFINE n(c) == [t EXCEPT !.pc = "mounts", !.pids = @ \ {c}]
  <2>1. PICK c \in t.pids :
            u = [n(c) EXCEPT !.todo = Matches(v, c)] \/ u = [n(c) EXCEPT !.todo = {}, !.failed = TRUE]
    BY <1>1, <1>2 DEF Namespace, u
  <2>2. CASE u = [n(c) EXCEPT !.todo = Matches(v, c)]
    <3>1. /\ u.pc = "mounts" /\ SameKey(t, u) /\ u.key = t.key /\ u.pids = t.pids \ {c}
          /\ u.todo = Matches(v, c) /\ u.failed = t.failed
      BY <1>0, <2>2 DEF Tasks, SameKey
    <3> QED
      BY <3>1
  <2>3. CASE u = [n(c) EXCEPT !.todo = {}, !.failed = TRUE]
    <3>1. /\ u.pc = "mounts" /\ SameKey(t, u) /\ u.key = t.key /\ u.pids = t.pids \ {c}
          /\ u.todo = {} /\ u.failed
      BY <1>0, <2>3 DEF Tasks, SameKey
    <3> QED
      BY <3>1
  <2> QED
    BY <2>1, <2>2, <2>3
<1>3. ASSUME Goto(v, "ns")
      PROVE  /\ u.pc = "ns" /\ SameKey(t, u) /\ u.key = t.key /\ u.pids = t.pids
             /\ u.todo = t.todo /\ u.failed = t.failed
  <2>1. u = [t EXCEPT !.pc = "ns"]
    BY <1>1, <1>3 DEF Goto, u
  <2> QED
    BY <1>0, <2>1 DEF Tasks, SameKey
<1>4. ASSUME NEW e, Skip(v, e) \/ Replace(v, e)
      PROVE  /\ SameKey(t, u) /\ u.key = t.key /\ u.pids = t.pids /\ u.todo = t.todo \ {e}
             /\ u.pc \in {t.pc, "ro"}
             /\ u.failed \/ u.failed = t.failed
  <2> DEFINE n == [t EXCEPT !.todo = @ \ {e}]
  <2>1. u = n \/ u = [n EXCEPT !.failed = TRUE] \/ u = [n EXCEPT !.pc = "ro", !.lock = {e.at}]
    BY <1>1, <1>4 DEF Skip, Replace, u
  <2>2. CASE u = n
    BY <1>0, <2>2 DEF Tasks, SameKey
  <2>3. CASE u = [n EXCEPT !.failed = TRUE]
    BY <1>0, <2>3 DEF Tasks, SameKey
  <2>4. CASE u = [n EXCEPT !.pc = "ro", !.lock = {e.at}]
    BY <1>0, <2>4 DEF Tasks, SameKey
  <2> QED
    BY <2>1, <2>2, <2>3, <2>4
<1>5. ASSUME MakeReadOnly(v)
      PROVE  /\ u.pc = "mounts" /\ SameKey(t, u) /\ u.key = t.key /\ u.pids = t.pids
             /\ u.todo = t.todo /\ u.failed = t.failed
  <2>1. u = [t EXCEPT !.pc = "mounts", !.lock = {}]
    BY <1>1, <1>5 DEF MakeReadOnly, u
  <2> QED
    BY <1>0, <2>1 DEF Tasks, SameKey
<1> QED
  BY <1>2, <1>3, <1>4, <1>5 DEF u

(* A recovery replaces only a staging mount that is not healthy.           *)
LEMMA HostStep ==
    ASSUME TypeOK, HostInv, NEW v \in Vols, KeyInv(v), Step(v)
    PROVE  HostInv'
<1>0. /\ staging \in [Vols -> 0..last] /\ bind \in [Vols -> 0..last] /\ last \in 0..MaxSessions
      /\ session \in [Sessions -> Devs]
  BY DEF TypeOK, Devs
<1>1. last \in Nat /\ 0..last = {Bare} \cup 1..last
  BY <1>0, BoundsAssumption DEF Bare
<1>2. \A w \in Vols : w # v => staging'[w] = staging[w] /\ bind'[w] = bind[w]
  BY Growth
<1>3. \A s \in 1..last : session'[s].vol = session[s].vol /\ (session'[s].up => session[s].up)
  BY Growth
<1>4. \A w \in Vols : w # v =>
        /\ staging'[w] # Bare => session'[staging'[w]].vol = w
        /\ bind'[w] # Bare => session'[bind'[w]].vol = w
        /\ Healthy(bind[w])' => staging'[w] = bind'[w]
  BY <1>0, <1>1, <1>2, <1>3 DEF HostInv, Healthy
<1> SUFFICES /\ staging'[v] # Bare => session'[staging'[v]].vol = v
             /\ bind'[v] # Bare => session'[bind'[v]].vol = v
             /\ Healthy(bind[v])' => staging'[v] = bind'[v]
  BY <1>4 DEF HostInv
<1>5. CASE staging'[v] = staging[v] /\ bind'[v] \in {bind[v], Bare, staging[v]}
  BY <1>0, <1>1, <1>3, <1>5 DEF HostInv, Healthy
<1>6. CASE Stage(v) \/ StageFails(v) \/ Reap(v)
  <2>1. ~Healthy(staging[v]) /\ bind' = bind
    BY <1>6 DEF Stage, StageFails, Reap, KeyInv
  <2>2. ~Healthy(bind[v])
    BY <2>1 DEF HostInv
  <2>3. ~Healthy(bind[v])'
    BY <1>0, <1>1, <1>3, <2>1, <2>2 DEF Healthy
  <2>4. bind'[v] # Bare => session'[bind'[v]].vol = v
    BY <1>0, <1>1, <1>3, <2>1 DEF HostInv
  <2>5. staging'[v] # Bare => session'[staging'[v]].vol = v
    <3>1. CASE MountNew(v)
      <4>1. PICK d \in Devices : session' = [session EXCEPT ![last + 1] = [vol |-> v, dev |-> d, up |-> TRUE]]
        BY <3>1 DEF MountNew
      <4>2. last + 1 \in Sessions /\ staging'[v] = last + 1
        BY <1>0, <1>1, <3>1, BoundsAssumption DEF MountNew, Sessions
      <4> QED
        BY <1>0, <4>1, <4>2
    <3>2. CASE staging' = Unstaged(v)
      BY <1>0, <3>2 DEF Unstaged
    <3> QED
      BY <1>6, <3>1, <3>2 DEF Stage, StageFails, Reap
  <2> QED
    BY <2>3, <2>4, <2>5
<1>7. CASE Recover(v) \/ Retry(v) \/ Namespace(v) \/ EachMount(v) \/ MakeReadOnly(v) \/ Die(v)
  BY <1>5, <1>7 DEF Recover, Retry, Namespace, EachMount, MakeReadOnly, Die, hostVars
<1>8. CASE TearDown(v) \/ Rebind(v)
  BY <1>0, <1>5, <1>8 DEF TearDown, Rebind
<1> QED
  BY <1>6, <1>7, <1>8 DEF Step

(* The mount points keep their subPaths: a task binds from the root that   *)
(* it read of the same mount point.                                        *)
LEMMA RootStep ==
    ASSUME TypeOK, EntryInv, SubPathKept, NEW v \in Vols, Step(v)
    PROVE  EntryInv' /\ SubPathKept'
<1>0. cont \in [Mounts -> Points] /\ task \in [Vols -> Tasks]
  BY DEF TypeOK
<1>1. \A w \in Vols : w # v => task'[w] = task[w]
  BY Growth
<1>2. ASSUME \A e \in task'[v].todo : e \in task[v].todo \/ e.root = RootOf[e.at] PROVE EntryInv'
  BY <1>1, <1>2 DEF EntryInv
<1>3. CASE UNCHANGED cont /\ (task'[v].todo = task[v].todo \/ task'[v].todo = {})
  BY <1>2, <1>3 DEF SubPathKept
<1>4. CASE Recover(v) \/ Stage(v) \/ StageFails(v) \/ Retry(v) \/ TearDown(v) \/ Rebind(v) \/ Die(v) \/ Reap(v)
  <2>1. UNCHANGED cont
    BY <1>4 DEF Recover, Stage, StageFails, Retry, TearDown, Rebind, Die, Reap, hostVars
  <2>2. task'[v].todo = task[v].todo \/ task'[v].todo = {}
    BY <1>4, TaskAfterHostStep DEF Idle
  <2> QED
    BY <1>3, <2>1, <2>2
<1>5. CASE Namespace(v)
  <2>1. UNCHANGED cont
    BY <1>5 DEF Namespace
  <2>2. \E c : task'[v].todo \in {Matches(v, c), {}}
    BY <1>5, TaskAfterContainerStep DEF Idle
  <2>3. \A c : \A e \in Matches(v, c) : e.root = RootOf[e.at]
    BY DEF Matches, AsEntries, Listed, SubPathKept
  <2> QED
    BY <1>2, <2>1, <2>2, <2>3 DEF SubPathKept
<1>6. CASE EachMount(v)
  <2>1. CASE Goto(v, "ns") /\ UNCHANGED cont
    BY <1>3, <2>1, TaskAfterContainerStep
  <2>2. ASSUME NEW e \in task[v].todo, Skip(v, e) \/ Replace(v, e)
        PROVE  EntryInv' /\ SubPathKept'
    <3>1. task'[v].todo = task[v].todo \ {e}
      BY <2>2, TaskAfterContainerStep
    <3>2. e.root = RootOf[e.at]
      BY DEF EntryInv
    <3>3. cont' = cont \/ cont' = [cont EXCEPT ![e.at] = Unmounted]
              \/ cont' = [cont EXCEPT ![e.at] = [of |-> staging[v], root |-> e.root, ro |-> FALSE]]
      BY <2>2 DEF Skip, Replace, Source
    <3>4. SubPathKept'
      BY <1>0, <3>2, <3>3 DEF SubPathKept, Unmounted
    <3> QED
      BY <1>2, <3>1, <3>4
  <2> QED
    BY <1>6, <2>1, <2>2 DEF EachMount
<1>7. CASE MakeReadOnly(v)
  <2>1. \A m \in Mounts : cont'[m].of = cont[m].of /\ cont'[m].root = cont[m].root
    BY <1>0, <1>7 DEF MakeReadOnly, Points
  <2>2. task'[v].todo = task[v].todo
    BY <1>7, TaskAfterContainerStep
  <2> QED
    BY <1>2, <2>1, <2>2 DEF SubPathKept
<1> QED
  BY <1>4, <1>5, <1>6, <1>7 DEF Step

(* A mount point of a read-only volume is read-only or known to be due.    *)
LEMMA ReadOnlyStep ==
    ASSUME TypeOK, HostInv, ReadOnlyKept, NEW v \in Vols, Step(v)
    PROVE  ReadOnlyKept'
<1>0. /\ cont \in [Mounts -> Points] /\ last \in Nat /\ staging \in [Vols -> 0..last] /\ exposed \subseteq Mounts
      /\ task \in [Vols -> Tasks]
  BY BoundsAssumption DEF TypeOK
<1>1. \A s \in 1..last : session'[s].vol = session[s].vol
  BY Growth
<1>2. \A s \in 0..last : s # Bare => s \in 1..last
  BY <1>0 DEF Bare
<1>3. CASE UNCHANGED <<cont, exposed>>
  BY <1>0, <1>1, <1>2, <1>3 DEF ReadOnlyKept, Points
<1>4. ASSUME NEW e \in task[v].todo, Replace(v, e) PROVE ReadOnlyKept'
  <2>1. e.at \in Mounts
    BY <1>0 DEF Tasks, Entries
  <2>2. CASE /\ cont' = [cont EXCEPT ![e.at] = [of |-> staging[v], root |-> Source(e), ro |-> FALSE]]
             /\ exposed' = IF v \in ReadOnly THEN exposed \cup {e.at} ELSE exposed \ {e.at}
    <3>1. \A m \in Mounts : m # e.at => cont'[m] = cont[m] /\ (m \in exposed => m \in exposed')
      BY <1>0, <2>2
    <3>2. cont'[e.at].of = staging[v]
      BY <1>0, <2>1, <2>2
    <3>3. cont'[e.at].of # Bare => session'[cont'[e.at].of].vol = v
      BY <1>0, <1>1, <1>2, <3>2 DEF HostInv
    <3>4. v \in ReadOnly => e.at \in exposed'
      BY <2>2
    <3> QED
      BY <1>0, <1>1, <1>2, <2>1, <3>1, <3>3, <3>4 DEF ReadOnlyKept, Points
  <2>3. CASE (cont' = cont \/ cont' = [cont EXCEPT ![e.at] = Unmounted]) /\ UNCHANGED exposed
    BY <1>0, <1>1, <1>2, <2>3 DEF ReadOnlyKept, Points, Unmounted
  <2> QED
    BY <1>4, <2>2, <2>3 DEF Replace
<1>5. CASE MakeReadOnly(v)
  <2>1. CASE UNCHANGED <<cont, exposed>>
    BY <1>3, <2>1
  <2>2. CASE /\ cont' = [m \in Mounts |-> IF m \in task[v].lock THEN [cont[m] EXCEPT !.ro = TRUE] ELSE cont[m]]
             /\ exposed' = exposed \ task[v].lock
    <3>1. \A m \in Mounts : cont'[m].of = cont[m].of /\ (m \in task[v].lock => cont'[m].ro)
      BY <1>0, <2>2 DEF Points
    <3>2. \A m \in Mounts : m \notin task[v].lock => cont'[m] = cont[m] /\ (m \in exposed => m \in exposed')
      BY <2>2
    <3> QED
      BY <1>0, <1>1, <1>2, <3>1, <3>2 DEF ReadOnlyKept, Points
  <2> QED
    BY <1>5, <2>1, <2>2 DEF MakeReadOnly
<1>6. CASE Recover(v) \/ Stage(v) \/ StageFails(v) \/ Retry(v) \/ TearDown(v) \/ Rebind(v) \/ Namespace(v)
           \/ Die(v) \/ Reap(v)
  BY <1>3, <1>6 DEF Recover, Stage, StageFails, Retry, TearDown, Rebind, Namespace, Die, Reap, hostVars
<1> QED
  BY <1>3, <1>4, <1>5, <1>6 DEF Step, EachMount, Skip

-----------------------------------------------------------------------------
(* A key that was good stays good: what is mounted later has a later       *)
(* session.                                                                *)
LEMMA KeyKept ==
    ASSUME TypeOK, NEW v \in Vols, Step(v), NEW w \in Vols, KnownKey(w),
           SameKey(task[w], task'[w]), task'[w].key = task[w].key
    PROVE  KnownKey(w)'
<1>0. task[w].was \in 0..last /\ task[w].seen \in 0..last /\ last \in Nat
  BY BoundsAssumption DEF TypeOK, Tasks
<1>1. \A s \in 1..last :
        /\ session'[s].vol = session[s].vol /\ session'[s].dev = session[s].dev
        /\ session'[s].up => session[s].up
        /\ InUse(s)' => InUse(s)
  BY Growth
<1>2. task'[w].was = task[w].was /\ task'[w].seen = task[w].seen
  BY DEF SameKey
<1>3. task[w].was # Bare => task[w].was \in 1..last
  BY <1>0 DEF Bare
<1>4. Device(task[w].was)' = Device(task[w].was)
  BY <1>1, <1>2, <1>3 DEF Device
<1> QED
  BY <1>0, <1>1, <1>2, <1>3, <1>4 DEF KnownKey

LEMMA KeyStep ==
    ASSUME TypeOK, HostInv, DeviceInv, NEW v \in Vols, Step(v),
           \A w \in Vols : KeyInv(w)
    PROVE  \A w \in Vols : KeyInv(w)'
<1>0. /\ task \in [Vols -> Tasks] /\ task[v] \in Tasks /\ last \in Nat /\ session \in [Sessions -> Devs]
      /\ staging \in [Vols -> 0..last] /\ bind \in [Vols -> 0..last]
  <2>1. last \in Nat
    BY BoundsAssumption DEF TypeOK
  <2> QED
    BY <2>1 DEF TypeOK, Devs
<1>1. \A s \in 0..last : s # Bare => s \in 1..last
  BY <1>0 DEF Bare
<1>2. \A s \in 1..last : session'[s].up => session[s].up
  BY Growth
<1>3. ASSUME NEW w \in Vols, w # v PROVE KeyInv(w)'
  <2>1. task'[w] = task[w] /\ staging'[w] = staging[w]
    BY <1>3, Growth
  <2>2. KnownKey(w) => KnownKey(w)'
    BY <2>1, KeyKept DEF SameKey
  <2>3. Healthy(staging[w])' => Healthy(staging[w])
    BY <1>0, <1>1, <1>2, <2>1 DEF Healthy
  <2> QED
    BY <2>1, <2>2, <2>3 DEF KeyInv
<1>4. KeyInv(v)'
  <2>0. KeyInv(v)
    OBVIOUS
  <2>1. CASE task'[v] = Idle
    BY <2>1 DEF KeyInv, Idle
  <2>2. CASE Recover(v)
    <3> DEFINE old == IF staging[v] # Bare THEN staging[v] ELSE bind[v]
               u == task'[v]
    <3>1. /\ u.pc = "stage" /\ u.keyed /\ u.key = Device(old) /\ u.was = old /\ u.seen = last
      BY <2>2, TaskAfterHostStep
    <3>2. ~Healthy(staging[v]) /\ UNCHANGED <<session, last, staging, bind, cont>>
      BY <2>2 DEF Recover, hostVars
    <3>3. ~Healthy(old)
      BY <3>2 DEF HostInv, Healthy
    <3>4. old \in 0..last /\ (old # Bare => InUse(old) /\ session[old].vol = v /\ ~session[old].up)
      BY <1>0, <3>3 DEF HostInv, InUse, Healthy
    <3>5. \A s \in 1..last : InUse(s) /\ s # old /\ old # Bare => session[s].dev # session[old].dev
      BY <1>1, <3>4 DEF DeviceInv
    <3>6. \A s : (InUse(s)' <=> InUse(s)) /\ (Device(s)' = Device(s)) /\ (Healthy(s)' <=> Healthy(s))
      BY <3>2 DEF InUse, Device, Healthy
    <3>7. Device(old) = Device(task[v].was)' /\ ~Healthy(staging[v])'
      BY <3>1, <3>2, <3>6 DEF Device, Healthy
    <3> HIDE DEF old, u
    <3>8. KnownKey(v)'
      <4>1. u.key = Device(task[v].was)' /\ u.was <= u.seen
        BY <1>0, <3>1, <3>4, <3>7
      <4>2. u.was # Bare =>
              /\ session'[u.was].vol = v /\ ~session'[u.was].up
              /\ \A s \in 1..u.seen : InUse(s)' /\ s # u.was => session'[s].dev # session'[u.was].dev
        BY <3>1, <3>2, <3>4, <3>5, <3>6
      <4> QED
        BY <4>1, <4>2 DEF KnownKey, u
    <3> QED
      BY <3>1, <3>7, <3>8 DEF KeyInv, u
  <2>3. CASE Stage(v) \/ Retry(v)
    <3>1. /\ task'[v].pc = "tear" /\ SameKey(task[v], task'[v]) /\ task'[v].key = task[v].key
      BY <2>3, TaskAfterHostStep
    <3>2. task'[v].keyed = task[v].keyed /\ task'[v].seen = task[v].seen
      BY <3>1 DEF SameKey
    <3>3. KnownKey(v) => KnownKey(v)'
      BY <3>1, KeyKept
    <3>4. CASE Stage(v)
      <4>1. staging'[v] = last + 1
        BY <1>0, <3>4 DEF Stage, MountNew
      <4>2. task[v].seen \in 0..last
        BY <1>0 DEF Tasks
      <4> QED
        BY <1>0, <2>0, <3>1, <3>2, <3>3, <4>1, <4>2 DEF KeyInv
    <3>5. CASE Retry(v)
      BY <2>0, <3>1, <3>2, <3>5 DEF KeyInv, Retry
    <3> QED
      BY <2>3, <3>4, <3>5
  <2>4. ASSUME SameKey(task[v], task'[v]), task'[v].key = task[v].key \/ ~task[v].keyed,
               task[v].pc \notin {"idle", "stage"}, task'[v].pc \notin {"idle", "stage"},
               staging'[v] = staging[v],
               task[v].keyed /\ task'[v].pc \in {"ns", "mounts", "ro"} => task[v].was # Bare
        PROVE  KeyInv(v)'
    <3>1. task'[v].keyed = task[v].keyed /\ task'[v].seen = task[v].seen /\ task'[v].was = task[v].was
      BY <2>4 DEF SameKey
    <3>2. task[v].keyed /\ KnownKey(v) => KnownKey(v)'
      BY <2>4, KeyKept
    <3> QED
      BY <2>0, <2>4, <3>1, <3>2 DEF KeyInv
  <2>5. CASE TearDown(v)
    BY <2>1, <2>4, <2>5, TaskAfterHostStep DEF TearDown
  <2>6. CASE Rebind(v)
    <3>1. staging'[v] = staging[v] /\ task[v].pc = "bind"
      BY <2>6 DEF Rebind
    <3>2. task[v].keyed /\ task[v].key # Bare => task[v].was # Bare
      BY <2>0 DEF KeyInv, KnownKey, Device
    <3> QED
      BY <2>1, <2>4, <2>6, <3>1, <3>2, TaskAfterHostStep
  <2>7. CASE Namespace(v) \/ EachMount(v) \/ MakeReadOnly(v)
    <3>1. staging' = staging /\ task[v].pc \in {"ns", "mounts", "ro"}
      BY <2>7 DEF Namespace, EachMount, MakeReadOnly, hostVars
    <3>2. \/ task'[v] = Idle
          \/ /\ SameKey(task[v], task'[v]) /\ task'[v].key = task[v].key
             /\ task'[v].pc \in {task[v].pc, "ns", "mounts", "ro"}
      <4>1. CASE Namespace(v)
        BY <4>1, TaskAfterContainerStep
      <4>2. CASE EachMount(v)
        BY <4>2, TaskAfterContainerStep DEF EachMount
      <4>3. CASE MakeReadOnly(v)
        BY <4>3, TaskAfterContainerStep
      <4> QED
        BY <2>7, <4>1, <4>2, <4>3
    <3>3. task[v].keyed => task[v].was # Bare
      BY <2>0, <3>1 DEF KeyInv
    <3> QED
      BY <2>1, <2>4, <3>1, <3>2, <3>3
  <2>8. CASE Die(v) \/ Reap(v)
    <3>1. task'[v] = task[v]
      BY <2>8 DEF Die, Reap
    <3>2. KnownKey(v) => KnownKey(v)'
      BY <3>1, KeyKept DEF SameKey
    <3>3. CASE Die(v)
      <4>1. staging' = staging
        BY <3>3 DEF Die
      <4>2. Healthy(staging[v])' => Healthy(staging[v])
        BY <1>0, <1>1, <1>2, <4>1 DEF Healthy
      <4> QED
        BY <2>0, <3>1, <3>2, <4>1, <4>2 DEF KeyInv
    <3>4. CASE Reap(v)
      BY <1>0, <2>0, <3>1, <3>2, <3>4 DEF KeyInv, Reap, Unstaged, Healthy
    <3> QED
      BY <2>8, <3>3, <3>4
  <2>9. CASE StageFails(v)
    BY <2>1, <2>9, TaskAfterHostStep
  <2> QED
    BY <2>2, <2>3, <2>5, <2>6, <2>7, <2>8, <2>9 DEF Step
<1> QED
  BY <1>3, <1>4

(* Nobody brings the old session back into a container, and the recovery   *)
(* drops a mount of it from its list only when it has replaced it.         *)
LEMMA RepairStep ==
    ASSUME TypeOK, HostInv, NEW v \in Vols, Step(v), \A w \in Vols : KeyInv(w) /\ RepairInv(w)
    PROVE  \A w \in Vols : RepairInv(w)'
<1>0. /\ task \in [Vols -> Tasks] /\ task[v] \in Tasks /\ cont \in [Mounts -> Points] /\ last \in Nat
      /\ staging \in [Vols -> 0..last]
  BY BoundsAssumption DEF TypeOK
<1>1. \A m \in Mounts : cont'[m].of \in {cont[m].of, Bare, staging[v]}
  BY MountsOfStep
<1>2. ASSUME NEW w \in Vols, w # v PROVE RepairInv(w)'
  <2>1. task'[w] = task[w]
    BY <1>2, Growth
  <2>2. ASSUME task[w].keyed, task[w].pc \in {"ns", "mounts", "ro"}, NEW m \in Mounts, cont'[m].of = task[w].was
        PROVE  cont[m].of = task[w].was
    <3>1. task[w].was # Bare /\ session[task[w].was].vol = w
      BY <2>2 DEF KeyInv, KnownKey
    <3>2. staging[v] # Bare => session[staging[v]].vol = v
      BY DEF HostInv
    <3> QED
      BY <1>1, <1>2, <2>2, <3>1, <3>2
  <2> QED
    BY <2>1, <2>2 DEF RepairInv
<1>3. RepairInv(v)'
  <2> DEFINE t == task[v]
             u == task'[v]
  <2>0. KeyInv(v) /\ RepairInv(v)
    OBVIOUS
  <2>1. CASE u = Idle
    BY <2>1 DEF RepairInv, Idle
  <2>2. CASE u.pc \notin {"ns", "mounts", "ro"}
    BY <2>2 DEF RepairInv
  <2>3. CASE Recover(v) \/ Stage(v) \/ StageFails(v) \/ Retry(v) \/ TearDown(v)
    BY <2>1, <2>2, <2>3, TaskAfterHostStep
  <2>4. CASE Rebind(v)
    <3>1. u = Idle \/ u.pids = Containers
      BY <2>4, TaskAfterHostStep
    <3>2. \A m \in Mounts : In[m] \in Containers
      BY MountsAssumption
    <3> QED
      BY <2>1, <3>1, <3>2 DEF RepairInv
  <2>5. CASE Die(v) \/ Reap(v)
    BY <2>0, <2>5 DEF RepairInv, Die, Reap
  <2>6. CASE Namespace(v) /\ u # Idle
    <3>1. cont' = cont /\ t.pc = "ns"
      BY <2>6 DEF Namespace
    <3>2. PICK c \in t.pids :
              /\ u.pc = "mounts" /\ SameKey(t, u) /\ u.pids = t.pids \ {c}
              /\ \/ u.todo = Matches(v, c) /\ u.failed = t.failed
                 \/ u.failed
      BY <2>6, TaskAfterContainerStep
    <3>3. u.keyed = t.keyed /\ u.was = t.was
      BY <3>2 DEF SameKey
    <3>4. ASSUME u.keyed, ~u.failed, NEW m \in Mounts, cont'[m].of = u.was
          PROVE  In[m] \in u.pids \/ \E e \in u.todo : e.at = m
      <4>1. t.keyed /\ ~t.failed /\ cont[m].of = t.was /\ u.todo = Matches(v, c)
        BY <3>1, <3>2, <3>3, <3>4
      <4>2. In[m] \in t.pids
        BY <2>0, <3>1, <4>1 DEF RepairInv
      <4>3. t.was # Bare /\ t.key = Device(t.was)
        BY <2>0, <3>1, <4>1 DEF KeyInv, KnownKey
      <4>4. CASE In[m] = c
        <5>1. m \in Listed(c) /\ Keyed(v, m)
          BY <4>1, <4>3, <4>4 DEF Listed, Keyed
        <5>2. [at |-> m, root |-> cont[m].root] \in u.todo
          BY <4>1, <5>1 DEF Matches, AsEntries
        <5> QED
          BY <5>2
      <4> QED
        BY <3>2, <4>2, <4>4
    <3> QED
      BY <3>2, <3>4 DEF RepairInv
  <2>7. CASE EachMount(v)
    <3>1. t.pc = "mounts"
      BY <2>7 DEF EachMount
    <3>2. CASE t.todo = {} /\ Goto(v, "ns") /\ UNCHANGED cont
      <4>1. /\ u.pc = "ns" /\ SameKey(t, u) /\ u.pids = t.pids /\ u.failed = t.failed
        BY <3>2, TaskAfterContainerStep
      <4> QED
        BY <2>0, <3>1, <3>2, <4>1 DEF RepairInv, SameKey
    <3>3. ASSUME NEW e \in t.todo, Skip(v, e) PROVE RepairInv(v)'
      <4>1. ~t.keyed /\ SameKey(t, u)
        BY <3>3, TaskAfterContainerStep DEF Skip
      <4> QED
        BY <4>1 DEF RepairInv, SameKey
    <3>4. ASSUME NEW e \in t.todo, Replace(v, e) PROVE RepairInv(v)'
      <4>1. /\ SameKey(t, u) /\ u.pids = t.pids /\ u.todo = t.todo \ {e} /\ u.pc \in {"mounts", "ro"}
            /\ u.failed \/ u.failed = t.failed
        BY <3>1, <3>4, TaskAfterContainerStep
      <4>2. \/ u.failed
            \/ cont' = [cont EXCEPT ![e.at] = [of |-> staging[v], root |-> Source(e), ro |-> FALSE]]
        <5>1. [[t EXCEPT !.todo = @ \ {e}] EXCEPT !.failed = TRUE].failed
          BY <1>0 DEF Tasks
        <5>2. \A x : Set(v, x) => u = x
          BY <1>0 DEF Set
        <5> QED
          BY <3>4, <5>1, <5>2 DEF Replace
      <4>3. u.keyed = t.keyed /\ u.was = t.was
        BY <4>1 DEF SameKey
      <4>4. ASSUME u.keyed, ~u.failed, NEW m \in Mounts, cont'[m].of = u.was
            PROVE  In[m] \in u.pids \/ \E f \in u.todo : f.at = m
        <5>1. cont' = [cont EXCEPT ![e.at] = [of |-> staging[v], root |-> Source(e), ro |-> FALSE]]
          BY <4>2, <4>4
        <5>2. /\ staging[v] = Bare \/ staging[v] > t.seen
              /\ t.was # Bare /\ t.was <= t.seen /\ t.was \in 0..last /\ t.seen \in 0..last
          BY <1>0, <2>0, <3>1, <4>3, <4>4 DEF KeyInv, KnownKey, Tasks
        <5>3. m # e.at
          BY <1>0, <4>3, <4>4, <5>1, <5>2
        <5>4. cont[m].of = t.was /\ t.keyed /\ ~t.failed
          BY <1>0, <4>1, <4>3, <4>4, <5>1, <5>3
        <5>5. In[m] \in t.pids \/ \E f \in t.todo : f.at = m
          BY <2>0, <3>1, <5>4 DEF RepairInv
        <5> QED
          BY <4>1, <5>3, <5>5
      <4> QED
        BY <4>1, <4>4 DEF RepairInv
    <3> QED
      BY <2>7, <3>2, <3>3, <3>4 DEF EachMount
  <2>8. CASE MakeReadOnly(v)
    <3>1. \A m \in Mounts : cont'[m].of = cont[m].of
      BY <1>0, <2>8 DEF MakeReadOnly, Points
    <3>2. /\ u.pc = "mounts" /\ SameKey(t, u) /\ u.pids = t.pids /\ u.todo = t.todo
          /\ u.failed = t.failed /\ t.pc = "ro"
      BY <2>8, TaskAfterContainerStep DEF MakeReadOnly
    <3> QED
      BY <2>0, <3>1, <3>2 DEF RepairInv, SameKey
  <2> QED
    BY <2>1, <2>3, <2>4, <2>5, <2>6, <2>7, <2>8 DEF Step
<1> QED
  BY <1>2, <1>3

-----------------------------------------------------------------------------
LEMMA InitIInv == Init => IInv
<1> SUFFICES ASSUME Init PROVE IInv
  OBVIOUS
<1>0. /\ last = NumVols /\ NumVols \in 0..MaxSessions /\ Vols \subseteq Sessions /\ Vols = 1..NumVols
      /\ Vols \subseteq 0..last /\ last \in Nat
  BY BoundsAssumption DEF Init, Vols, Sessions
<1>1. /\ session \in [Sessions -> Devs]
      /\ \A s \in Sessions : session[s].vol = s /\ session[s].dev = s
  BY DEF Init, Devs, Sessions, Devices
<1>2. /\ staging \in [Vols -> Vols] /\ bind \in [Vols -> Vols] /\ \A v \in Vols : staging[v] = v /\ bind[v] = v
  BY DEF Init
<1>3. /\ cont \in [Mounts -> Points]
      /\ \A m \in Mounts : cont[m].root = RootOf[m] /\ cont[m].of = VolOf[m] /\ cont[m].of \in Vols
      /\ \A m \in Mounts : cont[m].of \in ReadOnly => cont[m].ro
  <2>1. cont = [m \in Mounts |-> [of |-> VolOf[m], root |-> RootOf[m], ro |-> VolOf[m] \in ReadOnly]]
    BY DEF Init
  <2>2. \A m \in Mounts : VolOf[m] \in Vols /\ VolOf[m] \in 0..last /\ RootOf[m] \in Roots
    BY <1>0, MountsAssumption DEF Roots
  <2>3. \A m \in Mounts : (VolOf[m] \in ReadOnly) \in BOOLEAN
    OBVIOUS
  <2>4. ASSUME NEW m \in Mounts, NEW b \in BOOLEAN
        PROVE  [of |-> VolOf[m], root |-> RootOf[m], ro |-> b] \in Points
    BY <2>2 DEF Points
  <2>5. \A m \in Mounts : [of |-> VolOf[m], root |-> RootOf[m], ro |-> VolOf[m] \in ReadOnly] \in Points
    BY <2>3, <2>4, Zenon
  <2>6. cont \in [Mounts -> Points]
    BY <2>1, <2>5
  <2>7. \A m \in Mounts : cont[m].root = RootOf[m] /\ cont[m].of = VolOf[m] /\ cont[m].of \in Vols
    BY <2>1, <2>2
  <2>8. \A m \in Mounts : cont[m].of \in ReadOnly => cont[m].ro
    BY <2>1
  <2> QED
    BY <2>6, <2>7, <2>8
<1>4. Idle \in Tasks
  <2>1. 0 \in 0..last /\ 0 \in 0..MaxSessions
    BY <1>0, BoundsAssumption
  <2> QED
    BY <2>1 DEF Idle, Tasks, Bare
<1>5. task \in [Vols -> Tasks] /\ \A v \in Vols : task[v] = Idle
  BY <1>4 DEF Init
<1>6. TypeOK
  <2>1. staging \in [Vols -> 0..last] /\ bind \in [Vols -> 0..last]
    BY <1>0, <1>2
  <2>2. exposed \subseteq Mounts /\ plain \subseteq Vols /\ faults \in 0..MaxFaults /\ last \in 0..MaxSessions
    BY <1>0, BoundsAssumption DEF Init
  <2> QED
    BY <1>1, <1>3, <1>5, <2>1, <2>2 DEF TypeOK, Devs
<1>7. HostInv
  BY <1>0, <1>1, <1>2 DEF HostInv
<1>8. DeviceInv
  <2>1. 1..last \subseteq Sessions
    BY <1>0
  <2> QED
    BY <1>1, <2>1 DEF DeviceInv
<1>9. EntryInv /\ \A v \in Vols : KeyInv(v) /\ RepairInv(v)
  BY <1>5 DEF EntryInv, KeyInv, RepairInv, Idle
<1>10. SubPathKept /\ ReadOnlyKept
  BY <1>0, <1>1, <1>3 DEF SubPathKept, ReadOnlyKept
<1> QED
  BY <1>6, <1>7, <1>8, <1>9, <1>10 DEF IInv

LEMMA IInvStep == IInv /\ [Next]_vars => IInv'
<1> SUFFICES ASSUME IInv, [Next]_vars PROVE IInv'
  OBVIOUS
<1>1. ASSUME NEW v \in Vols, Step(v) PROVE IInv'
  <2>1. TypeOK'
    BY <1>1, TypeStep DEF IInv
  <2>2. HostInv' /\ EntryInv' /\ SubPathKept' /\ ReadOnlyKept'
    BY <1>1, HostStep, RootStep, ReadOnlyStep DEF IInv
  <2>3. DeviceInv'
    BY <1>1, <2>1, DeviceStep DEF IInv
  <2>4. \A w \in Vols : KeyInv(w)' /\ RepairInv(w)'
    BY <1>1, KeyStep, RepairStep DEF IInv
  <2> QED
    BY <2>1, <2>2, <2>3, <2>4 DEF IInv
<1>2. CASE UNCHANGED vars
  BY <1>2 DEF vars, IInv, TypeOK, HostInv, DeviceInv, EntryInv, SubPathKept, ReadOnlyKept, KeyInv, RepairInv,
              KnownKey, InUse, Healthy, Device, Tasks, Points
<1> QED
  BY <1>1, <1>2 DEF Next, Step

LEMMA Inductive == Spec => []IInv
BY InitIInv, IInvStep, PTL DEF Spec

(* The type invariant of the mounts and the tasks.                         *)
THEOREM TypeCorrect == Spec => []TypeOK
BY Inductive, PTL DEF IInv

(* remountViaSetns keeps the subPath of every mount point.                 *)
THEOREM SubPathSafe == Spec => []SubPathKept
BY Inductive, PTL DEF IInv

(* A volume published read-only stays read-only in the containers, except  *)
(* where the second remount is due or has failed.                          *)
THEOREM ReadOnlySafe == Spec => []ReadOnlyKept
BY Inductive, PTL DEF IInv

(* A recovery's device number finds mounts of the volume's own dead        *)
(* session; another session can have it only if it was mounted after the   *)
(* number was read and no container has the old one any more.              *)
THEOREM KeySafe == Spec => KeyPicksOneSession
<1> DEFINE Picks(v) == task[v].pc = "ns" /\ task'[v].pc = "mounts" /\ task[v].keyed =>
                         \A e \in task'[v].todo :
                            \/ PicksOwnDead(v, e)
                            \/ cont[e.at].of > task[v].seen /\ \A m \in Mounts : cont[m].of # task[v].was
<1>1. ASSUME IInv, [Next]_vars, NEW v \in Vols PROVE Picks(v)
  <2> SUFFICES ASSUME task[v].pc = "ns", task'[v].pc = "mounts", task[v].keyed, NEW e \in task'[v].todo
               PROVE  \/ PicksOwnDead(v, e)
                      \/ cont[e.at].of > task[v].seen /\ \A m \in Mounts : cont[m].of # task[v].was
    OBVIOUS
  <2>0. TypeOK /\ KeyInv(v)
    BY <1>1 DEF IInv
  <2>1. Namespace(v)
    <3>1. PICK w \in Vols : Step(w)
      BY <1>1 DEF Next, Step, vars
    <3>2. w = v
      BY <2>0, <3>1, Growth
    <3>3. task'[v] # task[v] /\ task'[v] # Idle
      BY DEF Idle
    <3> QED
      BY <3>1, <3>2, <3>3 DEF Step, Recover, Stage, StageFails, Retry, TearDown, Rebind, EachMount, MakeReadOnly,
                              Die, Reap
  <2>2. PICK c : task'[v].todo \in {Matches(v, c), {}}
    BY <2>0, <2>1, TaskAfterContainerStep DEF Idle
  <2>3. PICK m \in Mounts : m \in Listed(c) /\ Keyed(v, m) /\ e = [at |-> m, root |-> cont[m].root]
    BY <2>2 DEF Matches, AsEntries, Listed
  <2>4. e.at = m /\ cont[m].of # Bare /\ Device(cont[m].of) = task[v].key
    BY <2>3 DEF Listed, Keyed
  <2>5. /\ task[v].key = Device(task[v].was) /\ task[v].was # Bare /\ ~session[task[v].was].up
        /\ \A s \in 1..task[v].seen : InUse(s) /\ s # task[v].was => session[s].dev # session[task[v].was].dev
    BY <2>0 DEF KeyInv, KnownKey
  <2>6. InUse(cont[m].of) /\ session[cont[m].of].dev = session[task[v].was].dev
    BY <2>4, <2>5 DEF InUse, Device
  <2>7. cont[m].of \in 0..last /\ task[v].seen \in 0..last /\ last \in Nat
    BY <2>0, BoundsAssumption DEF TypeOK, Points, Tasks
  <2>8. CASE cont[m].of = task[v].was
    BY <2>4, <2>5, <2>8 DEF PicksOwnDead
  <2>9. CASE cont[m].of # task[v].was
    <3>1. cont[m].of > task[v].seen
      BY <2>4, <2>5, <2>6, <2>7, <2>9 DEF Bare
    <3>2. ASSUME NEW n \in Mounts, cont[n].of = task[v].was PROVE FALSE
      <4>1. InUse(task[v].was) /\ task[v].was \in 1..last /\ cont[m].of \in 1..last
        BY <2>0, <2>4, <2>5, <2>7, <3>2 DEF InUse, Bare, TypeOK, Points
      <4> QED
        BY <1>1, <2>6, <2>9, <4>1 DEF IInv, DeviceInv
    <3> QED
      BY <2>4, <3>1, <3>2
  <2> QED
    BY <2>8, <2>9
<1>2. IInv /\ [Next]_vars => [\A v \in Vols : Picks(v)]_vars
  BY <1>1
<1> QED
  BY <1>2, Inductive, PTL DEF Spec, KeyPicksOneSession

(* A recovery in which nothing failed leaves no mount of the old session   *)
(* in any container of the pod.                                            *)
THEOREM RepairSafe == Spec => RepairComplete
<1> DEFINE Done(v) == LET t == task[v] IN
                      t.pc = "ns" /\ task'[v].pc = "idle" /\ t.keyed /\ ~t.failed =>
                          \A m \in Mounts : cont[m].of # t.was
<1>1. ASSUME IInv, [Next]_vars, NEW v \in Vols PROVE Done(v)
  <2> SUFFICES ASSUME task[v].pc = "ns", task'[v].pc = "idle", task[v].keyed, ~task[v].failed
               PROVE  \A m \in Mounts : cont[m].of # task[v].was
    OBVIOUS
  <2>0. TypeOK /\ RepairInv(v)
    BY <1>1 DEF IInv
  <2>1. PICK w \in Vols : Step(w)
    BY <1>1 DEF Next, Step, vars
  <2>2. w = v
    BY <2>0, <2>1, Growth
  <2>3. Namespace(v)
    <3>1. task'[v] # task[v]
      OBVIOUS
    <3> QED
      BY <2>1, <2>2, <3>1 DEF Step, Recover, Stage, StageFails, Retry, TearDown, Rebind, EachMount, MakeReadOnly,
                              Die, Reap
  <2>4. task[v].pids = {}
    BY <2>0, <2>3, TaskAfterContainerStep
  <2> QED
    BY <2>0, <2>4 DEF RepairInv
<1>2. IInv /\ [Next]_vars => [\A v \in Vols : Done(v)]_vars
  BY <1>1
<1> QED
  BY <1>2, Inductive, PTL DEF Spec, RepairComplete
=============================================================================
