------------------------ MODULE HealthMonitor_proofs ------------------------
(***************************************************************************)
(* Safety of the shared probes and of the recovery's backoff, for any      *)
(* number of probes and of FUSE sessions and any backoff constants.  The   *)
(* argument: the path shows the session mounted last or nothing, and       *)
(* nothing only when that session is dead, as every earlier one is.  A     *)
(* registered probe has asked the last session or nobody, because the path *)
(* is bare from the reset of the old probe to the new mount, also when the *)
(* mount service serves a Mount that the recovery has given up on.  So a   *)
(* caller that hears "dead" hears it of the session it asked about, or of  *)
(* a later one, in which case its own is dead as well.                     *)
(***************************************************************************)
EXTENDS HealthMonitor, TLAPS

(* What is registered is running, and what is running and was not cut      *)
(* loose is registered.                                                    *)
RegisteredInv ==
    /\ entry # None => Running(entry) /\ ~probe[entry].orphan
    /\ \A i \in Probes : Running(i) /\ ~probe[i].orphan => entry = i

(* Where the monitor can be while a Mount of its last attempt is pending.  *)
Waiting == {"idle", "sweep", "lock", "recheck", "decide", "retry", "retryCheck", "binds"}

(* The path and the sessions.                                              *)
MountInv ==
    /\ path \in {Bare, cur}
    /\ path = Bare => sess[cur] = "dead"
    /\ sess[cur] # "unborn"
    /\ \A g \in Sessions : g < cur => sess[g] = "dead"
    /\ \A g \in Sessions : g > cur => sess[g] = "unborn"
    /\ mon \in {"cleaned", "mount"} => path = Bare
    /\ pending => path = Bare /\ mon \in Waiting

(* Whom a probe asked and what it heard.                                   *)
ProbeInv ==
    /\ \A i \in Probes : probe[i].of \in 0..cur
    /\ \A i \in Probes : probe[i].st = "spawned" => ~probe[i].dead
    /\ \A i \in Probes : probe[i].dead => probe[i].of # Bare /\ sess[probe[i].of] = "dead"
    /\ entry # None => probe[entry].of \in {Bare, cur}
    /\ entry # None /\ (mon = "mount" \/ pending) => probe[entry].of = Bare

(* What a caller waits for.                                                *)
CallerInv ==
    \A a \in Askers : ask[a].pc = "wait" =>
        /\ ask[a].probe \in Probes /\ probe[ask[a].probe].st # "free"
        /\ ask[a].began \in 0..cur
        /\ ask[a].began # Bare /\ sess[ask[a].began] # "dead" =>
               probe[ask[a].probe].of \in {Bare, cur}

(* The recovery's guard asks about the session that is still mounted.      *)
GuardInv ==
    mon = "dying" /\ ask[Monitor].pc = "wait" /\ path # Bare => ask[Monitor].began = path

(* The window the code opens is at least the doubled wait, and is over     *)
(* when a recovery goes on.                                                *)
BackoffInv ==
    /\ due <= window
    /\ attempts > 0 => gap <= Base * 2^Smaller(attempts - 1, MaxShift)
    /\ mon \in {"lock", "recheck", "decide"} => window = 0

IInv == TypeOK /\ RegisteredInv /\ MountInv /\ ProbeInv /\ CallerInv /\ GuardInv /\ BackoffInv
-----------------------------------------------------------------------------
(* The shift never overflows: the exponent is capped.                      *)
LEMMA WaitValue ==
    ASSUME NEW n \in 1..MaxShift + 2
    PROVE  /\ Smaller(n - 1, MaxShift) \in 0..MaxShift
           /\ Base * 2^Smaller(n - 1, MaxShift) \in Nat
           /\ Wait(n) = Smaller(Base * 2^Smaller(n - 1, MaxShift), MaxWait)
<1> DEFINE k == Smaller(n - 1, MaxShift)
           half == 2^(Width - 1)
<1>1. k \in 0..MaxShift
  BY BackoffAssumption DEF Smaller
<1>2. half \in Int /\ 2^k \in Int /\ Base * 2^k \in Int /\ Base * 2^k < half
  BY <1>1, BackoffAssumption
<1>3. 2^k \in Nat
  BY <1>1, <1>2, PowersAssumption
<1>4. Base * 2^k \in Nat
  BY <1>3, BackoffAssumption
<1> QED
  BY <1>1, <1>2, <1>4 DEF Wait, Shifted

(* One more attempt keeps the doubled wait below what the code computes.   *)
LEMMA AttemptStep ==
    ASSUME TypeOK, BackoffInv, NoteAttempt
    PROVE  /\ attempts' \in Attempts /\ attempts' > 0
           /\ window' \in 0..MaxWait /\ gap' \in 0..MaxWait /\ due' = gap'
           /\ gap' <= Base * 2^Smaller(attempts' - 1, MaxShift)
           /\ due' <= window'
<1> USE BackoffAssumption
<1>1. attempts \in 0..MaxShift + 2 /\ gap \in 0..MaxWait
  BY DEF TypeOK, Attempts
<1>2. attempts' = Smaller(attempts + 1, MaxShift + 2)
  BY DEF NoteAttempt
<1>3. attempts' \in 1..MaxShift + 2
  BY <1>1, <1>2 DEF Smaller
<1>4. gap' = IF attempts = 0 THEN Base ELSE Smaller(2 * gap, MaxWait)
  BY DEF NoteAttempt
<1>5. gap' \in 0..MaxWait
  BY <1>1, <1>4 DEF Smaller
<1> DEFINE k == Smaller(attempts' - 1, MaxShift)
<1>6. k \in 0..MaxShift /\ Base * 2^k \in Nat /\ Wait(attempts') = Smaller(Base * 2^k, MaxWait)
  BY <1>3, WaitValue
<1>7. gap' <= Base * 2^k
  <2>1. CASE attempts = 0
    <3>1. k = 0 /\ gap' = Base
      BY <2>1, <1>2, <1>4 DEF Smaller
    <3>2. 2^0 = 1
      OBVIOUS
    <3> HIDE DEF k
    <3>3. 2^k = 1
      BY <3>1, <3>2
    <3> QED
      BY <3>1, <3>3
  <2>2. CASE attempts \in 1..MaxShift
    <3> DEFINE m == attempts - 1
    <3>1. Smaller(attempts - 1, MaxShift) = m /\ k = m + 1 /\ m \in 0..MaxShift
      BY <2>2, <1>2 DEF Smaller
    <3>2. gap <= Base * 2^m
      BY <2>2, <3>1 DEF BackoffInv
    <3>3. 2^k = 2 * 2^m /\ 2^m \in Int
      BY <3>1, PowersAssumption
    <3>4. Base * 2^k = 2 * (Base * 2^m)
      BY <3>3
    <3>5. Base * 2^m \in Int
      BY <3>3
    <3> HIDE DEF m, k
    <3>6. gap' <= 2 * gap
      BY <1>1, <1>4, <2>2 DEF Smaller
    <3> QED
      BY <1>1, <1>5, <3>2, <3>4, <3>5, <3>6
  <2>3. CASE attempts > MaxShift
    <3>1. k = MaxShift
      BY <1>1, <1>2, <2>3 DEF Smaller
    <3> QED
      BY <1>5, <1>6, <3>1
  <2> QED
    BY <1>1, <2>1, <2>2, <2>3
<1> HIDE DEF k
<1>8. window' = Wait(attempts')
  BY <1>6 DEF NoteAttempt, Smaller
<1>9. window' \in 0..MaxWait /\ gap' <= window'
  BY <1>5, <1>6, <1>7, <1>8 DEF Smaller
<1> QED
  BY <1>3, <1>5, <1>7, <1>9 DEF NoteAttempt, Attempts, k

-----------------------------------------------------------------------------
ProbeObjects == [st : {"free", "spawned", "called", "returned", "dropped", "closed"},
                 of : 0..MaxMounts, dead : BOOLEAN, orphan : BOOLEAN]
Callers == [pc : {"none", "attach", "failed", "wait"},
            probe : Probes \cup {None}, began : 0..MaxMounts]

LEMMA Initials ==
    /\ NoProbe \in ProbeObjects /\ NotAsking \in Callers
    /\ [NoProbe EXCEPT !.st = "spawned"] \in ProbeObjects
    /\ \A l \in {"none", "attach", "failed", "wait"} : [NotAsking EXCEPT !.pc = l] \in Callers
<1>1. 0 \in 0..MaxMounts
  BY MountsAssumption
<1>2. NoProbe \in ProbeObjects /\ NotAsking \in Callers
  BY <1>1 DEF NoProbe, NotAsking, ProbeObjects, Callers, Bare
<1>3. \A l \in {"none", "attach", "failed", "wait"} : [NotAsking EXCEPT !.pc = l] \in Callers
  BY <1>1 DEF NotAsking, Callers, Bare
<1>4. \A r \in ProbeObjects : [r EXCEPT !.st = "spawned"] \in ProbeObjects
  BY DEF ProbeObjects
<1> QED
  BY <1>2, <1>3, <1>4

(* A caller that hears an answer leaves; the probe it was the last to wait *)
(* for is garbage.                                                         *)
LEMMA HearsEffect ==
    ASSUME TypeOK, NEW a \in Askers, NEW v, Hears(a, v)
    PROVE  /\ ask' = [ask EXCEPT ![a] = NotAsking]
           /\ probe' \in [Probes -> ProbeObjects]
           /\ \A i \in Probes : probe'[i] # probe[i] =>
                 probe'[i] = NoProbe /\ probe[i].st \in {"dropped", "closed"} /\ ~WaitedFor(i, Askers \ {a})
<1>1. probe \in [Probes -> ProbeObjects]
  BY DEF TypeOK, ProbeObjects
<1>2. ask' = [ask EXCEPT ![a] = NotAsking]
  BY DEF Hears
<1>3. probe' \in {probe, [probe EXCEPT ![ask[a].probe] = NoProbe]}
  BY <1>1 DEF Hears
<1>4. probe' # probe => probe[ask[a].probe].st \in {"dropped", "closed"} /\ ~WaitedFor(ask[a].probe, Askers \ {a})
  BY <1>1 DEF Hears
<1> QED
  BY <1>1, <1>2, <1>3, <1>4, Initials

(* A caller starts a check of the path.                                    *)
LEMMA StartEffect ==
    ASSUME NEW a \in Askers, StartCheck(a)
    PROVE  \E l \in {"attach", "failed"} : ask' = [ask EXCEPT ![a] = [NotAsking EXCEPT !.pc = l]]
BY DEF StartCheck

(* The probe of the path is cut loose.                                     *)
LEMMA ResetEffect ==
    ASSUME TypeOK, ResetProbe
    PROVE  /\ entry' = None /\ probe' \in [Probes -> ProbeObjects]
           /\ \A i \in Probes :
                /\ probe'[i].st = probe[i].st /\ probe'[i].of = probe[i].of /\ probe'[i].dead = probe[i].dead
                /\ entry # i => probe'[i] = probe[i]
                /\ entry = i => probe'[i].orphan
BY DEF TypeOK, ResetProbe, ProbeObjects

(* A caller joins the path's probe or starts a new one, taking the object  *)
(* of none that is registered or waited for.                               *)
LEMMA AttachEffect ==
    ASSUME TypeOK, RegisteredInv, CallerInv, NEW a \in Askers, Attach(a)
    PROVE  \E i \in Probes :
             /\ entry' = i
             /\ ask' = [ask EXCEPT ![a] = [pc |-> "wait", probe |-> i, began |-> path]]
             /\ \/ entry = i /\ probe' = probe
                \/ /\ entry = None
                   /\ probe' = [probe EXCEPT ![i] = [NoProbe EXCEPT !.st = "spawned"]]
                   /\ \A b \in Askers : ask[b].pc = "wait" => ask[b].probe # i
<1>1. CASE entry # None
  BY <1>1 DEF Attach, TypeOK
<1>2. CASE entry = None
  <2> DEFINE i == CHOOSE j \in FreshProbes : TRUE
  <2>1. FreshProbes # {}
    BY <1>2 DEF Attach
  <2>2. i \in FreshProbes
    BY <2>1
  <2>3. i \in Probes /\ (probe[i].st = "free" \/ ~WaitedFor(i, Askers))
    BY <2>2 DEF FreshProbes
  <2>4. \A b \in Askers : ask[b].pc = "wait" => ask[b].probe # i
    BY <2>3 DEF WaitedFor, CallerInv
  <2>5. /\ entry' = i
        /\ probe' = [probe EXCEPT ![i] = [NoProbe EXCEPT !.st = "spawned"]]
        /\ ask' = [ask EXCEPT ![a] = [pc |-> "wait", probe |-> i, began |-> path]]
    BY <1>2 DEF Attach
  <2> QED
    BY <1>2, <2>3, <2>4, <2>5
<1> QED
  BY <1>1, <1>2

(* The steps, by what they do to the probes and their callers: a caller    *)
(* asks or hears, the probe is reset, or only the mount changes.           *)
Asks(a) ==
    /\ \E c \in Callers : c.pc # "wait" /\ ask' = [ask EXCEPT ![a] = c]
    /\ UNCHANGED <<entry, probe, mountVars>>

MountStep == StopSession \/ Cleanup \/ Remount \/ Quota \/ LateMount \/ Daemon \/ Reap

LEMMA ProbeCases ==
    ASSUME TypeOK, [Next]_vars
    PROVE  \/ MountStep
           \/ UNCHANGED <<mountVars, probeVars>>
           \/ \E a \in Askers : Asks(a)
           \/ \E a \in Askers, v \in Verdicts : Hears(a, v) /\ UNCHANGED <<entry, sess, cur>>
           \/ ResetProbe /\ UNCHANGED <<mountVars, ask>>
           \/ \E i \in Probes : ProbeStep(i)
           \/ \E a \in Askers : Attach(a)
<1>1. CASE Sweep \/ MonitorLock \/ RetryLock
  <2>1. PICK a \in Askers : StartCheck(a)
    BY <1>1 DEF Sweep, MonitorLock, RetryLock, Locks, Askers
  <2>2. UNCHANGED <<entry, probe, mountVars>>
    BY <1>1 DEF Sweep, MonitorLock, RetryLock, Locks
  <2> QED
    BY <2>1, <2>2, StartEffect, Initials DEF Asks, NotAsking
<1>2. CASE StatsCheck
  <2>1. [ask[Stats] EXCEPT !.pc = "attach"] \in Callers
    BY DEF TypeOK, Callers, Askers
  <2>2. ask' = [ask EXCEPT ![Stats] = [ask[Stats] EXCEPT !.pc = "attach"]]
    BY <1>2 DEF StatsCheck
  <2>3. [ask[Stats] EXCEPT !.pc = "attach"].pc # "wait"
    BY <2>1 DEF TypeOK, Callers, Askers
  <2> QED
    BY <1>2, <2>1, <2>2, <2>3 DEF Asks, StatsCheck, Askers
<1>3. CASE Guard
  BY <1>3, Initials DEF Guard, Asks, Askers, NotAsking, probeVars
<1>4. CASE SweepVerdict \/ Recheck \/ RetryCheck \/ GuardVerdict \/ StatsVerdict
  BY <1>4 DEF SweepVerdict, Recheck, RetryCheck, GuardVerdict, StatsVerdict, Askers, mountVars
<1>5. CASE StopForgets \/ DetachForgets \/ CleanupForgets \/ UnstageForgets
  BY <1>5 DEF StopForgets, DetachForgets, CleanupForgets, UnstageForgets, Forget
<1>6. CASE Decide \/ Binds \/ Tick \/ HandlerBlocks \/ HandlerReturns \/ UNCHANGED vars
  BY <1>6 DEF Decide, Binds, Tick, HandlerBlocks, HandlerReturns, vars, mountVars, probeVars
<1> QED
  BY <1>1, <1>2, <1>3, <1>4, <1>5, <1>6 DEF Next, MonitorStep, StatsStep, MountStep

(* The types of the probes and their callers.                              *)
LEMMA ProbeTypes ==
    ASSUME TypeOK, RegisteredInv, CallerInv, [Next]_vars
    PROVE  entry' \in Probes \cup {None} /\ probe' \in [Probes -> ProbeObjects]
           /\ ask' \in [Askers -> Callers]
<1>0. /\ entry \in Probes \cup {None} /\ probe \in [Probes -> ProbeObjects]
      /\ ask \in [Askers -> Callers] /\ path \in 0..MaxMounts
  BY MountsAssumption DEF TypeOK, ProbeObjects, Callers, Sessions
<1>1. CASE MountStep \/ UNCHANGED <<mountVars, probeVars>>
  BY <1>0, <1>1 DEF MountStep, StopSession, Cleanup, Remount, Quota, LateMount, Daemon, Reap, probeVars
<1>2. ASSUME NEW a \in Askers, Asks(a) PROVE UNCHANGED <<entry, probe>> /\ ask' \in [Askers -> Callers]
  BY <1>0, <1>2 DEF Asks
<1>3. ASSUME NEW a \in Askers, NEW v, Hears(a, v), UNCHANGED entry
      PROVE  probe' \in [Probes -> ProbeObjects] /\ ask' \in [Askers -> Callers]
  BY <1>0, <1>3, HearsEffect, Initials
<1>4. CASE ResetProbe /\ UNCHANGED ask
  BY <1>0, <1>4, ResetEffect
<1>5. ASSUME NEW i \in Probes, ProbeStep(i)
      PROVE  /\ entry' \in {entry, None} /\ UNCHANGED ask
             /\ probe' \in [Probes -> ProbeObjects]
  BY <1>0, <1>5, Initials DEF ProbeStep, CallStatfs, StatfsReturns, DropProbe, CloseProbe, Ends, ProbeObjects
<1>6. ASSUME NEW a \in Askers, Attach(a)
      PROVE  /\ entry' \in Probes \cup {None} /\ probe' \in [Probes -> ProbeObjects]
             /\ ask' \in [Askers -> Callers]
  <2>1. \A i \in Probes : [pc |-> "wait", probe |-> i, began |-> path] \in Callers
    BY <1>0 DEF Callers
  <2> QED
    BY <1>0, <1>6, <2>1, Initials, AttachEffect
<1> QED
  BY <1>0, <1>1, <1>2, <1>3, <1>4, <1>5, <1>6, ProbeCases

(* A probe is registered exactly as long as it runs and was not cut loose. *)
LEMMA RegisteredStep ==
    ASSUME TypeOK, RegisteredInv, CallerInv, [Next]_vars
    PROVE  RegisteredInv'
<1>0. entry \in Probes \cup {None} /\ probe \in [Probes -> ProbeObjects]
  BY DEF TypeOK, ProbeObjects
<1> USE <1>0, ProbesAssumption DEF RegisteredInv, Running
<1>1. CASE MountStep \/ UNCHANGED <<mountVars, probeVars>>
  BY <1>1 DEF MountStep, StopSession, Cleanup, Remount, Quota, LateMount, Daemon, Reap, probeVars
<1>2. ASSUME NEW a \in Askers, Asks(a) PROVE RegisteredInv'
  BY <1>2 DEF Asks
<1>3. ASSUME NEW a \in Askers, NEW v, Hears(a, v), UNCHANGED entry PROVE RegisteredInv'
  <2>1. \A i \in Probes : probe'[i] # probe[i] => probe'[i] = NoProbe /\ probe[i].st \in {"dropped", "closed"}
    BY <1>3, HearsEffect
  <2> QED
    BY <1>3, <2>1 DEF NoProbe
<1>4. CASE ResetProbe
  BY <1>4, ResetEffect
<1>5. ASSUME NEW i \in Probes, ProbeStep(i) PROVE RegisteredInv'
  <2>1. CASE CallStatfs(i) \/ StatfsReturns(i)
    BY <2>1 DEF CallStatfs, StatfsReturns, ProbeObjects
  <2>2. CASE DropProbe(i) \/ CloseProbe(i)
    <3>1. probe'[i].st \in {"dropped", "closed", "free"} /\ \A j \in Probes : j # i => probe'[j] = probe[j]
      BY <2>2 DEF DropProbe, CloseProbe, Ends, ProbeObjects, NoProbe
    <3> QED
      BY <2>2, <3>1 DEF DropProbe, CloseProbe
  <2> QED
    BY <1>5, <2>1, <2>2 DEF ProbeStep
<1>6. ASSUME NEW a \in Askers, Attach(a) PROVE RegisteredInv'
  BY <1>6, AttachEffect DEF NoProbe
<1> QED
  BY <1>1, <1>2, <1>3, <1>4, <1>5, <1>6, ProbeCases

(* The path shows the last session or nothing; only the last can be alive. *)
(* The recovery's detach relies on the verdict being about that session.   *)
LEMMA HeardDead ==
    ASSUME TypeOK, MountInv, ProbeInv, CallerInv, NEW a \in Askers,
           ask[a].pc = "wait", probe[ask[a].probe].dead, ask[a].began # Bare
    PROVE  sess[ask[a].began] = "dead"
<1> DEFINE i == ask[a].probe
<1>1. i \in Probes /\ ask[a].began \in 0..cur
  BY DEF CallerInv
<1>2. probe[i].of # Bare /\ sess[probe[i].of] = "dead"
  BY <1>1 DEF ProbeInv
<1>3. sess[ask[a].began] # "dead" => probe[i].of \in {Bare, cur}
  BY DEF CallerInv
<1> QED
  BY <1>1, <1>2, <1>3 DEF MountInv, TypeOK, Sessions, Bare

SessionStates == {"unborn", "live", "slow", "hung", "dead"}
MountTypes == sess \in [Sessions -> SessionStates] /\ path \in 0..cur /\ cur \in Sessions /\ managed \in BOOLEAN

LEMMA MountInvStep ==
    ASSUME TypeOK, MountInv, ProbeInv, CallerInv, GuardInv, [Next]_vars
    PROVE  MountTypes' /\ MountInv'
<1>0. MountTypes
  BY DEF TypeOK, MountTypes, SessionStates
<1> USE MountsAssumption DEF MountTypes, SessionStates, MountInv, Sessions, Bare
<1>1. CASE UNCHANGED <<mountVars, mon, pending>>
  BY <1>0, <1>1 DEF mountVars
<1>2. CASE Sweep \/ SweepVerdict \/ MonitorLock \/ Recheck \/ RetryLock \/ RetryCheck \/ Decide \/ Binds
  <2>1. UNCHANGED mountVars /\ mon' \notin {"cleaned", "mount"}
    BY <1>2 DEF Sweep, SweepVerdict, MonitorLock, Recheck, RetryLock, RetryCheck, Locks, Decide, Binds
  <2>2. pending' => pending /\ mon' \in Waiting
    BY <1>2 DEF Sweep, SweepVerdict, MonitorLock, Recheck, RetryLock, RetryCheck, Locks, Decide, Binds,
                Waiting, lockVars
  <2> QED
    BY <1>0, <2>1, <2>2 DEF mountVars
<1>11. CASE Guard \/ StopForgets \/ DetachForgets \/ UnstageForgets
  <2>1. UNCHANGED <<mountVars, pending>> /\ mon' \notin {"cleaned", "mount"} /\ mon \notin Waiting
    BY <1>11 DEF Guard, StopForgets, DetachForgets, UnstageForgets, Forget, lockVars, Waiting
  <2> QED
    BY <1>0, <2>1 DEF mountVars
<1>3. CASE CleanupForgets
  BY <1>0, <1>3 DEF CleanupForgets, Forget, mountVars, lockVars, Waiting
<1>4. CASE StopSession
  BY <1>0, <1>4 DEF StopSession, lockVars, Waiting
<1>5. CASE GuardVerdict
  <2>1. mon' \notin {"cleaned", "mount"} /\ UNCHANGED <<sess, cur, managed>> /\ path' \in {path, 0}
        /\ ~pending'
    BY <1>5 DEF GuardVerdict, lockVars, Waiting
  <2>2. CASE path' # path
    <3>1. Hears(Monitor, "dead") /\ path # Bare /\ mon = "dying" /\ Monitor \in Askers
      BY <1>5, <2>2 DEF GuardVerdict, IsDead, Askers
    <3>2. ask[Monitor].pc = "wait" /\ probe[ask[Monitor].probe].dead
      BY <3>1 DEF Hears
    <3>3. ask[Monitor].began = path
      BY <3>1, <3>2 DEF GuardInv
    <3>4. sess[path] = "dead"
      BY <3>1, <3>2, <3>3, HeardDead
    <3> QED
      BY <1>0, <2>1, <3>1, <3>4
  <2> QED
    BY <1>0, <2>1, <2>2
<1>6. CASE Cleanup
  <2>1. mon' # "mount" /\ UNCHANGED <<sess, cur, managed>> /\ ~pending'
    BY <1>6 DEF Cleanup, lockVars, Waiting
  <2>2. \/ path' = path /\ mon' = "idle"
        \/ path' = 0 /\ (path = 0 \/ sess[path] = "dead")
    BY <1>0, <1>6 DEF Cleanup, Mounted
  <2> QED
    BY <1>0, <2>1, <2>2
<1>7. CASE Remount \/ LateMount
  <2>1. CASE UNCHANGED <<sess, path, cur>>
    <3>1. Remount
      BY <1>0, <1>7, <2>1 DEF LateMount, NewMount
    <3> QED
      BY <1>0, <2>1, <3>1 DEF Remount, Waiting
  <2>2. CASE /\ cur < MaxMounts /\ cur' = cur + 1 /\ path' = cur + 1
             /\ sess' = [sess EXCEPT ![cur + 1] = "live"]
    <3>1. path = 0 /\ UNCHANGED managed /\ ~pending' /\ mon' \notin {"cleaned", "mount"}
      BY <1>0, <1>7, <2>2 DEF Remount, LateMount, Waiting
    <3> QED
      BY <1>0, <2>2, <3>1
  <2> QED
    BY <1>7, <2>1, <2>2 DEF Remount, LateMount, NewMount
<1>12. CASE Quota
  <2>1. mon' \notin {"cleaned", "mount"} /\ UNCHANGED cur /\ ~pending' /\ managed' \in BOOLEAN
    BY <1>0, <1>12 DEF Quota, lockVars, Waiting
  <2>2. \/ UNCHANGED <<sess, path>>
        \/ sess' = [sess EXCEPT ![cur] = "dead"] /\ path' \in {path, 0}
    BY <1>12 DEF Quota
  <2> QED
    BY <1>0, <2>1, <2>2
<1>8. CASE Daemon
  <2>1. PICK g \in Sessions, s \in SessionStates :
            sess[g] \notin {"dead", "unborn"} /\ s # "unborn" /\ sess' = [sess EXCEPT ![g] = s]
    BY <1>8 DEF Daemon
  <2>2. g = cur /\ path # 0
    BY <1>0, <2>1
  <2> QED
    BY <1>0, <1>8, <2>1, <2>2 DEF Daemon, lockVars
<1>9. CASE Reap
  BY <1>0, <1>9 DEF Reap, Mounted, lockVars
<1>10. CASE StatsStep \/ Tick \/ HandlerBlocks \/ HandlerReturns
           \/ (\E i \in Probes : ProbeStep(i)) \/ (\E a \in Askers : Attach(a))
  <2>1. UNCHANGED <<mountVars, mon, pending>>
    BY <1>10 DEF StatsStep, StatsCheck, StatsVerdict, Tick, HandlerBlocks, HandlerReturns, lockVars, ProbeStep, CallStatfs,
                 StatfsReturns, DropProbe, CloseProbe, Attach
  <2> QED
    BY <1>1, <2>1
<1> QED
  BY <1>1, <1>2, <1>3, <1>4, <1>5, <1>6, <1>7, <1>8, <1>9, <1>10,
     <1>11, <1>12 DEF Next, MonitorStep, vars, mountVars

(* Death is final, and a new session comes only from a recovery that has   *)
(* bared the path and forgotten its probe, at once or late.                *)
LEMMA SessionsAge ==
    ASSUME TypeOK, MountInv, [Next]_vars
    PROVE  /\ \A g \in Sessions : sess[g] = "dead" => sess'[g] = "dead"
           /\ \/ cur' = cur
              \/ (/\ cur' = cur + 1 /\ (mon = "mount" \/ pending)
                  /\ mon' # "mount" /\ ~pending' /\ UNCHANGED probeVars)
           /\ (mon' = "mount" \/ pending') => mon = "mount" \/ pending \/ entry' = None
<1>0. MountTypes
  BY DEF TypeOK, MountTypes, SessionStates
<1> USE MountsAssumption DEF MountTypes, SessionStates, MountInv, Sessions, Bare
<1>1. CASE UNCHANGED <<sess, cur>> /\ (pending' => pending) /\ mon' \in {mon, "idle", "sweep", "lock", "recheck", "decide", "stop",
                  "stopped", "guard", "dying", "detached", "cleanup", "cleaned", "retry", "retryCheck", "binds"}
  BY <1>0, <1>1
<1>2. CASE CleanupForgets
  BY <1>0, <1>2 DEF CleanupForgets, Forget, mountVars, ResetProbe
<1>3. CASE StopSession \/ Quota
  BY <1>0, <1>3 DEF StopSession, Quota, lockVars
<1>4. CASE Remount \/ LateMount
  <2>1. CASE UNCHANGED <<sess, cur>>
    BY <1>0, <1>4, <2>1 DEF Remount, LateMount, NewMount
  <2>2. CASE NewMount
    <3>1. UNCHANGED probeVars /\ mon' # "mount" /\ ~pending' /\ (mon = "mount" \/ pending)
      BY <1>4, <2>2, <1>0 DEF Remount, LateMount, NewMount, Waiting
    <3> QED
      BY <1>0, <2>2, <3>1 DEF NewMount
  <2> QED
    BY <1>4, <2>1, <2>2 DEF Remount, LateMount
<1>5. CASE Daemon
  BY <1>0, <1>5 DEF Daemon, lockVars
<1>6. CASE Sweep \/ SweepVerdict \/ MonitorLock \/ RetryLock \/ RetryCheck \/ Recheck \/ Guard
  BY <1>1, <1>6 DEF Sweep, SweepVerdict, MonitorLock, RetryLock, Locks, RetryCheck, Recheck, Guard,
                    mountVars, lockVars
<1>7. CASE Decide \/ StopForgets \/ DetachForgets \/ UnstageForgets \/ Cleanup \/ Binds
  BY <1>1, <1>7 DEF Decide, StopForgets, DetachForgets, UnstageForgets, Forget, Cleanup, Binds,
                    mountVars, lockVars
<1>8. CASE GuardVerdict
  BY <1>1, <1>8 DEF GuardVerdict, lockVars
<1>9. CASE StatsStep \/ Tick \/ Reap \/ HandlerBlocks \/ HandlerReturns
          \/ (\E i \in Probes : ProbeStep(i)) \/ (\E a \in Askers : Attach(a))
  <2>1. UNCHANGED <<sess, cur, mon, pending>>
    BY <1>9 DEF StatsStep, StatsCheck, StatsVerdict, Tick, Reap, HandlerBlocks, HandlerReturns, lockVars, ProbeStep, CallStatfs,
                StatfsReturns, DropProbe, CloseProbe, Attach, mountVars
  <2> QED
    BY <1>1, <2>1
<1>10. CASE UNCHANGED vars
  BY <1>1, <1>10 DEF vars
<1> QED
  BY <1>2, <1>3, <1>4, <1>5, <1>6, <1>7, <1>8, <1>9, <1>10 DEF Next, MonitorStep

(* What a probe asked and heard stays true of it.                          *)
LEMMA ProbeInvStep ==
    ASSUME TypeOK, RegisteredInv, MountInv, ProbeInv, CallerInv, [Next]_vars
    PROVE  ProbeInv'
<1>0. /\ entry \in Probes \cup {None} /\ probe \in [Probes -> ProbeObjects]
      /\ path \in 0..cur /\ cur \in Sessions /\ sess \in [Sessions -> SessionStates]
  BY DEF TypeOK, ProbeObjects, SessionStates
<1>1. /\ \A g \in Sessions : sess[g] = "dead" => sess'[g] = "dead"
      /\ \/ cur' = cur
              \/ (/\ cur' = cur + 1 /\ (mon = "mount" \/ pending)
                  /\ mon' # "mount" /\ ~pending' /\ UNCHANGED probeVars)
      /\ (mon' = "mount" \/ pending') => mon = "mount" \/ pending \/ entry' = None
  BY SessionsAge
<1> USE MountsAssumption, ProbesAssumption DEF Sessions, Bare
<1>2. CASE UNCHANGED probeVars
  BY <1>0, <1>1, <1>2 DEF ProbeInv, probeVars
<1>3. ASSUME NEW a \in Askers, Asks(a) PROVE ProbeInv'
  BY <1>0, <1>1, <1>3 DEF ProbeInv, Asks, mountVars
<1>4. ASSUME NEW a \in Askers, NEW v, Hears(a, v), UNCHANGED <<entry, sess, cur>> PROVE ProbeInv'
  <2>1. \A i \in Probes : probe'[i] # probe[i] => probe'[i] = NoProbe /\ probe[i].st \in {"dropped", "closed"}
    BY <1>4, HearsEffect
  <2>2. entry # None => probe'[entry] = probe[entry]
    BY <1>0, <2>1 DEF RegisteredInv, Running
  <2>3. \A i \in Probes : probe'[i] = probe[i] \/ (probe'[i].of = 0 /\ ~probe'[i].dead)
    BY <2>1 DEF NoProbe
  <2> QED
    BY <1>0, <1>1, <1>4, <2>2, <2>3 DEF ProbeInv
<1>5. CASE ResetProbe /\ UNCHANGED <<mountVars, ask>>
  BY <1>0, <1>5, ResetEffect DEF ProbeInv, mountVars
<1>6. ASSUME NEW i \in Probes, ProbeStep(i) PROVE ProbeInv'
  <2>1. UNCHANGED <<mountVars, mon, pending>> /\ entry' \in {entry, None}
    BY <1>6 DEF lockVars, ProbeStep, CallStatfs, StatfsReturns, DropProbe, CloseProbe
  <2>2. CASE CallStatfs(i)
    <3>1. \A j \in Probes : probe'[j].dead = probe[j].dead /\ (j # i => probe'[j] = probe[j])
      BY <1>0, <2>2 DEF CallStatfs, ProbeObjects
    <3>2. probe'[i].of = path /\ ~probe[i].dead /\ probe'[i].st # "spawned"
      BY <1>0, <2>2 DEF CallStatfs, ProbeObjects, ProbeInv
    <3> QED
      BY <1>0, <2>1, <3>1, <3>2 DEF ProbeInv, MountInv, mountVars
  <2>3. CASE StatfsReturns(i)
    <3>1. \A j \in Probes : probe'[j].of = probe[j].of /\ (j # i => probe'[j] = probe[j])
      BY <1>0, <2>3 DEF StatfsReturns, ProbeObjects
    <3>2. probe'[i].st # "spawned" /\ (probe'[i].dead => probe[i].of # 0 /\ sess[probe[i].of] = "dead")
      BY <1>0, <2>3 DEF StatfsReturns, ProbeObjects
    <3> QED
      BY <1>0, <2>1, <3>1, <3>2 DEF ProbeInv, mountVars
  <2>4. CASE DropProbe(i) \/ CloseProbe(i)
    <3>1. probe'[i].st # "spawned" /\ \A j \in Probes : j # i => probe'[j] = probe[j]
      BY <1>0, <2>4 DEF DropProbe, CloseProbe, Ends, NoProbe, ProbeObjects
    <3>2. \/ probe'[i].of = probe[i].of /\ probe'[i].dead = probe[i].dead
          \/ probe'[i].of = 0 /\ ~probe'[i].dead
      BY <1>0, <2>4 DEF DropProbe, CloseProbe, Ends, NoProbe, ProbeObjects
    <3> QED
      BY <1>0, <2>1, <2>4, <3>1, <3>2 DEF ProbeInv, mountVars, DropProbe, CloseProbe
  <2> QED
    BY <1>6, <2>2, <2>3, <2>4 DEF ProbeStep
<1>7. ASSUME NEW a \in Askers, Attach(a) PROVE ProbeInv'
  <2>1. UNCHANGED <<mountVars, mon, pending>>
    BY <1>7 DEF Attach, lockVars
  <2>2. PICK i \in Probes :
             /\ entry' = i
             /\ \/ entry = i /\ probe' = probe
                \/ probe' = [probe EXCEPT ![i] = [NoProbe EXCEPT !.st = "spawned"]]
    BY <1>7, AttachEffect
  <2>3. CASE entry = i /\ probe' = probe
    BY <1>0, <2>1, <2>2, <2>3 DEF ProbeInv, mountVars
  <2>4. CASE probe' = [probe EXCEPT ![i] = [NoProbe EXCEPT !.st = "spawned"]]
    <3>1. probe'[i].of = 0 /\ ~probe'[i].dead
      BY <1>0, <2>4 DEF NoProbe
    <3> QED
      BY <1>0, <2>1, <2>2, <2>4, <3>1 DEF ProbeInv, mountVars
  <2> QED
    BY <2>2, <2>3, <2>4
<1> QED
  BY <1>2, <1>3, <1>4, <1>5, <1>6, <1>7, ProbeCases DEF MountStep, StopSession, Cleanup, Remount,
     Quota, LateMount, Daemon, Reap, probeVars

(* A caller's probe is not freed under it, and asks the session the caller *)
(* asked about or a later one.                                             *)
LEMMA CallerInvStep ==
    ASSUME TypeOK, RegisteredInv, MountInv, ProbeInv, CallerInv, [Next]_vars
    PROVE  CallerInv'
<1>0. /\ entry \in Probes \cup {None} /\ probe \in [Probes -> ProbeObjects]
      /\ ask \in [Askers -> Callers]
      /\ path \in 0..cur /\ cur \in Sessions /\ sess \in [Sessions -> SessionStates]
  BY DEF TypeOK, ProbeObjects, Callers, SessionStates
<1> USE MountsAssumption, ProbesAssumption DEF Sessions, Bare
<1>1. CASE UNCHANGED probeVars
  <2>1. /\ \A g \in Sessions : sess[g] = "dead" => sess'[g] = "dead"
        /\ cur' = cur \/ (cur' = cur + 1 /\ (mon = "mount" \/ pending))
    BY SessionsAge
  <2>2. CASE cur' = cur
    BY <1>0, <1>1, <2>1, <2>2 DEF CallerInv, probeVars
  <2>3. CASE cur' = cur + 1 /\ (mon = "mount" \/ pending)
    <3>1. \A g \in 1..cur : sess[g] = "dead"
      BY <1>0, <2>3 DEF MountInv
    <3>2. \A a \in Askers : ask[a].pc = "wait" => ask[a].began = 0 \/ sess'[ask[a].began] = "dead"
      BY <1>0, <2>1, <3>1 DEF CallerInv
    <3> QED
      BY <1>0, <1>1, <2>3, <3>2 DEF CallerInv, probeVars
  <2> QED
    BY <2>1, <2>2, <2>3
<1>2. ASSUME NEW a \in Askers, Asks(a) PROVE CallerInv'
  BY <1>0, <1>2 DEF CallerInv, Asks, mountVars
<1>3. ASSUME NEW a \in Askers, NEW v, Hears(a, v), UNCHANGED <<entry, sess, cur>> PROVE CallerInv'
  <2>1. /\ ask' = [ask EXCEPT ![a] = NotAsking]
        /\ \A i \in Probes : probe'[i] # probe[i] => ~WaitedFor(i, Askers \ {a})
    BY <1>3, HearsEffect
  <2>2. ASSUME NEW b \in Askers, ask'[b].pc = "wait"
        PROVE  b # a /\ ask'[b] = ask[b] /\ probe'[ask[b].probe] = probe[ask[b].probe]
    <3>1. b # a /\ ask'[b] = ask[b]
      BY <1>0, <2>1, <2>2 DEF NotAsking
    <3>2. ask[b].probe \in Probes /\ WaitedFor(ask[b].probe, Askers \ {a})
      BY <2>2, <3>1 DEF CallerInv, WaitedFor
    <3> QED
      BY <2>1, <3>1, <3>2
  <2> QED
    BY <1>0, <1>3, <2>2 DEF CallerInv
<1>4. CASE ResetProbe /\ UNCHANGED <<mountVars, ask>>
  <2>1. \A i \in Probes : probe'[i].st = probe[i].st /\ probe'[i].of = probe[i].of
    BY <1>4, ResetEffect
  <2> QED
    BY <1>0, <1>4, <2>1 DEF CallerInv, mountVars
<1>5. ASSUME NEW i \in Probes, ProbeStep(i) PROVE CallerInv'
  <2>1. UNCHANGED <<mountVars, ask>>
    BY <1>5 DEF ProbeStep, CallStatfs, StatfsReturns, DropProbe, CloseProbe
  <2>2. \A j \in Probes : j # i => probe'[j] = probe[j]
    BY <1>0, <1>5 DEF ProbeStep, CallStatfs, StatfsReturns, DropProbe, CloseProbe, Ends
  <2>3. WaitedFor(i, Askers) => probe'[i].st # "free" /\ probe'[i].of \in {probe[i].of, path}
    <3>1. CASE CallStatfs(i)
      BY <1>0, <3>1 DEF CallStatfs, ProbeObjects
    <3>2. CASE StatfsReturns(i)
      BY <1>0, <3>2 DEF StatfsReturns, ProbeObjects
    <3>3. CASE DropProbe(i) \/ CloseProbe(i)
      BY <1>0, <3>3 DEF DropProbe, CloseProbe, Ends, ProbeObjects
    <3> QED
      BY <1>5, <3>1, <3>2, <3>3 DEF ProbeStep
  <2>4. ASSUME NEW b \in Askers, ask[b].pc = "wait"
        PROVE  probe'[ask[b].probe].st # "free" /\ probe'[ask[b].probe].of \in {probe[ask[b].probe].of, path}
    BY <2>2, <2>3, <2>4 DEF CallerInv, WaitedFor
  <2> QED
    BY <1>0, <2>1, <2>4 DEF CallerInv, MountInv, mountVars
<1>6. ASSUME NEW a \in Askers, Attach(a) PROVE CallerInv'
  <2>1. UNCHANGED mountVars
    BY <1>6 DEF Attach
  <2>2. PICK i \in Probes :
             /\ entry' = i
             /\ ask' = [ask EXCEPT ![a] = [pc |-> "wait", probe |-> i, began |-> path]]
             /\ \/ entry = i /\ probe' = probe
                \/ /\ entry = None
                   /\ probe' = [probe EXCEPT ![i] = [NoProbe EXCEPT !.st = "spawned"]]
                   /\ \A b \in Askers : ask[b].pc = "wait" => ask[b].probe # i
    BY <1>6, AttachEffect
  <2>3. probe'[i].st # "free" /\ probe'[i].of \in {0, cur}
    <3>1. CASE entry = i /\ probe' = probe
      BY <3>1 DEF RegisteredInv, Running, ProbeInv
    <3>2. CASE probe' = [probe EXCEPT ![i] = [NoProbe EXCEPT !.st = "spawned"]]
      BY <1>0, <3>2 DEF NoProbe
    <3> QED
      BY <2>2, <3>1, <3>2
  <2>4. ASSUME NEW b \in Askers, b # a, ask[b].pc = "wait"
        PROVE  ask'[b] = ask[b] /\ probe'[ask[b].probe] = probe[ask[b].probe]
    BY <1>0, <2>2, <2>4 DEF CallerInv
  <2>5. \A b \in Askers : b # a => ask'[b] = ask[b]
    BY <1>0, <2>2
  <2>6. ask'[a].probe = i /\ ask'[a].began = path
    BY <1>0, <2>2
  <2> QED
    BY <1>0, <2>1, <2>3, <2>4, <2>5, <2>6 DEF CallerInv, mountVars
<1> QED
  BY <1>1, <1>2, <1>3, <1>4, <1>5, <1>6, ProbeCases DEF MountStep, StopSession, Cleanup, Remount,
     Quota, LateMount, Daemon, Reap, probeVars

(* While the guard's question is open nobody mounts anything at the path.  *)
LEMMA GuardInvStep ==
    ASSUME TypeOK, RegisteredInv, MountInv, CallerInv, GuardInv, [Next]_vars
    PROVE  GuardInv'
<1>0. ask \in [Askers -> Callers] /\ Monitor \in Askers /\ Stats \in Askers
  BY DEF TypeOK, Callers, Askers
<1>1. CASE mon' # "dying"
  BY <1>1 DEF GuardInv
<1>2. CASE Guard
  BY <1>0, <1>2 DEF Guard, GuardInv, NotAsking
<1>3. CASE (path' = path \/ path' = Bare) /\ UNCHANGED <<ask, mon>>
  BY <1>3 DEF GuardInv
<1>4. CASE StatsCheck \/ StatsVerdict
  <2>1. UNCHANGED <<path, mon>>
    BY <1>4 DEF StatsCheck, StatsVerdict, mountVars
  <2>2. ask'[Monitor] = ask[Monitor]
    <3>2. CASE StatsCheck
      BY <1>0, <3>2, NamesAssumption DEF StatsCheck
    <3>3. CASE StatsVerdict
      BY <1>0, <3>3, HearsEffect, NamesAssumption DEF StatsVerdict
    <3> QED
      BY <1>4, <3>2, <3>3
  <2> QED
    BY <2>1, <2>2 DEF GuardInv
<1>5. ASSUME NEW a \in Askers, Attach(a) PROVE GuardInv'
  <2>1. UNCHANGED <<path, mon>>
    BY <1>5 DEF Attach, mountVars
  <2>2. PICK i \in Probes : ask' = [ask EXCEPT ![a] = [pc |-> "wait", probe |-> i, began |-> path]]
    BY <1>5, AttachEffect
  <2> QED
    BY <1>0, <2>1, <2>2 DEF GuardInv
<1>6. CASE Sweep \/ SweepVerdict \/ MonitorLock \/ RetryLock \/ RetryCheck \/ Recheck \/ Decide \/ Quota \/ Binds
  BY <1>1, <1>6 DEF Sweep, SweepVerdict, MonitorLock, RetryLock, Locks, RetryCheck, Recheck, Decide, Quota, Binds
<1>7. CASE \/ StopSession \/ StopForgets \/ GuardVerdict \/ DetachForgets \/ Cleanup
           \/ CleanupForgets \/ UnstageForgets \/ Remount
  BY <1>1, <1>7 DEF StopSession, StopForgets, GuardVerdict, DetachForgets, Cleanup, CleanupForgets,
                    UnstageForgets, Remount, Forget
<1>9. CASE LateMount
  BY <1>1, <1>9 DEF LateMount, MountInv, Waiting
<1>8. CASE Tick \/ HandlerBlocks \/ HandlerReturns \/ Daemon \/ Reap \/ (\E i \in Probes : ProbeStep(i)) \/ UNCHANGED vars
  BY <1>3, <1>8 DEF Tick, HandlerBlocks, HandlerReturns, Daemon, Reap, ProbeStep, CallStatfs, StatfsReturns,
                       DropProbe, CloseProbe, probeVars, mountVars, vars
<1> QED
  BY <1>2, <1>4, <1>5, <1>6, <1>7, <1>8, <1>9 DEF Next, MonitorStep, StatsStep

(* The backoff's window is opened by an attempt, closed by a healthy check *)
(* and runs out between checks.                                            *)
Places == {"idle", "sweep", "lock", "recheck", "decide", "stop", "stopped", "guard",
           "dying", "detached", "cleanup", "cleaned", "mount", "quota", "unstaged",
           "binds", "retry", "retryCheck"}

BackoffTypes == attempts \in Attempts /\ window \in 0..MaxWait /\ gap \in 0..MaxWait /\ due \in 0..MaxWait

LEMMA BackoffInvStep ==
    ASSUME TypeOK, BackoffInv, [Next]_vars
    PROVE  mon' \in Places /\ handler' \in BOOLEAN /\ pending' \in BOOLEAN /\ BackoffTypes' /\ BackoffInv'
<1>0. mon \in Places /\ BackoffTypes /\ handler \in BOOLEAN /\ pending \in BOOLEAN
  BY DEF TypeOK, Places, BackoffTypes
<1> USE BackoffAssumption
<1> SUFFICES mon' \in Places /\ BackoffTypes' /\ BackoffInv'
  <2>1. UNCHANGED lockVars \/ Decide \/ Remount \/ HandlerBlocks \/ HandlerReturns \/ LateMount
    BY DEF Next, MonitorStep, StatsStep, Sweep, SweepVerdict, MonitorLock, RetryLock, Locks, RetryCheck,
           Recheck, Guard, GuardVerdict, StopSession, StopForgets, DetachForgets, CleanupForgets,
           UnstageForgets, Forget, Cleanup, Quota, Binds, StatsCheck, StatsVerdict, Tick, Daemon, Reap,
           ProbeStep, CallStatfs, StatfsReturns, DropProbe, CloseProbe, Attach, vars, lockVars
  <2>2. handler' \in {handler, TRUE, FALSE}
    BY <2>1 DEF lockVars, Decide, Remount, HandlerBlocks, HandlerReturns, LateMount
  <2>3. pending' \in {pending, TRUE, FALSE}
    BY <2>1 DEF lockVars, Decide, Remount, HandlerBlocks, HandlerReturns, LateMount
  <2> QED
    BY <1>0, <2>2, <2>3
<1>1. CASE /\ UNCHANGED backoffVars /\ mon' \in Places
           /\ mon' \in {"lock", "recheck", "decide"} => mon \in {"lock", "recheck", "decide"} \/ window = 0
  BY <1>0, <1>1 DEF BackoffInv, BackoffTypes, backoffVars
<1>2. CASE ResetBackoff /\ mon' \in {"idle", "retry"}
  <2>1. BackoffTypes'
    BY <1>2 DEF ResetBackoff, BackoffTypes, Attempts
  <2> QED
    BY <1>2, <2>1 DEF ResetBackoff, BackoffInv, Places
<1>3. CASE Tick
  <2>1. BackoffTypes'
    BY <1>0, <1>3 DEF Tick, BackoffTypes
  <2>2. BackoffInv'
    BY <1>0, <1>3 DEF Tick, BackoffTypes, BackoffInv
  <2> QED
    BY <1>0, <1>3, <2>1, <2>2 DEF Tick
<1>4. CASE Decide
  <2>1. mon' \in Places \ {"lock", "recheck", "decide"}
    BY <1>4 DEF Decide, Places
  <2>2. /\ attempts' \in Attempts /\ attempts' > 0
        /\ window' \in 0..MaxWait /\ gap' \in 0..MaxWait /\ due' = gap'
        /\ gap' <= Base * 2^Smaller(attempts' - 1, MaxShift)
        /\ due' <= window'
    BY <1>4, AttemptStep DEF Decide
  <2> QED
    BY <2>1, <2>2 DEF BackoffTypes, BackoffInv
<1>5. CASE SweepVerdict
  BY <1>0, <1>1, <1>2, <1>5 DEF SweepVerdict, Places, BackoffTypes
<1>6. CASE Recheck
  BY <1>1, <1>2, <1>6 DEF Recheck, Places
<1>7. CASE \/ Sweep \/ MonitorLock \/ RetryLock \/ RetryCheck \/ StopSession \/ Guard \/ GuardVerdict
           \/ Cleanup \/ Remount \/ Quota \/ Binds
  BY <1>1, <1>7 DEF Sweep, MonitorLock, RetryLock, Locks, RetryCheck, StopSession, Guard, GuardVerdict,
                    Cleanup, Remount, Quota, Binds, Places
<1>8. CASE StopForgets \/ DetachForgets \/ CleanupForgets \/ UnstageForgets
  BY <1>1, <1>8 DEF StopForgets, DetachForgets, CleanupForgets, UnstageForgets, Forget, Places
<1>9. CASE StatsStep \/ Daemon \/ HandlerBlocks \/ HandlerReturns \/ LateMount \/ Reap
          \/ (\E i \in Probes : ProbeStep(i)) \/ (\E a \in Askers : Attach(a))
           \/ UNCHANGED vars
  <2>1. UNCHANGED <<backoffVars, mon>>
    BY <1>9 DEF StatsStep, StatsCheck, StatsVerdict, Daemon, HandlerBlocks, HandlerReturns, LateMount, Reap, ProbeStep, CallStatfs,
                StatfsReturns, DropProbe, CloseProbe, Attach, vars, backoffVars
  <2> QED
    BY <1>0, <1>1, <2>1
<1> QED
  BY <1>3, <1>4, <1>5, <1>6, <1>7, <1>8, <1>9 DEF Next, MonitorStep

-----------------------------------------------------------------------------
LEMMA InitIInv == Init => IInv
<1> SUFFICES ASSUME Init PROVE IInv
  OBVIOUS
<1> USE MountsAssumption, BackoffAssumption
<1>1. probe \in [Probes -> ProbeObjects] /\ ask \in [Askers -> Callers]
  BY Initials DEF Init
<1>2. /\ sess \in [Sessions -> SessionStates] /\ path \in 0..cur /\ cur \in Sessions
      /\ sess[1] = "live" /\ \A g \in Sessions : g > 1 => sess[g] = "unborn"
  BY DEF Init, SessionStates, Sessions
<1>3. BackoffTypes /\ mon \in Places
  BY DEF Init, BackoffTypes, Attempts, Places
<1>4. TypeOK
  BY <1>1, <1>2, <1>3 DEF Init, TypeOK, ProbeObjects, Callers, SessionStates, BackoffTypes, Places
<1>5. RegisteredInv
  BY DEF Init, RegisteredInv, Running, NoProbe
<1>6. MountInv
  BY <1>2 DEF Init, MountInv, Sessions, Bare
<1>7. ProbeInv
  BY DEF Init, ProbeInv, NoProbe, Bare
<1>8. CallerInv /\ GuardInv
  BY DEF Init, CallerInv, GuardInv, NotAsking
<1>9. BackoffInv
  BY DEF Init, BackoffInv
<1> QED
  BY <1>4, <1>5, <1>6, <1>7, <1>8, <1>9 DEF IInv

LEMMA IInvStep == IInv /\ [Next]_vars => IInv'
<1> SUFFICES ASSUME IInv, [Next]_vars PROVE IInv'
  OBVIOUS
<1> USE DEF IInv
<1>1. entry' \in Probes \cup {None} /\ probe' \in [Probes -> ProbeObjects] /\ ask' \in [Askers -> Callers]
  BY ProbeTypes
<1>2. MountTypes' /\ MountInv'
  BY MountInvStep
<1>3. mon' \in Places /\ handler' \in BOOLEAN /\ pending' \in BOOLEAN /\ BackoffTypes' /\ BackoffInv'
  BY BackoffInvStep
<1>4. TypeOK'
  BY <1>1, <1>2, <1>3 DEF TypeOK, ProbeObjects, Callers, MountTypes, SessionStates, BackoffTypes, Places
<1> QED
  BY <1>2, <1>3, <1>4, RegisteredStep, ProbeInvStep, CallerInvStep, GuardInvStep

LEMMA Inductive == Spec => []IInv
BY InitIInv, IInvStep, PTL DEF Spec

(* The type invariant of the monitor's state.                              *)
THEOREM TypeCorrect == Spec => []TypeOK
BY Inductive, PTL DEF IInv

(* resetStatfsProbe and CompareAndDelete leave at most one running probe   *)
(* that is not cut loose, so a hung daemon does not collect goroutines.    *)
THEOREM OneProbe == Spec => []NoPileUp
<1>1. IInv => NoPileUp
  BY DEF IInv, RegisteredInv, NoPileUp
<1> QED
  BY <1>1, Inductive, PTL

(* probeStatfs never joins a probe that has been signalled.                *)
THEOREM JoinedRuns == Spec => []NoFinishedProbeJoined
<1>1. IInv => NoFinishedProbeJoined
  BY DEF IInv, RegisteredInv, NoFinishedProbeJoined
<1> QED
  BY <1>1, Inductive, PTL

(* A caller of probeStatfs that hears of a dead daemon asked about it.     *)
THEOREM VerdictsFresh == Spec => []FreshVerdict
<1>1. IInv => FreshVerdict
  BY HeardDead DEF IInv, FreshVerdict
<1> QED
  BY <1>1, Inductive, PTL

(* recoverVolume's lazy unmount removes only a mount of a dead daemon.     *)
THEOREM DetachSafe == Spec => DetachOnlyDead
<1>1. ASSUME IInv, [Next]_vars, mon = "dying", path' # path PROVE sess[path] = "dead"
  <2>1. GuardVerdict \/ Reap
    BY <1>1 DEF Next, MonitorStep, StatsStep, Sweep, SweepVerdict, MonitorLock, Recheck, Decide, Guard,
                RetryLock, Locks, RetryCheck, StopSession, StopForgets, DetachForgets, CleanupForgets,
                UnstageForgets, Forget, Cleanup, Remount, Quota, Binds, HandlerBlocks, HandlerReturns,
                LateMount, IInv, MountInv, Waiting, StatsCheck, StatsVerdict, Tick, Daemon, ProbeStep, CallStatfs, StatfsReturns,
                DropProbe, CloseProbe, Attach, mountVars, vars
  <2>2. CASE Reap
    BY <2>2 DEF Reap, Mounted
  <2>3. CASE GuardVerdict
    <3>1. Hears(Monitor, "dead") /\ path # Bare /\ Monitor \in Askers
      BY <1>1, <2>3 DEF GuardVerdict, IsDead, Askers
    <3>2. ask[Monitor].pc = "wait" /\ probe[ask[Monitor].probe].dead
      BY <3>1 DEF Hears
    <3>3. ask[Monitor].began = path
      BY <1>1, <3>1, <3>2 DEF IInv, GuardInv
    <3> QED
      BY <1>1, <3>1, <3>2, <3>3, HeardDead DEF IInv
  <2> QED
    BY <2>1, <2>2, <2>3
<1>2. IInv /\ [Next]_vars => [mon = "dying" /\ path' # path => sess[path] = "dead"]_vars
  BY <1>1
<1> QED
  BY <1>2, Inductive, PTL DEF Spec, DetachOnlyDead

(* noteRecoveryAttempt's capped shift and recoveryThrottled keep repeated  *)
(* attempts apart by the doubled wait, up to the maximum.                  *)
THEOREM Spaced == Spec => AttemptsSpaced
<1>1. ASSUME IInv, mon = "decide" PROVE due = 0
  <2>1. due <= window /\ window = 0
    BY <1>1 DEF IInv, BackoffInv
  <2>2. due \in 0..MaxWait
    BY <1>1 DEF IInv, TypeOK
  <2> QED
    BY <2>1, <2>2, BackoffAssumption
<1>2. IInv /\ [Next]_vars => [mon = "decide" /\ mon' # "decide" => due = 0]_vars
  BY <1>1
<1> QED
  BY <1>2, Inductive, PTL DEF Spec, AttemptsSpaced
=============================================================================
