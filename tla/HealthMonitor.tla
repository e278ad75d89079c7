--------------------------- MODULE HealthMonitor ----------------------------
(***************************************************************************)
(* How the node plugin learns whether one staging path is healthy, and how *)
(* often it acts on it (mount_util.go, health_monitor.go, volume_stats.go).*)
(* A statfs on a FUSE mount blocks for as long as its daemon does not      *)
(* answer, so the callers share one in-flight probe per path and give up   *)
(* after a timeout; the probe outlives them.  Callers are the monitor's    *)
(* goroutine (one per volume: activeRecoveries) and a second goroutine:    *)
(* the one that NodeGetVolumeStats calls share (one per path: activeStats) *)
(* or one that runWithTimeout left behind.  A recovery replaces the mount  *)
(* under the volume's mutex and forgets the probe.  A CSI handler of the   *)
(* staged volume competes for the mutex and, like the recovery, makes      *)
(* system calls without a timeout while it holds it.  Handlers that stage, *)
(* unstage or detach the path themselves are in NodeServer.                *)
(***************************************************************************)
EXTENDS Integers

CONSTANTS
    Probes,      \* statfsProbe objects (bound)
    MaxMounts,   \* FUSE sessions mounted at the path one after another (bound)
    Base, MaxWait, MaxShift,   \* recoveryBackoffBase, ...Max, ...MaxShift
    Width,       \* bits of a time.Duration
    Monitor, Stats, None

Sessions == 1..MaxMounts
Bare == 0   \* no mount at the path

ASSUME ProbesAssumption == None \notin Probes
ASSUME MountsAssumption == MaxMounts \in Nat \ {0}
ASSUME NamesAssumption == Monitor # Stats
ASSUME BackoffAssumption ==
    /\ Base \in Nat \ {0} /\ MaxWait \in Nat /\ MaxShift \in Nat /\ Width \in Nat \ {0}
    /\ Base <= MaxWait /\ MaxWait <= Base * 2^MaxShift
    /\ \A k \in 0..MaxShift : Base * 2^k < 2^(Width - 1)
(* Arithmetic that the provers do not know of the exponential.             *)
ASSUME PowersAssumption == \A k \in 0..MaxShift : 2^k >= 1 /\ 2^(k + 1) = 2 * 2^k

VARIABLES
    sess,       \* the FUSE sessions: "unborn", "live", "slow", "hung" or "dead"
    path,       \* the session mounted at the staging path, or Bare
    cur,        \* the session mounted last
    managed,    \* the Volume has an unmounter (it was not rebuilt)
    entry,      \* statfsProbes[path]
    probe,      \* the statfsProbe objects and their goroutines
    ask,        \* the callers of probeStatfs
    mon,        \* where the monitor's goroutine is
    handler,    \* a CSI handler holds the volume's mutex
    pending,    \* a Mount the recovery gave up waiting for is still to be served
    attempts,   \* recoveryBackoffState.attempts
    window,     \* what is left until recoveryBackoffState.notBefore
    gap,        \* the wait the constants ask for after the last attempt (history)
    due         \* what is left of it (history)

mountVars == <<sess, path, cur, managed>>
probeVars == <<entry, probe, ask>>
backoffVars == <<attempts, window, gap, due>>
lockVars == <<handler, pending>>
vars == <<sess, path, cur, managed, entry, probe, ask, mon, handler, pending,
          attempts, window, gap, due>>

Askers == {Monitor, Stats}
NoProbe == [st |-> "free", of |-> Bare, dead |-> FALSE, orphan |-> FALSE]
NotAsking == [pc |-> "none", probe |-> None, began |-> Bare]

Init ==
    /\ sess = [g \in Sessions |-> IF g = 1 THEN "live" ELSE "unborn"]
    /\ path = 1 /\ cur = 1
    /\ managed \in BOOLEAN
    /\ entry = None /\ probe = [i \in Probes |-> NoProbe]
    /\ ask = [a \in Askers |-> NotAsking]
    /\ mon = "idle" /\ handler = FALSE /\ pending = FALSE
    /\ attempts = 0 /\ window = 0 /\ gap = 0 /\ due = 0

Mounted(states) == path # Bare /\ sess[path] \in states

-----------------------------------------------------------------------------
WaitedFor(i, others) == \E b \in others : ask[b].pc = "wait" /\ ask[b].probe = i

(* The object of a new probe: one that is free or, when the pool is used   *)
(* up, that of a goroutine cut loose by a reset that nobody waits for      *)
(* (bound).                                                                *)
FreshProbes ==
    LET free == {i \in Probes : probe[i].st = "free"}
        loose == {i \in Probes : probe[i].orphan /\ ~WaitedFor(i, Askers)}
    IN IF free # {} THEN free ELSE loose

(* probeStatfs: LoadOrStore the path's probe; the one that stores it       *)
(* starts the goroutine.                                                   *)
Attach(a) ==
    /\ ask[a].pc = "attach"
    /\ entry # None \/ FreshProbes # {}
    /\ LET i == IF entry # None THEN entry ELSE CHOOSE j \in FreshProbes : TRUE IN
        /\ entry' = i
        /\ probe' = IF entry # None THEN probe
                    ELSE [probe EXCEPT ![i] = [NoProbe EXCEPT !.st = "spawned"]]
        /\ ask' = [ask EXCEPT ![a] = [pc |-> "wait", probe |-> i, began |-> path]]
    /\ UNCHANGED <<mountVars, mon, backoffVars, lockVars>>

(* The goroutine: statfsFn resolves the path when it is called and returns *)
(* when the daemon answers or is gone.                                     *)
CallStatfs(i) ==
    /\ probe[i].st = "spawned"
    /\ probe' = [probe EXCEPT ![i].st = "called", ![i].of = path]
    /\ UNCHANGED <<mountVars, entry, ask, mon, backoffVars, lockVars>>

Answers(g) == g # Bare => sess[g] \in {"live", "dead"}

StatfsReturns(i) ==
    /\ probe[i].st = "called" /\ Answers(probe[i].of)
    /\ probe' = [probe EXCEPT ![i].st = "returned",
                              ![i].dead = probe[i].of # Bare /\ sess[probe[i].of] = "dead"]
    /\ UNCHANGED <<mountVars, entry, ask, mon, backoffVars, lockVars>>

(* A probe that is no longer registered and that nobody waits for is       *)
(* garbage.                                                                *)
Ends(i, st) ==
    probe' = [probe EXCEPT ![i] = IF WaitedFor(i, Askers) THEN [@ EXCEPT !.st = st] ELSE NoProbe]

(* Mutant of DropProbe: Delete for CompareAndDelete.                       *)
DropProbeDeletes(i) ==
    /\ probe[i].st = "returned"
    /\ entry' = None
    /\ Ends(i, "dropped")
    /\ UNCHANGED <<mountVars, ask, mon, backoffVars, lockVars>>

(* Its deferred function: CompareAndDelete, ...                            *)
DropProbe(i) ==
    /\ probe[i].st = "returned"
    /\ entry' = IF entry = i THEN None ELSE entry
    /\ Ends(i, "dropped")
    /\ UNCHANGED <<mountVars, ask, mon, backoffVars, lockVars>>

(* Mutant of CloseProbe: done is closed before the entry is dropped.       *)
CloseProbeFirst(i) ==
    /\ probe[i].st \in {"returned", "dropped"}
    /\ Ends(i, "closed")
    /\ UNCHANGED <<mountVars, entry, ask, mon, backoffVars, lockVars>>

(* ... then close(probe.done).                                             *)
CloseProbe(i) ==
    /\ probe[i].st = "dropped"
    /\ Ends(i, "closed")
    /\ UNCHANGED <<mountVars, entry, ask, mon, backoffVars, lockVars>>

(* Mutant of ResetProbe: the probe of the old mount stays registered.      *)
ProbeKept == UNCHANGED <<entry, probe>>

(* resetStatfsProbe.  `orphan` remembers which goroutines it cut loose.    *)
ResetProbe ==
    /\ entry' = None
    /\ probe' = [i \in Probes |-> IF entry = i THEN [probe[i] EXCEPT !.orphan = TRUE] ELSE probe[i]]

(* isStagingPathHealthy before it probes: stat and IsMountPoint fail on a  *)
(* bare or corrupted path, unless the kernel's cache still answers for a   *)
(* dead daemon; on a hung one they may use up the caller's time.           *)
StartCheck(a) ==
    ask' \in {[ask EXCEPT ![a] = [NotAsking EXCEPT !.pc = v]] :
                v \in (IF path = Bare THEN {} ELSE {"attach"})
                      \cup (IF Mounted({"live", "slow"}) THEN {} ELSE {"failed"})}

(* What the caller hears: the check failed early, or its select takes the  *)
(* probe's result or the timeout.                                          *)
Verdicts == {"ok", "dead", "timeout", "failed"}


Hears(a, v) ==
    LET i == ask[a].probe
        closed == probe[i].st = "closed"
        last == probe[i].st \in {"dropped", "closed"} /\ ~WaitedFor(i, Askers \ {a})
    IN /\ \/ ask[a].pc = "failed" /\ v = "failed" /\ UNCHANGED probe
          \/ /\ ask[a].pc = "wait"
             /\ v = "timeout" \/ (closed /\ v = IF probe[i].dead THEN "dead" ELSE "ok")
             /\ probe' = [probe EXCEPT ![i] = IF last THEN NoProbe ELSE @]
       /\ ask' = [ask EXCEPT ![a] = NotAsking]

-----------------------------------------------------------------------------
(* The second caller: readVolumeUsageForStats, in the goroutine that       *)
(* NodeGetVolumeStats started (its own short hold of the mutex only delays *)
(* the start), or a check that outlived runWithTimeout.  Neither needs the *)
(* mutex, and one that fails before it probes leaves no trace; the usage   *)
(* the former reads by a statfs of its own touches nothing shared.         *)
StatsCheck ==
    /\ ask[Stats].pc = "none" /\ path # Bare
    /\ ask' = [ask EXCEPT ![Stats].pc = "attach"]
    /\ UNCHANGED <<mountVars, entry, probe, mon, backoffVars, lockVars>>

StatsVerdict ==
    /\ \E v \in Verdicts : Hears(Stats, v)
    /\ UNCHANGED <<mountVars, entry, mon, backoffVars, lockVars>>

-----------------------------------------------------------------------------
(* noteRecoveryAttempt: a time.Duration is a signed integer of Width bits. *)
Shifted(x, k) ==
    LET half == 2^(Width - 1)
        y == (x * 2^k) % (2 * half)
    IN IF y >= half THEN y - 2 * half ELSE y

Smaller(x, y) == IF x <= y THEN x ELSE y

(* Mutant of Wait: the exponent is not capped.                             *)
WaitUncapped(n) == Smaller(Shifted(Base, n - 1), MaxWait)

Wait(n) == Smaller(Shifted(Base, Smaller(n - 1, MaxShift)), MaxWait)

(* The count saturates where the exponent's cap has been passed (bound).   *)
(* `gap` is what the constants' comment asks for: repeated attempts double *)
(* the wait, up to the maximum.                                            *)
Attempts == 0..MaxShift + 2

NoteAttempt ==
    /\ attempts' = Smaller(attempts + 1, MaxShift + 2)
    /\ LET w == Wait(attempts') IN window' = IF w < 0 THEN 0 ELSE w
    /\ gap' = IF attempts = 0 THEN Base ELSE Smaller(2 * gap, MaxWait)
    /\ due' = gap'

ResetBackoff == attempts' = 0 /\ window' = 0 /\ gap' = 0 /\ due' = 0

(* Time passes between two checks: a check reads the clock once, before it *)
(* opens a new window, so its own duration could only widen the distance.  *)
Tick ==
    /\ mon = "idle" /\ (window > 0 \/ due > 0)
    /\ window' = IF window > 0 THEN window - 1 ELSE 0
    /\ due' = IF due > 0 THEN due - 1 ELSE 0
    /\ UNCHANGED <<mountVars, probeVars, mon, attempts, gap, lockVars>>

-----------------------------------------------------------------------------
(* launchVolumeHealthCheck and performVolumeHealthCheck.                   *)
Sweep ==
    /\ mon = "idle"
    /\ mon' = "sweep" /\ StartCheck(Monitor)
    /\ UNCHANGED <<mountVars, entry, probe, backoffVars, lockVars>>

(* recoveryThrottled is asked before the mutex is taken; with it,          *)
(* recoverVolume checks the health again.  A healthy volume goes on to its *)
(* publish paths, some of which retryPublishPaths may have to bind again.  *)
SweepVerdict ==
    /\ mon = "sweep"
    /\ \E v \in Verdicts :
        /\ Hears(Monitor, v)
        /\ IF v = "ok" THEN mon' \in {"idle", "retry"} /\ ResetBackoff
           ELSE mon' = (IF window > 0 THEN "idle" ELSE "lock") /\ UNCHANGED backoffVars
    /\ UNCHANGED <<mountVars, entry, lockVars>>

Locks(from, to) ==
    /\ mon = from /\ ~handler
    /\ mon' = to /\ StartCheck(Monitor)
    /\ UNCHANGED <<mountVars, entry, probe, backoffVars, lockVars>>

MonitorLock == Locks("lock", "recheck")
RetryLock == Locks("retry", "retryCheck")

RetryCheck ==
    /\ mon = "retryCheck"
    /\ \E v \in Verdicts : Hears(Monitor, v) /\ mon' = IF v = "ok" THEN "binds" ELSE "idle"
    /\ UNCHANGED <<mountVars, entry, backoffVars, lockVars>>

Recheck ==
    /\ mon = "recheck"
    /\ \E v \in Verdicts :
        /\ Hears(Monitor, v)
        /\ IF v = "ok" THEN mon' = "idle" /\ ResetBackoff
           ELSE mon' = "decide" /\ UNCHANGED backoffVars
    /\ UNCHANGED <<mountVars, entry, lockVars>>

(* live: stat answers for a slow daemon, and from the cache it may answer  *)
(* for one that is dead or hung.                                           *)
Live == IF Mounted({"live", "slow"}) THEN {TRUE} ELSE IF path = Bare THEN {FALSE} ELSE BOOLEAN

(* CSI calls publish and unpublish between two recoveries, so the volume   *)
(* may have publish paths or none.  A Mount that an earlier attempt gave   *)
(* up on, a backoff ago, is no longer to be expected (bound).              *)
Decide ==
    /\ mon = "decide"
    /\ NoteAttempt
    /\ pending' = FALSE
    /\ \E published \in BOOLEAN, live \in Live :
        mon' = IF published /\ live THEN "idle" ELSE IF managed THEN "stop" ELSE "guard"
    /\ UNCHANGED <<mountVars, probeVars, handler>>

(* The manager's Unmount stops the process; the unmount of the path that   *)
(* follows its exit may fail silently.  The call itself may fail.          *)
StopSession ==
    /\ mon = "stop"
    /\ \/ /\ sess' = [sess EXCEPT ![cur] = "dead"]
          /\ path' \in {path, Bare}
          /\ mon' = "stopped"
       \/ mon' = "idle" /\ UNCHANGED <<sess, path>>
    /\ UNCHANGED <<cur, managed, probeVars, backoffVars, lockVars>>

Forget(from, to) ==
    /\ mon = from /\ mon' = to
    /\ ResetProbe
    /\ UNCHANGED <<mountVars, ask, backoffVars, lockVars>>

StopForgets == Forget("stopped", "guard")

(* isLikelyNotMountPoint: its Lstat has no timeout and blocks on a hung    *)
(* daemon; an error, or a bare path, skips the guard.                      *)
Guard ==
    /\ mon = "guard" /\ ~Mounted({"hung"})
    /\ \/ /\ ~Mounted({"live", "slow"})
          /\ mon' = "cleanup" /\ UNCHANGED ask
       \/ /\ path # Bare
          /\ mon' = "dying" /\ ask' = [ask EXCEPT ![Monitor] = [NotAsking EXCEPT !.pc = "attach"]]
    /\ UNCHANGED <<mountVars, entry, probe, backoffVars, lockVars>>

(* Mutant of IsDead: a probe that timed out counts as a dead mount.        *)
IsDeadOrSlow(v) == v \in {"dead", "timeout"}

(* isDeadMount's answer                                                    *)
IsDead(v) == v = "dead"

GuardVerdict ==
    /\ mon = "dying"
    /\ \E v \in Verdicts :
        /\ Hears(Monitor, v)
        /\ \/ IsDead(v) /\ path # Bare /\ path' = Bare /\ mon' = "detached"
           \/ mon' = "idle" /\ UNCHANGED path
    /\ UNCHANGED <<sess, cur, managed, entry, backoffVars, lockVars>>

DetachForgets == Forget("detached", "cleanup")

(* cleanupStaleStagingPath: it forgets the probe only when it has removed  *)
(* the path; it refuses a path that is still mounted.  Its Lstat has no    *)
(* timeout either.                                                         *)
Cleanup ==
    /\ mon = "cleanup" /\ ~Mounted({"hung"})
    /\ \/ ~Mounted({"live", "slow"}) /\ path' = Bare /\ mon' = "cleaned"
       \/ ~Mounted({"live", "slow"}) /\ path' = Bare /\ mon' = "idle"
       \/ path' = path /\ mon' = "idle"
    /\ UNCHANGED <<sess, cur, managed, probeVars, backoffVars, lockVars>>

CleanupForgets == Forget("cleaned", "mount")

(* A new session at the path, at most MaxMounts - 1 times (bound).         *)
NewMount ==
    /\ cur < MaxMounts
    /\ cur' = cur + 1 /\ path' = cur + 1
    /\ sess' = [sess EXCEPT ![cur + 1] = "live"]

(* Mutant of Remount: the new mount is not recorded.                       *)
RemountUnrecorded ==
    /\ mon = "mount" /\ mon' = "quota"
    /\ cur < MaxMounts
    /\ path' = cur + 1 /\ sess' = [sess EXCEPT ![cur + 1] = "live"]
    /\ UNCHANGED <<cur, managed, probeVars, backoffVars, lockVars>>

(* stageNewVolume mounts.  A Mount that failed may have taken effect, or,  *)
(* when the client's timeout ended it, may still be served.                *)
Remount ==
    /\ mon = "mount"
    /\ \/ NewMount /\ mon' \in {"quota", "idle"} /\ UNCHANGED pending
       \/ cur < MaxMounts /\ mon' = "idle" /\ pending' = TRUE /\ UNCHANGED <<sess, path, cur>>
       \/ mon' = "idle" /\ UNCHANGED <<sess, path, cur, pending>>
    /\ UNCHANGED <<managed, probeVars, backoffVars, handler>>

(* Volume.Quota: Configure has no deadline and waits for the new daemon as *)
(* long as it does not answer.  When it fails the volume is unstaged.      *)
Quota ==
    /\ mon = "quota" /\ sess[cur] # "hung"
    /\ \/ mon' = "binds" /\ managed' = TRUE /\ UNCHANGED <<sess, path>>
       \/ /\ sess' = [sess EXCEPT ![cur] = "dead"]
          /\ path' = Bare /\ mon' = "unstaged" /\ UNCHANGED managed
       \/ /\ sess' \in {sess, [sess EXCEPT ![cur] = "dead"]}
          /\ mon' = "idle" /\ UNCHANGED <<path, managed>>
    /\ UNCHANGED <<cur, probeVars, backoffVars, lockVars>>

UnstageForgets == Forget("unstaged", "idle")

(* The publish paths are torn down and bound again: CleanupMountPoint and  *)
(* checkMount have no timeout.                                             *)
Binds ==
    /\ mon = "binds" /\ ~Mounted({"hung"})
    /\ mon' = "idle"
    /\ UNCHANGED <<mountVars, probeVars, backoffVars, lockVars>>

MonitorStep ==
    \/ SweepVerdict \/ MonitorLock \/ Recheck \/ RetryLock \/ RetryCheck \/ Decide
    \/ StopSession \/ StopForgets \/ Guard \/ GuardVerdict
    \/ DetachForgets \/ Cleanup \/ CleanupForgets
    \/ Remount \/ Quota \/ UnstageForgets \/ Binds

-----------------------------------------------------------------------------
(* A CSI handler of the staged volume (publish, unpublish, expansion) takes *)
(* the mutex, which a recovery holds from its lock on, and works on the    *)
(* mount: stat, IsLikelyNotMountPoint, CleanupMountPoint and Configure     *)
(* have no timeout.  Here only one that meets a hung daemon matters: any   *)
(* other releases the mutex, and what it does is NodeServer's.             *)
Recovering == mon \notin {"idle", "sweep", "lock", "retry"}

HandlerBlocks ==
    /\ ~handler /\ ~Recovering /\ Mounted({"hung"})
    /\ handler' = TRUE
    /\ UNCHANGED <<mountVars, probeVars, mon, backoffVars, pending>>

HandlerReturns ==
    /\ handler /\ ~Mounted({"hung"})
    /\ handler' = FALSE
    /\ UNCHANGED <<mountVars, probeVars, mon, backoffVars, pending>>

(* The mount service serves the Mount that the recovery gave up on.        *)
LateMount ==
    /\ pending /\ pending' = FALSE
    /\ NewMount
    /\ UNCHANGED <<managed, probeVars, mon, handler, backoffVars>>

-----------------------------------------------------------------------------
(* The daemon of a session: slow when statfs misses its budget, hung when  *)
(* nothing is answered; either may pass.  Death is final.                  *)
Daemon ==
    /\ \E g \in Sessions, s \in {"live", "slow", "hung", "dead"} :
        /\ sess[g] \in {"live", "slow", "hung"} \ {s}
        /\ sess' = [sess EXCEPT ![g] = s]
    /\ UNCHANGED <<path, cur, managed, probeVars, mon, backoffVars, lockVars>>

(* The mount service's wait() unmounts the path of a process that exited;  *)
(* the plugin does not learn of it.                                        *)
Reap ==
    /\ Mounted({"dead"})
    /\ path' = Bare
    /\ UNCHANGED <<sess, cur, managed, probeVars, mon, backoffVars, lockVars>>

ProbeStep(i) == CallStatfs(i) \/ StatfsReturns(i) \/ DropProbe(i) \/ CloseProbe(i)
StatsStep == StatsCheck \/ StatsVerdict

Next ==
    \/ Sweep \/ MonitorStep \/ StatsStep \/ Tick \/ Daemon \/ Reap
    \/ HandlerBlocks \/ HandlerReturns \/ LateMount
    \/ \E i \in Probes : ProbeStep(i)
    \/ \E a \in Askers : Attach(a)

Spec == Init /\ [][Next]_vars

-----------------------------------------------------------------------------
TypeOK ==
    /\ sess \in [Sessions -> {"unborn", "live", "slow", "hung", "dead"}]
    /\ path \in 0..cur /\ cur \in Sessions
    /\ managed \in BOOLEAN
    /\ entry \in Probes \cup {None}
    /\ probe \in [Probes -> [st : {"free", "spawned", "called", "returned", "dropped", "closed"},
                            of : 0..MaxMounts, dead : BOOLEAN, orphan : BOOLEAN]]
    /\ ask \in [Askers -> [pc : {"none", "attach", "failed", "wait"},
                          probe : Probes \cup {None}, began : 0..MaxMounts]]
    /\ mon \in {"idle", "sweep", "lock", "recheck", "decide", "stop", "stopped", "guard",
               "dying", "detached", "cleanup", "cleaned", "mount", "quota", "unstaged",
               "binds", "retry", "retryCheck"}
    /\ handler \in BOOLEAN /\ pending \in BOOLEAN
    /\ attempts \in Attempts
    /\ window \in 0..MaxWait /\ gap \in 0..MaxWait /\ due \in 0..MaxWait

(* A caller never takes the death of an earlier mount for the death of the *)
(* one it asked about: whoever called probeStatfs while a session was      *)
(* mounted hears "dead" only if that session is dead, although probes are  *)
(* shared, outlive their callers and race the remount (resetStatfsProbe).  *)
FreshVerdict ==
    \A a \in Askers :
        LET p == probe[ask[a].probe] IN
        ask[a].pc = "wait" /\ p.st = "closed" /\ p.dead =>
            ask[a].began = Bare \/ sess[ask[a].began] = "dead"

Running(i) == probe[i].st \in {"spawned", "called", "returned"}

(* A hung daemon holds at most one statfs goroutine per registered path:   *)
(* a probe cut loose by a reset, ending late, must not unregister the      *)
(* newer probe, or the next caller would start another (CompareAndDelete). *)
NoPileUp ==
    \A i, j \in Probes :
        Running(i) /\ ~probe[i].orphan /\ Running(j) /\ ~probe[j].orphan => i = j

(* A caller never joins a probe whose done is closed, or about to be: a    *)
(* registered probe has its CompareAndDelete still ahead of it, however    *)
(* callers come between that and the close ("drop the map entry before     *)
(* signalling completion").                                                *)
NoFinishedProbeJoined ==
    entry # None => Running(entry)

(* The recovery's lazy unmount removes only a mount whose daemon is dead,  *)
(* whatever became of the daemon, the path and the shared probe since the  *)
(* question was asked.                                                     *)
DetachOnlyDead ==
    [][mon = "dying" /\ path' # path => sess[path] = "dead"]_vars

(* Two recovery attempts of a volume that was not seen healthy in between  *)
(* are apart by the doubled wait, capped at the maximum, however many      *)
(* attempts there were.                                                    *)
AttemptsSpaced == [][mon = "decide" /\ mon' # "decide" => due = 0]_vars

(* The waits of a check that no timeout ends, all with the mutex held or   *)
(* in the queue for it: the mount's daemon hangs under the guard's or the  *)
(* cleanup's Lstat, the work on the publish paths or a handler, or the new *)
(* daemon under Configure.                                                 *)
Stuck ==
    \/ mon \in {"guard", "cleanup", "binds"} /\ Mounted({"hung"})
    \/ mon = "quota" /\ sess[cur] = "hung"
    \/ mon \in {"lock", "retry"} /\ handler /\ Mounted({"hung"})

=============================================================================
