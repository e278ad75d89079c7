---------------------------- MODULE MountService ----------------------------
(***************************************************************************)
(* What the mount service promises its callers, without saying how: every  *)
(* request takes effect in one step, the one that answers it.  `registry`  *)
(* is the service's record of which process serves a volume, `running` are *)
(* the processes that can serve.  Processes are started only for a pending *)
(* Mount and only where none runs; they may stop at any time, and a record *)
(* is dropped only after its process has stopped.                          *)
(***************************************************************************)
CONSTANTS Volumes, Handlers, Procs, None

VARIABLES
    registry,   \* volume -> the process recorded for it, or None
    running,    \* the processes that can serve
    owner,      \* process -> the volume it was started for, or None
    request,    \* handler -> the request it is working on
    result,     \* handler -> "pending", or what it answered last
    reported    \* handler -> the processes a List has put in its response

vars == <<registry, running, owner, request, result, reported>>

NoRequest == [op |-> "none", vol |-> None]

Init ==
    /\ registry = [v \in Volumes |-> None]
    /\ running = {}
    /\ owner = [p \in Procs |-> None]
    /\ request = [c \in Handlers |-> NoRequest]
    /\ result = [c \in Handlers |-> "idle"]
    /\ reported = [c \in Handlers |-> {}]

Pending(c, o) == result[c] = "pending" /\ request[c].op = o
Vol(c) == request[c].vol

Receive(c) ==
    /\ result[c] # "pending"
    /\ result' = [result EXCEPT ![c] = "pending"]
    /\ \E o \in {"mount", "unmount"}, v \in Volumes :
          request' = [request EXCEPT ![c] = [op |-> o, vol |-> v]]
    /\ UNCHANGED <<registry, running, owner, reported>>

ReceiveList(c) ==
    /\ result[c] # "pending"
    /\ result' = [result EXCEPT ![c] = "pending"]
    /\ request' = [request EXCEPT ![c] = [op |-> "list", vol |-> None]]
    /\ UNCHANGED <<registry, running, owner, reported>>

Answer(c, r) ==
    /\ result' = [result EXCEPT ![c] = r]
    /\ request' = [request EXCEPT ![c] = NoRequest]
    /\ reported' = [reported EXCEPT ![c] = {}]
    /\ UNCHANGED <<running, owner>>

(* Mount succeeds for a volume on record, or puts it there.                *)
MountAgain(c) ==
    /\ Pending(c, "mount")
    /\ registry[Vol(c)] # None
    /\ Answer(c, "ok")
    /\ UNCHANGED registry

MountNew(c) ==
    /\ Pending(c, "mount")
    /\ registry[Vol(c)] = None
    /\ \E p \in Procs : owner[p] = Vol(c) /\ registry' = [registry EXCEPT ![Vol(c)] = p]
    /\ Answer(c, "ok")

(* Unmount succeeds only when no process of the volume runs any more.      *)
Unmount(c) ==
    /\ Pending(c, "unmount")
    /\ \A p \in running : owner[p] # Vol(c)
    /\ registry' = [registry EXCEPT ![Vol(c)] = None]
    /\ Answer(c, "ok")

(* List reports what is on record at the moment it reports it.             *)
Report(c) ==
    /\ Pending(c, "list")
    /\ \E p \in Procs :
        /\ owner[p] # None /\ registry[owner[p]] = p
        /\ reported' = [reported EXCEPT ![c] = @ \cup {p}]
    /\ UNCHANGED <<registry, running, owner, request, result>>

List(c) ==
    /\ Pending(c, "list")
    /\ Answer(c, "ok")
    /\ UNCHANGED registry

Fail(c) ==
    /\ result[c] = "pending"
    /\ Answer(c, "error")
    /\ UNCHANGED registry

(* A process is started on behalf of a pending Mount.                      *)
Start(c) ==
    /\ Pending(c, "mount")
    /\ registry[Vol(c)] = None
    /\ \A p \in running : owner[p] # Vol(c)
    /\ \E p \in Procs \ running :
        /\ \A v \in Volumes : registry[v] # p
        /\ running' = running \cup {p}
        /\ owner' = [owner EXCEPT ![p] = Vol(c)]
    /\ UNCHANGED <<registry, request, result, reported>>

Stop ==
    /\ \E p \in running : running' = running \ {p}
    /\ UNCHANGED <<registry, owner, request, result, reported>>

Drop(v) ==
    /\ registry[v] # None /\ registry[v] \notin running
    /\ registry' = [registry EXCEPT ![v] = None]
    /\ UNCHANGED <<running, owner, request, result, reported>>

(* The service restarts: nothing runs, nothing is on record, no request is *)
(* answered with success.                                                  *)
Restart ==
    /\ registry' = [v \in Volumes |-> None]
    /\ running' = {}
    /\ owner' = [p \in Procs |-> None]
    /\ request' = [c \in Handlers |-> NoRequest]
    /\ result' = [c \in Handlers |-> "error"]
    /\ reported' = [c \in Handlers |-> {}]

Next ==
    \/ \E c \in Handlers : \/ Receive(c) \/ ReceiveList(c)
                           \/ MountAgain(c) \/ MountNew(c) \/ Unmount(c)
                           \/ Report(c) \/ List(c) \/ Fail(c) \/ Start(c)
    \/ \E v \in Volumes : Drop(v)
    \/ Stop \/ Restart

Spec == Init /\ [][Next]_vars
=============================================================================
