--------------------------- MODULE LeaderElection ---------------------------
(***************************************************************************)
(* The leader election of pkg/leader/leader.go: N controllers compete for  *)
(* one lock, and in each of them five goroutines and two calls share the   *)
(* leadership flag and the workloads:                                      *)
(*                                                                         *)
(*   loop     runLeaderElectionLoop, renews or acquires every 5 seconds    *)
(*   monitor  monitorLock, compares the lock's value with its own ID       *)
(*   health   monitorClusterHealth, releases when the cluster is unhealthy *)
(*   restart  monitorWorkloads, restarts unhealthy workloads               *)
(*   boot     InitializeWorkloadManagers, then Start and the goroutine it  *)
(*            leaves behind to start the workloads                         *)
(*   stop     Stop, called by the signal handler                           *)
(*                                                                         *)
(* workloadMutex serialises loop, monitor, health and stop, and nothing    *)
(* else: boot and restart never take it, and monitor and health read the   *)
(* state they act on before they take it.  A step is the code between two  *)
(* calls of the storage or of the mutex, so that everything which can      *)
(* interleave does.  Time is not modelled here: a lock that may expire     *)
(* does so at any moment (see LeaseTiming for the role of the TTL).        *)
(***************************************************************************)
EXTENDS Naturals

CONSTANTS
    Controllers,      \* the IDs of the controllers
    NoLeader,         \* the value of a lock that nobody holds
    RemainFollower,   \* the controllers configured with remainFollower
    Reentrant,        \* TryAcquireLock succeeds for the holder (not on Redis)
    MaxDBFailures,    \* maxConsecutiveDBFailures
    Expiring,         \* the controllers whose lock may expire while they lead
    Booting,          \* the controllers that start (and crash and restart)
    Stopping,         \* the controllers that may be told to stop
    Unhealthy,        \* the controllers whose cluster may be unhealthy
    Restarting,       \* the controllers whose workloads may be unhealthy
    MaxFaults         \* bound on storage errors and crashes in a behaviour

ASSUME ControllersAssumption == NoLeader \notin Controllers
ASSUME ReentrantAssumption == Reentrant \in BOOLEAN
ASSUME BoundsAssumption == MaxDBFailures \in Nat \ {0} /\ MaxFaults \in Nat

VARIABLES
    lock,       \* the holder of the unexpired lock, as the storage sees it
    leader,     \* lc.isLeader
    reported,   \* monitoringServer's IsLeader, set by UpdateLeaderStatus
    failures,   \* lc.dbFailureCount, saturated at the threshold
    degraded,   \* lc.controllerState is StateDegraded
    mutex,      \* which goroutine holds lc.workloadMutex
    stopCh,     \* lc.stopCh is closed
    ctx,        \* lc.workloadCtx
    workloads,  \* who started the workloads that now run
    loop, monitor, health, restart, boot, stop,  \* where each goroutine is
    faults      \* storage errors and crashes so far

flags == <<reported, failures, degraded>>
procs == <<loop, monitor, health, restart, boot, stop>>
vars == <<lock, leader, flags, mutex, stopCh, ctx, workloads, procs, faults>>

LoopPC == {"idle", "lock", "check", "renew", "reread", "reacquire", "read",
           "acquire", "won", "start", "lose", "stopping", "ended"}
MonitorPC == {"idle", "lock", "stopping"}
HealthPC == {"idle", "lock", "stopping"}
RestartPC == {"idle", "stop", "start"}
BootPC == {"init", "read", "acquire", "won", "start", "starting", "release",
           "unset", "done"}
StopPC == {"none", "lock", "release", "stopping", "done"}

TypeOK ==
    /\ lock \in Controllers \union {NoLeader}
    /\ leader \in [Controllers -> BOOLEAN]
    /\ reported \in [Controllers -> BOOLEAN]
    /\ failures \in [Controllers -> 0..MaxDBFailures]
    /\ degraded \in [Controllers -> BOOLEAN]
    /\ mutex \in [Controllers -> {"free", "loop", "monitor", "health", "stop"}]
    /\ stopCh \in [Controllers -> BOOLEAN]
    /\ ctx \in [Controllers -> {"none", "live", "cancelled"}]
    /\ workloads \in [Controllers -> {"stopped", "init", "boot", "loop", "restart"}]
    /\ loop \in [Controllers -> LoopPC]
    /\ monitor \in [Controllers -> MonitorPC]
    /\ health \in [Controllers -> HealthPC]
    /\ restart \in [Controllers -> RestartPC]
    /\ boot \in [Controllers -> BootPC]
    /\ stop \in [Controllers -> StopPC]
    /\ faults \in 0..MaxFaults

\* A controller outside Booting has finished Start without the lock: its
\* goroutines run, and none of its workloads does.
Init ==
    /\ lock = NoLeader
    /\ leader = [c \in Controllers |-> FALSE]
    /\ reported = [c \in Controllers |-> FALSE]
    /\ failures = [c \in Controllers |-> 0]
    /\ degraded = [c \in Controllers |-> FALSE]
    /\ mutex = [c \in Controllers |-> "free"]
    /\ stopCh = [c \in Controllers |-> FALSE]
    /\ ctx = [c \in Controllers |-> "none"]
    /\ workloads = [c \in Controllers |-> "stopped"]
    /\ loop = [c \in Controllers |-> "idle"]
    /\ monitor = [c \in Controllers |-> "idle"]
    /\ health = [c \in Controllers |-> "idle"]
    /\ restart = [c \in Controllers |-> "idle"]
    /\ boot = [c \in Controllers |-> IF c \in Booting THEN "init" ELSE "done"]
    /\ stop = [c \in Controllers |-> "none"]
    /\ faults = 0

-----------------------------------------------------------------------------
(* The mutex, the storage and the failure counter                          *)

Lock(c, g) == mutex[c] = "free" /\ mutex' = [mutex EXCEPT ![c] = g]
Unlock(c) == mutex' = [mutex EXCEPT ![c] = "free"]

Goto(pc, c, label) == pc' = [pc EXCEPT ![c] = label]

\* A storage call returns an error.
Fault == faults < MaxFaults /\ faults' = faults + 1
NoFault == UNCHANGED faults

\* incrDBFailures and the switch to StateDegraded, on a connection error.
\* The counter is only compared with the threshold, so it saturates there.
NoteFailure(c) ==
    /\ failures' = [failures EXCEPT ![c] =
                       IF @ < MaxDBFailures THEN @ + 1 ELSE @]
    /\ degraded' = [degraded EXCEPT ![c] = TRUE]

\* Mutant of NoteSuccess: the counter goes down instead of back to zero.
MutNoteSuccess(c) ==
    /\ failures' = [failures EXCEPT ![c] = @ - 1]
    /\ degraded' = [degraded EXCEPT ![c] = FALSE]

\* The reset after a storage call that answered.
NoteSuccess(c) ==
    /\ failures' = [failures EXCEPT ![c] = 0]
    /\ degraded' = [degraded EXCEPT ![c] = FALSE]

Report(c, status) == reported' = [reported EXCEPT ![c] = status]

\* storage.TryAcquireLock would succeed: SETNX on Redis, or a back-end that
\* renews a lock its caller already holds.
CanAcquire(c) == lock = NoLeader \/ (Reentrant /\ lock = c)

\* getCurrentLeader at the head of TryAcquireLeadership.  Its answer only
\* feeds previousLeader; a connection error counts, and the acquisition
\* goes on regardless.
ReadLeader(c) ==
    \/ NoFault /\ UNCHANGED <<failures, degraded>>
    \/ Fault /\ NoteFailure(c)

\* Mutant of Acquired: the leadership is not reported before the workloads
\* have started.
MutAcquired(c) ==
    /\ CanAcquire(c)
    /\ lock' = c
    /\ NoteSuccess(c)
    /\ NoFault
    /\ UNCHANGED reported

\* The rest of TryAcquireLeadership, when it returns true ...
Acquired(c) ==
    /\ CanAcquire(c)
    /\ lock' = c
    /\ NoteSuccess(c)
    /\ Report(c, TRUE)
    /\ NoFault

\* Mutant of NotAcquired: a refusal is not reported.
MutNotAcquired(c) ==
    \/ /\ ~CanAcquire(c)
       /\ NoteSuccess(c)
       /\ NoFault
       /\ UNCHANGED <<lock, reported>>
    \/ /\ Fault
       /\ lock' \in {lock} \union (IF CanAcquire(c) THEN {c} ELSE {})
       /\ UNCHANGED flags

\* ... and when it returns false: the storage refused, or it returned an
\* error, possibly after it had set the lock (the reply was lost).
NotAcquired(c) ==
    \/ /\ ~CanAcquire(c)
       /\ NoteSuccess(c)
       /\ Report(c, FALSE)
       /\ NoFault
       /\ UNCHANGED lock
    \/ /\ Fault
       /\ lock' \in {lock} \union (IF CanAcquire(c) THEN {c} ELSE {})
       /\ UNCHANGED flags

\* Mutant of ReleaseLeadership: the lock is deleted whoever holds it.
MutReleaseLeadership(c) ==
    \/ NoFault /\ lock' = NoLeader /\ Report(c, FALSE)
    \/ Fault /\ lock' \in {lock, NoLeader} /\ UNCHANGED reported

\* releaseLeadership: the storage deletes the lock only if the caller holds
\* it; on an error (the lock may be gone all the same) the reported status
\* stays as it was.
ReleaseLeadership(c) ==
    \/ /\ NoFault
       /\ lock' = IF lock = c THEN NoLeader ELSE lock
       /\ Report(c, FALSE)
    \/ /\ Fault
       /\ lock' \in {lock} \union (IF lock = c THEN {NoLeader} ELSE {})
       /\ UNCHANGED reported

\* Mutant of StopWorkloads: the context is cancelled, but StopAll is not
\* called.
MutStopWorkloads(c) ==
    /\ ctx' = [ctx EXCEPT ![c] = IF @ = "live" THEN "cancelled" ELSE @]
    /\ UNCHANGED workloads

\* stopWorkloads: cancel the workload context, then StopAll.
StopWorkloads(c) ==
    /\ ctx' = [ctx EXCEPT ![c] = IF @ = "live" THEN "cancelled" ELSE @]
    /\ workloads' = [workloads EXCEPT ![c] = "stopped"]

\* GetLeaderInfo().IsLeader, which every Start consults before it builds its
\* objects.
Reports(c) == reported[c] /\ ~degraded[c]

\* The managers start their workloads.  Without the leadership BuildContainers
\* refuses, and the managers only log it; a cron job whose object exists is
\* resumed all the same.
StartWorkloads(c, who) ==
    \/ workloads' = [workloads EXCEPT ![c] = who]
    \/ ~Reports(c) /\ UNCHANGED workloads

SetLeader(c, status) == leader' = [leader EXCEPT ![c] = status]

\* The goroutines exist from the moment Start has spawned them.  When they
\* find stopCh closed they return; but a select that finds a tick as well, as
\* after a long turn, may pick the tick, and do so again.
Started(c) == boot[c] # "init"

-----------------------------------------------------------------------------
(* runLeaderElectionLoop                                                   *)

\* A turn begins; one that remains a follower changes nothing.
LoopTick(c) ==
    /\ Started(c) /\ c \notin RemainFollower
    /\ loop[c] = "idle"
    /\ Goto(loop, c, "lock")
    /\ UNCHANGED <<lock, leader, flags, mutex, stopCh, ctx, workloads, monitor,
                   health, restart, boot, stop, faults>>

\* The loop returns.
LoopEnds(c) ==
    /\ stopCh[c] /\ loop[c] = "idle"
    /\ Goto(loop, c, "ended")
    /\ UNCHANGED <<lock, leader, flags, mutex, stopCh, ctx, workloads, monitor,
                   health, restart, boot, stop, faults>>

LoopLock(c) ==
    /\ loop[c] = "lock"
    /\ Lock(c, "loop")
    /\ Goto(loop, c, IF leader[c] THEN "check" ELSE "read")
    /\ UNCHANGED <<lock, leader, flags, stopCh, ctx, workloads, monitor,
                   health, restart, boot, stop, faults>>

\* How RenewLeadership treats a storage error: a connection error is
\* tolerated until the threshold, any other error costs the leadership.
RenewFails(c) ==
    /\ Fault
    /\ \/ /\ NoteFailure(c)
          /\ IF failures'[c] >= MaxDBFailures
             THEN Goto(loop, c, "lose") /\ UNCHANGED mutex
             ELSE Goto(loop, c, "idle") /\ Unlock(c)
       \/ /\ Goto(loop, c, "lose")
          /\ UNCHANGED <<failures, degraded, mutex>>

\* RenewLeadership, GetLockValue.
LoopCheck(c) ==
    /\ loop[c] = "check"
    /\ \/ /\ NoFault
          /\ NoteSuccess(c)
          /\ Goto(loop, c, CASE lock = NoLeader -> "reread"
                             [] lock = c -> "renew"
                             [] OTHER -> "lose")
          /\ UNCHANGED mutex
       \/ RenewFails(c)
    /\ UNCHANGED <<lock, leader, reported, stopCh, ctx, workloads, monitor,
                   health, restart, boot, stop>>

\* RenewLeadership, RenewLock.
LoopRenew(c) ==
    /\ loop[c] = "renew"
    /\ \/ /\ NoFault
          /\ NoteSuccess(c)
          /\ IF lock = c
             THEN Goto(loop, c, "idle") /\ Unlock(c)
             ELSE Goto(loop, c, "lose") /\ UNCHANGED mutex
       \/ RenewFails(c)
    /\ UNCHANGED <<lock, leader, reported, stopCh, ctx, workloads, monitor,
                   health, restart, boot, stop>>

\* TryAcquireLeadership, first half: as a follower or, when the renewal has
\* found the lock gone, as a leader.
LoopRead(c) ==
    /\ loop[c] \in {"read", "reread"}
    /\ ReadLeader(c)
    /\ Goto(loop, c, IF loop[c] = "read" THEN "acquire" ELSE "reacquire")
    /\ UNCHANGED <<lock, leader, reported, mutex, stopCh, ctx, workloads, monitor,
                   health, restart, boot, stop>>

\* Mutant of LoopAcquire: a follower tries again, with the mutex, until it has
\* the lock.
MutLoopAcquire(c) ==
    /\ loop[c] = "acquire"
    /\ \/ Acquired(c) /\ Goto(loop, c, "won")
       \/ NotAcquired(c) /\ Goto(loop, c, "read")
    /\ UNCHANGED <<leader, mutex, stopCh, ctx, workloads, monitor, health,
                   restart, boot, stop>>

\* A follower's TryAcquireLeadership, second half.
LoopAcquire(c) ==
    /\ loop[c] = "acquire"
    /\ \/ Acquired(c) /\ Goto(loop, c, "won") /\ UNCHANGED mutex
       \/ NotAcquired(c) /\ Goto(loop, c, "idle") /\ Unlock(c)
    /\ UNCHANGED <<leader, stopCh, ctx, workloads, monitor, health, restart,
                   boot, stop>>

\* The second half inside RenewLeadership: the leader keeps its workloads
\* when it gets the lock back.
LoopReacquire(c) ==
    /\ loop[c] = "reacquire"
    /\ \/ Acquired(c) /\ Goto(loop, c, "idle") /\ Unlock(c)
       \/ NotAcquired(c) /\ Goto(loop, c, "lose") /\ UNCHANGED mutex
    /\ UNCHANGED <<leader, stopCh, ctx, workloads, monitor, health, restart,
                   boot, stop>>

\* Mutant of LoopWon: the context of the previous term is kept.
MutLoopWon(c) ==
    /\ loop[c] = "won"
    /\ SetLeader(c, TRUE)
    /\ failures' = [failures EXCEPT ![c] = 0]
    /\ Goto(loop, c, "start")
    /\ UNCHANGED <<lock, reported, degraded, mutex, stopCh, ctx, workloads,
                   monitor, health, restart, boot, stop, faults>>

\* SetLeader(true), resetDBFailures, createWorkloadContext.
LoopWon(c) ==
    /\ loop[c] = "won"
    /\ SetLeader(c, TRUE)
    /\ failures' = [failures EXCEPT ![c] = 0]
    /\ ctx' = [ctx EXCEPT ![c] = "live"]
    /\ Goto(loop, c, "start")
    /\ UNCHANGED <<lock, reported, degraded, mutex, stopCh, workloads, monitor,
                   health, restart, boot, stop, faults>>

\* waitForPreviousWorkloads ends, startWorkloads, UpdateLeaderStatus(true).
\* The wait holds the mutex for up to a minute, but it ends whatever the
\* previous leader's workloads do: no workload carries the annotation it
\* looks for ("k8-highlander/..." against "k8-highlander.io/...").
LoopStart(c) ==
    /\ loop[c] = "start"
    /\ StartWorkloads(c, "loop")
    /\ Report(c, TRUE)
    /\ Goto(loop, c, "idle")
    /\ Unlock(c)
    /\ UNCHANGED <<lock, leader, failures, degraded, stopCh, ctx, monitor,
                   health, restart, boot, stop, faults>>

\* Mutant of LoopLose: the workloads stop, and the leadership stays.
MutLoopLose(c) ==
    /\ loop[c] = "lose"
    /\ \/ /\ NoFault
          /\ failures' = IF lock = NoLeader THEN failures ELSE [failures EXCEPT ![c] = 0]
       \/ Fault /\ UNCHANGED failures
    /\ Goto(loop, c, "stopping")
    /\ UNCHANGED <<lock, leader, reported, degraded, mutex, stopCh, ctx, workloads,
                   monitor, health, restart, boot, stop>>

\* The renewal failed: getCurrentLeader, which resets the counter when it
\* finds a leader, then SetLeader(false).
LoopLose(c) ==
    /\ loop[c] = "lose"
    /\ \/ /\ NoFault
          /\ failures' = IF lock = NoLeader THEN failures ELSE [failures EXCEPT ![c] = 0]
       \/ Fault /\ UNCHANGED failures
    /\ SetLeader(c, FALSE)
    /\ Goto(loop, c, "stopping")
    /\ UNCHANGED <<lock, reported, degraded, mutex, stopCh, ctx, workloads, monitor,
                   health, restart, boot, stop>>

LoopStopWorkloads(c) ==
    /\ loop[c] = "stopping"
    /\ StopWorkloads(c)
    /\ Report(c, FALSE)
    /\ Goto(loop, c, "idle")
    /\ Unlock(c)
    /\ UNCHANGED <<lock, leader, failures, degraded, stopCh, monitor, health,
                   restart, boot, stop, faults>>

LoopStep(c) ==
    \/ LoopCheck(c) \/ LoopRenew(c) \/ LoopRead(c) \/ LoopAcquire(c)
    \/ LoopReacquire(c) \/ LoopWon(c) \/ LoopStart(c) \/ LoopLose(c)
    \/ LoopStopWorkloads(c)

-----------------------------------------------------------------------------
(* monitorLock: the value is read before the mutex is taken                *)

\* It reads another controller's ID; any other answer leads to nothing.
MonitorTick(c) ==
    /\ Started(c)
    /\ monitor[c] = "idle"
    /\ lock \notin {c, NoLeader}
    /\ Goto(monitor, c, "lock")
    /\ UNCHANGED <<lock, leader, flags, mutex, stopCh, ctx, workloads, loop,
                   health, restart, boot, stop, faults>>

\* It leads by the time it has the mutex, whoever holds the lock by then.
MonitorLock(c) ==
    /\ monitor[c] = "lock"
    /\ leader[c]
    /\ Lock(c, "monitor")
    /\ SetLeader(c, FALSE)
    /\ Goto(monitor, c, "stopping")
    /\ UNCHANGED <<lock, flags, stopCh, ctx, workloads, loop, health, restart,
                   boot, stop, faults>>

\* Nothing to do: the mutex is taken and given back.
MonitorPass(c) ==
    /\ monitor[c] = "lock"
    /\ mutex[c] = "free"
    /\ ~leader[c]
    /\ Goto(monitor, c, "idle")
    /\ UNCHANGED <<lock, leader, flags, mutex, stopCh, ctx, workloads, loop,
                   health, restart, boot, stop, faults>>

MonitorStopWorkloads(c) ==
    /\ monitor[c] = "stopping"
    /\ StopWorkloads(c)
    /\ Report(c, FALSE)
    /\ Goto(monitor, c, "idle")
    /\ Unlock(c)
    /\ UNCHANGED <<lock, leader, failures, degraded, stopCh, loop, health,
                   restart, boot, stop, faults>>

-----------------------------------------------------------------------------
(* monitorClusterHealth and TriggerClusterHealthCheck: leadership is        *)
(* checked before the mutex is taken, and not again after                   *)

HealthTick(c) ==
    /\ Started(c) /\ c \in Unhealthy
    /\ health[c] = "idle"
    /\ leader[c]
    /\ Goto(health, c, "lock")
    /\ UNCHANGED <<lock, leader, flags, mutex, stopCh, ctx, workloads, loop,
                   monitor, restart, boot, stop, faults>>

HealthRelease(c) ==
    /\ health[c] = "lock"
    /\ Lock(c, "health")
    /\ ReleaseLeadership(c)
    /\ Goto(health, c, "stopping")
    /\ UNCHANGED <<leader, failures, degraded, stopCh, ctx, workloads,
                   loop, monitor, restart, boot, stop>>

HealthStopWorkloads(c) ==
    /\ health[c] = "stopping"
    /\ SetLeader(c, FALSE)
    /\ StopWorkloads(c)
    /\ Goto(health, c, "idle")
    /\ Unlock(c)
    /\ UNCHANGED <<lock, flags, stopCh, loop, monitor, restart, boot, stop,
                   faults>>

-----------------------------------------------------------------------------
(* monitorWorkloads: stops and starts unhealthy workloads, without the      *)
(* mutex and under the controller's context, which outlives its leadership  *)

\* Mutant of RestartTick: it does not matter who leads.
MutRestartTick(c) ==
    /\ Started(c) /\ c \in Restarting
    /\ restart[c] = "idle"
    /\ ~degraded[c]
    /\ Goto(restart, c, "stop")
    /\ UNCHANGED <<lock, leader, flags, mutex, stopCh, ctx, workloads, loop,
                   monitor, health, boot, stop, faults>>

RestartTick(c) ==
    /\ Started(c) /\ c \in Restarting
    /\ restart[c] = "idle"
    /\ leader[c] /\ ~degraded[c]
    /\ Goto(restart, c, "stop")
    /\ UNCHANGED <<lock, leader, flags, mutex, stopCh, ctx, workloads, loop,
                   monitor, health, boot, stop, faults>>

RestartStop(c) ==
    /\ restart[c] = "stop"
    /\ workloads' = [workloads EXCEPT ![c] = "stopped"]
    /\ Goto(restart, c, "start")
    /\ UNCHANGED <<lock, leader, flags, mutex, stopCh, ctx, loop, monitor,
                   health, boot, stop, faults>>

RestartStart(c) ==
    /\ restart[c] = "start"
    /\ StartWorkloads(c, "restart")
    /\ Goto(restart, c, "idle")
    /\ UNCHANGED <<lock, leader, flags, mutex, stopCh, ctx, loop, monitor,
                   health, boot, stop, faults>>

-----------------------------------------------------------------------------
(* The process starts: runController, then Start, none of it under the      *)
(* mutex                                                                    *)

\* InitializeWorkloadManagers: each Add starts its workload at once, before
\* there is a leadership to report, so that only cron jobs come up.
BootInit(c) ==
    /\ boot[c] = "init"
    /\ StartWorkloads(c, "init")
    /\ Goto(boot, c, IF c \in RemainFollower THEN "done" ELSE "read")
    /\ UNCHANGED <<lock, leader, flags, mutex, stopCh, ctx, loop, monitor,
                   health, restart, stop, faults>>

BootRead(c) ==
    /\ boot[c] = "read"
    /\ ReadLeader(c)
    /\ Goto(boot, c, "acquire")
    /\ UNCHANGED <<lock, leader, reported, mutex, stopCh, ctx, workloads, loop,
                   monitor, health, restart, stop>>

BootAcquire(c) ==
    /\ boot[c] = "acquire"
    /\ \/ Acquired(c) /\ Goto(boot, c, "won")
       \/ NotAcquired(c) /\ Goto(boot, c, "done")
    /\ UNCHANGED <<leader, mutex, stopCh, ctx, workloads, loop, monitor,
                   health, restart, stop>>

BootWon(c) ==
    /\ boot[c] = "won"
    /\ SetLeader(c, TRUE)
    /\ ctx' = [ctx EXCEPT ![c] = "live"]
    /\ Goto(boot, c, "start")
    /\ UNCHANGED <<lock, flags, mutex, stopCh, workloads, loop, monitor,
                   health, restart, stop, faults>>

\* The goroutine begins StartAll.  Under a cancelled context every call of
\* the Kubernetes API fails and the managers only log it; a manager that
\* cannot load its files returns a SevereError either way.
BootStart(c) ==
    /\ boot[c] = "start"
    /\ \/ ctx[c] = "live" /\ Goto(boot, c, "starting")
       \/ ctx[c] # "live" /\ (Goto(boot, c, "done") \/ Goto(boot, c, "release"))
    /\ UNCHANGED <<lock, leader, flags, mutex, stopCh, ctx, workloads, loop,
                   monitor, health, restart, stop, faults>>

\* The workloads have started, all of them or all but the failed manager's.
BootStarting(c) ==
    /\ boot[c] = "starting"
    /\ StartWorkloads(c, "boot")
    /\ Goto(boot, c, "done") \/ Goto(boot, c, "release")
    /\ UNCHANGED <<lock, leader, flags, mutex, stopCh, ctx, loop, monitor,
                   health, restart, stop, faults>>

\* A SevereError: releaseLeadership, SetLeader(false), and no stopWorkloads.
BootRelease(c) ==
    /\ boot[c] = "release"
    /\ ReleaseLeadership(c)
    /\ Goto(boot, c, "unset")
    /\ UNCHANGED <<leader, failures, degraded, mutex, stopCh, ctx, workloads,
                   loop, monitor, health, restart, stop>>

BootUnset(c) ==
    /\ boot[c] = "unset"
    /\ SetLeader(c, FALSE)
    /\ Goto(boot, c, "done")
    /\ UNCHANGED <<lock, flags, mutex, stopCh, ctx, workloads, loop, monitor,
                   health, restart, stop, faults>>

BootStep(c) ==
    \/ BootInit(c) \/ BootRead(c) \/ BootAcquire(c) \/ BootWon(c)
    \/ BootStart(c) \/ BootStarting(c) \/ BootRelease(c) \/ BootUnset(c)

-----------------------------------------------------------------------------
(* Stop                                                                    *)

StopCall(c) ==
    /\ Started(c) /\ c \in Stopping
    /\ stop[c] = "none"
    /\ Goto(stop, c, "lock")
    /\ UNCHANGED <<lock, leader, flags, mutex, stopCh, ctx, workloads, loop,
                   monitor, health, restart, boot, faults>>

StopLock(c) ==
    /\ stop[c] = "lock"
    /\ mutex[c] = "free"
    /\ stopCh' = [stopCh EXCEPT ![c] = TRUE]
    /\ IF leader[c]
       THEN mutex' = [mutex EXCEPT ![c] = "stop"] /\ Goto(stop, c, "release")
       ELSE UNCHANGED mutex /\ Goto(stop, c, "done")
    /\ UNCHANGED <<lock, leader, flags, ctx, workloads, loop, monitor, health,
                   restart, boot, faults>>

StopRelease(c) ==
    /\ stop[c] = "release"
    /\ ReleaseLeadership(c)
    /\ Goto(stop, c, "stopping")
    /\ UNCHANGED <<leader, failures, degraded, mutex, stopCh, ctx, workloads,
                   loop, monitor, health, restart, boot>>

\* SetLeader(false), StopAll, Cleanup: the workload context stays live.
StopWorkloadsAndCleanup(c) ==
    /\ stop[c] = "stopping"
    /\ SetLeader(c, FALSE)
    /\ workloads' = [workloads EXCEPT ![c] = "stopped"]
    /\ Goto(stop, c, "done")
    /\ Unlock(c)
    /\ UNCHANGED <<lock, flags, stopCh, ctx, loop, monitor, health, restart,
                   boot, faults>>

-----------------------------------------------------------------------------
(* The environment                                                         *)

\* Mutant of Expire: the lock was set without a TTL.
MutExpire == FALSE /\ UNCHANGED vars

\* Nobody renews the lock: its holder does not lead and is not about to, as
\* after a lost reply, a release that failed, or a crash.
Abandoned ==
    lock # NoLeader /\ ~leader[lock] /\ "won" \notin {loop[lock], boot[lock]}

\* The storage drops a lock whose TTL has run out, which a lock that is renewed
\* does in Expiring only.
Expire ==
    /\ lock \in Expiring \/ Abandoned
    /\ lock' = NoLeader
    /\ UNCHANGED <<leader, flags, mutex, stopCh, ctx, workloads, procs, faults>>

ExpireAbandoned == Abandoned /\ Expire

\* The process dies and is started again with the same ID.  The lock and
\* the pods survive; its goroutines and its managers do not.
Crash(c) ==
    /\ c \in Booting /\ Started(c)
    /\ Fault
    /\ leader' = [leader EXCEPT ![c] = FALSE]
    /\ reported' = [reported EXCEPT ![c] = FALSE]
    /\ failures' = [failures EXCEPT ![c] = 0]
    /\ degraded' = [degraded EXCEPT ![c] = FALSE]
    /\ mutex' = [mutex EXCEPT ![c] = "free"]
    /\ stopCh' = [stopCh EXCEPT ![c] = FALSE]
    /\ ctx' = [ctx EXCEPT ![c] = "none"]
    /\ workloads' = [workloads EXCEPT ![c] = "stopped"]
    /\ loop' = [loop EXCEPT ![c] = "idle"]
    /\ monitor' = [monitor EXCEPT ![c] = "idle"]
    /\ health' = [health EXCEPT ![c] = "idle"]
    /\ restart' = [restart EXCEPT ![c] = "idle"]
    /\ boot' = [boot EXCEPT ![c] = "init"]
    /\ stop' = [stop EXCEPT ![c] = "none"]
    /\ UNCHANGED lock

-----------------------------------------------------------------------------

LoopNext(c) == LoopTick(c) \/ LoopEnds(c) \/ LoopLock(c) \/ LoopStep(c)

MonitorNext(c) ==
    \/ MonitorTick(c) \/ MonitorLock(c) \/ MonitorPass(c)
    \/ MonitorStopWorkloads(c)

HealthNext(c) ==
    HealthTick(c) \/ HealthRelease(c) \/ HealthStopWorkloads(c)

RestartNext(c) ==
    RestartTick(c) \/ RestartStop(c) \/ RestartStart(c)

StopNext(c) ==
    StopCall(c) \/ StopLock(c) \/ StopRelease(c) \/ StopWorkloadsAndCleanup(c)

Next ==
    \/ \E c \in Controllers :
          \/ LoopNext(c) \/ MonitorNext(c) \/ HealthNext(c)
          \/ RestartNext(c) \/ BootStep(c) \/ StopNext(c) \/ Crash(c)
    \/ Expire

Spec == Init /\ [][Next]_vars

\* Whoever has the mutex goes on with what it took it for.
Section(c) ==
    \/ LoopStep(c) \/ MonitorStopWorkloads(c) \/ HealthStopWorkloads(c)
    \/ StopRelease(c) \/ StopWorkloadsAndCleanup(c)

\* The tickers fire for ever, a goroutine that runs goes on running, and
\* sync.RWMutex hands the lock to every waiter in turn.  The storage drops
\* an abandoned lock; a lock that its holder renews need not expire.
Fairness ==
    /\ \A c \in Controllers :
          /\ WF_vars(LoopTick(c) \/ LoopEnds(c)) /\ SF_vars(LoopLock(c))
          /\ SF_vars(MonitorLock(c) \/ MonitorPass(c))
          /\ WF_vars(Section(c))
          /\ WF_vars(RestartStop(c) \/ RestartStart(c))
          /\ WF_vars(BootStep(c))
    /\ \A c \in Unhealthy : SF_vars(HealthRelease(c))
    /\ \A c \in Stopping : SF_vars(StopLock(c))
    /\ WF_vars(ExpireAbandoned)

FairSpec == Spec /\ Fairness

-----------------------------------------------------------------------------
(* Safety                                                                  *)

\* The workloads that the election loop has started run only while the
\* controller leads: whoever takes the leadership away (the loop, the lock
\* monitor, the health check, Stop) also stops them before it gives the
\* mutex back.
LoopWorkloadsFollowLeadership ==
    \A c \in Controllers \ Booting :
        workloads[c] = "loop" /\ mutex[c] = "free" => leader[c]

\* A leader's workload context is live: no race of the goroutines leaves a
\* controller leading with its workloads' context cancelled.
LeaderHasLiveContext ==
    \A c \in Controllers \ Booting :
        leader[c] /\ mutex[c] = "free" => ctx[c] = "live"

\* A controller that leads holds the lock, and so is the only one to lead,
\* unless its lock has outlived its TTL: connection errors, lost replies,
\* unhealthy clusters and Stop never leave a controller that takes itself for
\* the leader without the lock, and with nothing under way to correct it.
LeaderHoldsLock ==
    \A c \in Controllers \ (Booting \union Expiring) :
        leader[c] /\ mutex[c] = "free" => lock = c

\* A controller that has been stopped, whose workloads do not run, whose loop
\* has returned, and which is not in the middle of a restart of a workload.
Retired(c) ==
    /\ stopCh[c] /\ ~leader[c] /\ workloads[c] = "stopped"
    /\ loop[c] = "ended" /\ restart[c] = "idle" /\ boot[c] = "done"

\* What makes a stopped controller lead or work is a turn of the loop, or a
\* restart that was under way: once these are over, it never leads, takes the
\* lock or starts a workload again, whatever the lock monitor, the health
\* check and Stop itself have still to do, unless the process dies and starts
\* again.
RetiredForGood ==
    [][\A c \in Controllers :
          Retired(c) => \/ Retired(c)' /\ (lock # c => lock' # c)
                        \/ boot'[c] = "init"]_vars

-----------------------------------------------------------------------------
(* What the workloads see of the election                                  *)

\* Where a controller is in the round of Leadership.
Phase(c) ==
    IF "stopping" \in {loop[c], monitor[c], health[c], stop[c]} THEN "stopping"
    ELSE IF loop[c] = "start" THEN "starting"
    ELSE IF leader[c] THEN "leading"
    ELSE "follower"

L == INSTANCE Leadership WITH
        Controllers <- Controllers \ Booting,
        Lapsing <- Expiring,
        Crashing <- {},
        term <- [c \in Controllers \ Booting |-> Phase(c)],
        reports <- [c \in Controllers \ Booting |-> Reports(c)]

\* The five goroutines, the mutex and the storage give the workloads the
\* round that Leadership describes: workloads are started by a winner and
\* stopped by a loser, no controller wins while another leads (unless a
\* lock has expired), and a controller that starts its workloads is reported
\* as the leader until they have started, so that none of them is refused.
ImplementsLeadership == L!LeadershipSpec

-----------------------------------------------------------------------------
(* Liveness                                                                *)

\* A controller that leads without the lock (it expired, or somebody else
\* holds it), and whose goroutines nobody stops, steps down or gets the lock
\* back.
StaleLeaderStepsDown ==
    \A c \in Controllers \ Stopping :
        leader[c] /\ lock # c ~> ~leader[c] \/ lock = c

\* Crashes, lost replies and failed renewals leave the system without a
\* leader for a while only: as long as one controller may lead and is not
\* told to stop, there is a leader again and again.
LeadershipResumes ==
    Controllers \ (RemainFollower \union Stopping) # {} =>
        []<>(\E c \in Controllers : leader[c])

\* Stop returns, whatever holds the mutex when it is called.
StopReturns ==
    \A c \in Stopping : stop[c] = "lock" ~> stop[c] \in {"done", "none"}

\* What the monitoring server reports of the leadership of a controller that
\* is past its Start catches up with the truth.
ReportConverges ==
    \A c \in Controllers \ (Stopping \union Booting) :
        reported[c] # leader[c] ~> reported[c] = leader[c]

-----------------------------------------------------------------------------
(* What the repository says, and the code does not do                      *)

\* Workloads "are only active on the elected leader node"
\* (pkg/workloads/manager.go): those of the configuration, of which a cron
\* job that exists runs as soon as it is read, those that Start's goroutine
\* starts, and those that monitorWorkloads restarts.
WorkloadsOnlyOnLeader ==
    \A c \in Controllers :
        workloads[c] # "stopped" /\ mutex[c] = "free" => leader[c]

\* "During failover, the new leader waits for workloads from the previous
\* leader to terminate before starting its own workloads" (leader.go).
HandoverWaitsForWorkloads ==
    \A c, d \in Controllers :
        workloads[c] = "loop" /\ workloads[d] = "loop" => c = d

\* "Stop gracefully shuts down the leader controller, releasing leadership
\* if held and stopping managed workloads" (leader.go): it stays that way.
StoppedStaysStopped ==
    \A c \in Controllers : stop[c] = "done" => ~leader[c]

=============================================================================
