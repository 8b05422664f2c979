-------------------------- MODULE WorkloadManager --------------------------
(***************************************************************************)
(* pkg/workloads/manager.go, and the manager of one kind of workload with  *)
(* the one workload that it may have (process_manager.go and its like).    *)
(* One controller, Me.  StartAll and StopAll are called by the election;   *)
(* AddWorkload, RemoveWorkload and GetWorkload by the CRD watcher.         *)
(*                                                                         *)
(* A workload object is a version of a configuration.  Each AddWorkload    *)
(* makes one, and those that hold one may call its Start and Stop when the *)
(* map has it no longer.  All that bear one name share one cluster object. *)
(***************************************************************************)
EXTENDS Naturals, Sequences, Leadership

CONSTANTS
    Me,           \* the controller
    Kinds,        \* the kinds of workload to consider
    MaxVersion,   \* bound on the versions of the configuration
    MaxRetriers,  \* bound on the retry goroutines
    MaxFaults     \* bound on failed requests

ASSUME MeAssumption == Me \in Controllers
ASSUME KindsAssumption == Kinds \subseteq {"process", "service", "cronjob"}
ASSUME BoundsAssumption ==
    MaxVersion \in Nat /\ MaxRetriers \in Nat /\ MaxFaults \in Nat

VARIABLES
    kind,          \* a stateful set is treated as a deployment is
    entry,         \* the workload in the manager's map, 0 when there is none
    spec,          \* what the cluster object was last given, 0 before that
    running,       \* there is a pod, or replicas, or a cron job not suspended
    failed,        \* failedWorkloads has the manager of the workload
    shuttingDown,
    retriers,      \* how many goroutines run retryFailedWorkloads
    retry,         \* how many of them have passed its checks
    forgetting,    \* how many have started the manager, and will say so
    election,      \* where startWorkloads or stopWorkloads is
    faults

cluster == <<spec, running>>
retrying == <<failed, shuttingDown, retriers, retry, forgetting>>

\* The retry goroutines that are in the middle of one.
InFlight == retry + forgetting

Versions == 1..MaxVersion

ManagerTypeOK ==
    /\ LeadershipTypeOK
    /\ kind \in Kinds
    /\ entry \in 0..MaxVersion
    /\ spec \in 0..MaxVersion
    /\ running \in BOOLEAN
    /\ failed \in BOOLEAN
    /\ shuttingDown \in BOOLEAN
    /\ retriers \in 0..MaxRetriers
    /\ retry \in Nat /\ forgetting \in Nat
    /\ InFlight <= retriers
    /\ election \in {"idle", "startAll", "clear", "start", "informers", "list",
                     "sync", "stopAll", "stopWatcher"}
    /\ faults \in 0..MaxFaults

Fault == faults < MaxFaults /\ faults' = faults + 1
NoFault == UNCHANGED faults

-----------------------------------------------------------------------------
(* Workloads                                                               *)

\* A Start of version v may succeed: the leadership is reported, or there is
\* a cron job to resume.
Startable == reports[Me] \/ (kind = "cronjob" /\ spec # 0)

\* Mutant of Given: what the deployment was given is preserved.
MutGiven(v) == IF running \/ (kind # "process" /\ spec # 0) THEN spec ELSE v

\* A pod that runs is left alone, a deployment is given v, and of a cron job
\* that exists only "suspend" is set.
Given(v) ==
    CASE kind = "process" -> IF running THEN spec ELSE v
      [] kind = "service" -> v
      [] kind = "cronjob" -> IF spec = 0 THEN v ELSE spec

Starts(v) ==
    /\ Startable
    /\ running' = TRUE
    /\ spec' = Given(v)

\* Stop takes down what has the name, whoever has started it.
Stops ==
    /\ running' = FALSE
    /\ UNCHANGED spec

\* The Start of the manager, when its files can be read: it starts what it
\* has, and swallows the errors.
ManagerStarts ==
    IF entry # 0 /\ Startable THEN Starts(entry) ELSE UNCHANGED cluster

\* It does, or a request on the way fails, before or after its effect.
ManagerTries ==
    \/ NoFault /\ ManagerStarts
    \/ Fault /\ (ManagerStarts \/ UNCHANGED cluster)

-----------------------------------------------------------------------------
(* startWorkloads and stopWorkloads                                        *)

\* Each StartAll starts another retry goroutine, and none of them ends before
\* the process does.
Spawn == retriers' = IF retriers < MaxRetriers THEN retriers + 1 ELSE retriers

ElectionWins ==
    /\ election = "idle"
    /\ Win(Me)
    /\ election' = "startAll"
    /\ UNCHANGED <<kind, entry, cluster, retrying, faults>>

\* Mutant of StartAll: isShuttingDown is not reset.
MutStartAll ==
    /\ election = "startAll"
    /\ election' = "clear"
    /\ UNCHANGED <<leadership, kind, entry, cluster, retrying, faults>>

\* StartAll allows retries again.
StartAll ==
    /\ election = "startAll"
    /\ shuttingDown' = FALSE
    /\ election' = "clear"
    /\ UNCHANGED <<leadership, kind, entry, cluster, failed, retriers, retry,
                   forgetting, faults>>

\* It forgets what had failed before; a retry in flight does not.
StartAllClears ==
    /\ election = "clear"
    /\ failed' = FALSE
    /\ Spawn
    /\ election' = "start"
    /\ UNCHANGED <<leadership, kind, entry, cluster, shuttingDown, retry,
                   forgetting, faults>>

\* The Start of the manager: a request of the workload's Start may fail,
\* which the manager swallows.  Or its files cannot be read, which has no
\* effect but that failedWorkloads gets it; StartAll fails, and the CRD
\* watcher is not started.
StartAllStarts ==
    /\ election = "start"
    /\ \/ /\ ManagerTries
          /\ election' = "informers"
          /\ UNCHANGED <<leadership, failed>>
       \/ /\ Fault
          /\ failed' = TRUE
          /\ Started(Me)
          /\ election' = "idle"
          /\ UNCHANGED cluster
    /\ UNCHANGED <<kind, entry, shuttingDown, retriers, retry, forgetting>>

\* So it does when the manager of another kind has failed.
OtherManagerFails ==
    /\ election = "informers"
    /\ Fault
    /\ Started(Me)
    /\ election' = "idle"
    /\ UNCHANGED <<kind, entry, cluster, retrying>>

ElectionLoses ==
    /\ election = "idle"
    /\ Lose(Me)
    /\ IF term[Me] = "leading" THEN NoFault ELSE Fault
    /\ election' = "stopAll"
    /\ UNCHANGED <<kind, entry, cluster, retrying>>

\* StopAll stops what the map has; the managers swallow the errors.
StopAll ==
    /\ election = "stopAll"
    /\ shuttingDown' = TRUE
    /\ \/ NoFault /\ entry # 0 /\ Stops
       \/ NoFault /\ entry = 0 /\ UNCHANGED cluster
       \/ Fault /\ entry # 0 /\ UNCHANGED cluster
    /\ election' = "stopWatcher"
    /\ UNCHANGED <<leadership, kind, entry, failed, retriers, retry, forgetting>>

\* What is reported changes: for the worse when the storage fails.
ElectionReports ==
    /\ Announce(Me) \/ Degrade(Me)
    /\ IF reports'[Me] THEN NoFault ELSE Fault
    /\ UNCHANGED <<kind, entry, cluster, retrying, election>>

-----------------------------------------------------------------------------
(* retryFailedWorkloads                                                    *)

RetryBegins ==
    /\ InFlight < retriers
    /\ failed /\ ~shuttingDown
    /\ retry' = retry + 1
    /\ UNCHANGED <<leadership, kind, entry, cluster, failed, shuttingDown, retriers,
                   forgetting, election, faults>>

\* It starts the manager, whatever has happened since, and holds no lock.
\* When that fails it has no effect but the new entry of failedWorkloads.
RetryStarts ==
    /\ retry > 0
    /\ retry' = retry - 1
    /\ \/ /\ ManagerTries
          /\ forgetting' = forgetting + 1
          /\ UNCHANGED failed
       \/ /\ Fault
          /\ failed' = TRUE
          /\ UNCHANGED <<cluster, forgetting>>
    /\ UNCHANGED <<leadership, kind, entry, shuttingDown, retriers, election>>

\* Mutant of RetryForgets: the manager stays among those that have failed.
MutRetryForgets ==
    /\ forgetting > 0
    /\ forgetting' = forgetting - 1
    /\ UNCHANGED <<leadership, kind, entry, cluster, failed, shuttingDown, retriers,
                   retry, election, faults>>

\* Then it deletes the manager from failedWorkloads, what StartAll may have
\* entered meanwhile.
RetryForgets ==
    /\ forgetting > 0
    /\ forgetting' = forgetting - 1
    /\ failed' = FALSE
    /\ UNCHANGED <<leadership, kind, entry, cluster, shuttingDown, retriers, retry,
                   election, faults>>

Retry == RetryBegins \/ RetryStarts \/ RetryForgets

ManagerNext ==
    \/ ElectionWins \/ ElectionLoses \/ StopAll \/ ElectionReports
    \/ StartAll \/ StartAllClears \/ StartAllStarts \/ OtherManagerFails
    \/ Retry

=============================================================================
