-------------------------- MODULE WorkloadSetting --------------------------
(***************************************************************************)
(* One workload and the controllers that share it: its object in the       *)
(* cluster, what each controller thinks of it, and who calls its Start and *)
(* Stop.  The election does, through StartAll and StopAll; so does         *)
(* monitorWorkloads, which stops and starts the workloads of a manager     *)
(* that reports an error; and retryFailedWorkloads starts those of a       *)
(* manager whose Start has failed.  Nothing synchronises them.  Each Start *)
(* leaves goroutines behind that check the object, and for a process       *)
(* recreate it.  The four kinds of workload are modules of their own.      *)
(*                                                                         *)
(* A step of a call is one request to the API server, and what goes with   *)
(* it: between a Get and the Create or Update that it leads to the others  *)
(* may have changed the object, and the server refuses the second.  Only   *)
(* where the code repeats both after a conflict are they a single step.    *)
(***************************************************************************)
EXTENDS Naturals, Leadership

CONSTANTS
    Kinds,        \* the kinds of workload to consider
    Watchful,     \* the controllers whose goroutines are considered: of the
                  \* others, only what Start and Stop themselves do
    Retriers,     \* the goroutines of retryFailedWorkloads of a controller
    MaxFaults     \* bound on failed requests, crashes, outside interference and
                  \* restarts by monitorWorkloads, all together

ASSUME KindsAssumption ==
    Kinds \subseteq {"process", "service", "persistent", "cronjob"}
ASSUME WatchfulAssumption == Watchful \subseteq Controllers
ASSUME RetriersAssumption == Retriers \cap {"election", "monitor"} = {}
ASSUME MaxFaultsAssumption == MaxFaults \in Nat

VARIABLES
    kind,       \* what the workload is
    object,     \* its pod, deployment, stateful set or cron job
    marked,     \* the object has the annotation "controlled-shutdown"
    headless,   \* the headless service of a stateful set exists
    active,     \* status.Active
    failing,    \* status.LastError is not empty
    closed,     \* stopCh is closed
    failed,     \* the workload's manager is in failedWorkloads
    call,       \* where each caller of Start and Stop is
    watcher,    \* watchPodTerminations
    event,      \* a deletion that the watcher has to handle
    updater,    \* periodicStatusUpdater or monitorHealth
    orphaned,   \* a retry alone has started the workload: its goroutines are gone
    faults,     \* failed requests, crashes and outside interference so far
    restarts    \* restarts by monitorWorkloads so far

beliefs == <<active, failing, closed, failed>>
goroutines == <<watcher, event, updater, orphaned>>
cluster == <<object, marked, headless>>
counts == <<faults, restarts>>
vars == <<leadership, kind, cluster, beliefs, call, goroutines, counts>>

Objects == IF kind = "process" THEN {"absent", "on", "terminated", "deleting"}
           ELSE {"absent", "on", "off"}
Callers == {"election", "monitor"} \cup Retriers
Labels == {"idle", "endpoints", "get", "replace", "create", "update",
           "close", "off", "suspend", "wait", "enter", "forget"}

\* The requests of createOrUpdatePod, which the goroutines make as well.
PodRequests == {"get", "replace", "create"}
WatcherPC == {"none", "watching", "broken"} \cup PodRequests
UpdaterPC == {"none", "ticking"} \cup PodRequests

TypeOK ==
    /\ LeadershipTypeOK
    /\ kind \in Kinds
    /\ object \in Objects
    /\ marked \in BOOLEAN
    /\ headless \in BOOLEAN
    /\ active \in [Controllers -> BOOLEAN]
    /\ failing \in [Controllers -> BOOLEAN]
    /\ closed \in [Controllers -> BOOLEAN]
    /\ failed \in [Controllers -> BOOLEAN]
    /\ call \in [Controllers -> [Callers -> Labels]]
    /\ watcher \in [Controllers -> WatcherPC]
    /\ event \in [Controllers -> BOOLEAN]
    /\ updater \in [Controllers -> UpdaterPC]
    /\ orphaned \in [Controllers -> BOOLEAN]
    /\ faults \in 0..MaxFaults
    /\ restarts \in 0..MaxFaults

-----------------------------------------------------------------------------
(* Requests                                                                *)

Fault ==
    /\ faults + restarts < MaxFaults
    /\ faults' = faults + 1
    /\ UNCHANGED restarts

NoFault == UNCHANGED counts

At(c, who, label) == call[c][who] = label
Goto(c, who, label) == call' = [call EXCEPT ![c][who] = label]

Become(o) == object' = o
SetActive(c, status) == active' = [active EXCEPT ![c] = status]
SetFailing(c, status) == failing' = [failing EXCEPT ![c] = status]

\* A pod disappears: the watchers hear of it, and ignore it if it is marked.
\* For those whose stopCh is closed it is not recorded (see WatchOn).
Vanish ==
    /\ object' = "absent"
    /\ marked' = FALSE
    /\ event' = [c \in Controllers |->
                    \/ event[c]
                    \/ watcher[c] \notin {"none", "broken"} /\ ~closed[c] /\ ~marked]

\* The API server creates what does not exist, and updates what does.
Writable(at) == (at = "create") <=> (object = "absent")

\* BuildContainers refuses unless the leadership is reported.
Built(c) == reports[c]

-----------------------------------------------------------------------------
(* Calls of Start and Stop                                                 *)

StartLabel == IF kind = "persistent" THEN "endpoints" ELSE "get"

\* The managers' Start logs the error of a workload's, and succeeds.
StartReturns(c, who) ==
    IF who \in Retriers THEN Goto(c, who, "forget") /\ UNCHANGED leadership
    ELSE /\ Goto(c, who, "idle")
         /\ IF who = "election" /\ term[c] = "starting" THEN Started(c)
            ELSE UNCHANGED leadership

\* Stop returns, with or without an error; monitorWorkloads goes on to start
\* the manager, unless that cannot read its configurations.
StopReturns(c, who) ==
    IF who = "election" THEN Stopped(c) /\ Goto(c, who, "idle")
    ELSE (Goto(c, who, StartLabel) \/ Goto(c, who, "idle")) /\ UNCHANGED leadership

\* Mutant of Spawn: no health monitor.
MutSpawn(c, who) == UNCHANGED goroutines

\* The goroutines of a Start.  stopped and stopCh are never reset: after the
\* first Stop they find stopCh closed and return at once.  Those of a retry
\* have its context, which is cancelled as soon as Start has returned.  A
\* slot stands for any number of goroutines of its kind, which do the same.
Spawn(c, who) ==
    IF closed[c] \/ c \notin Watchful THEN UNCHANGED goroutines
    ELSE IF who \in Retriers
    THEN /\ orphaned' = [orphaned EXCEPT ![c] = @ \/ updater[c] = "none"]
         /\ UNCHANGED <<watcher, event, updater>>
    ELSE /\ updater' = [updater EXCEPT ![c] = IF @ = "none" THEN "ticking" ELSE @]
         /\ watcher' = [watcher EXCEPT ![c] =
                           IF kind = "process" /\ @ = "none" THEN "watching" ELSE @]
         /\ orphaned' = [orphaned EXCEPT ![c] = FALSE]
         /\ UNCHANGED event

\* Stop closes stopCh, which matters to goroutines only, and marks the object;
\* an error of the latter, and so a conflict, is ignored.  Only the watcher of
\* a pod asks for the mark.  A watcher that waits returns; one that has been
\* told of a deletion may do that first.
Close(c, who) ==
    /\ At(c, who, "close")
    /\ closed' = [closed EXCEPT ![c] = c \in Watchful]
    /\ NoFault
    /\ marked' \in {marked, kind = "process" /\ object # "absent"}
    /\ \/ watcher[c] # "watching" /\ UNCHANGED watcher
       \/ watcher[c] = "watching" /\ watcher' = [watcher EXCEPT ![c] = "none"]
       \/ watcher[c] = "watching" /\ event[c] /\ watcher' = [watcher EXCEPT ![c] = "get"]
    /\ event' = [event EXCEPT ![c] = FALSE]
    /\ orphaned' = [orphaned EXCEPT ![c] = FALSE]
    /\ Goto(c, who, "off")
    /\ UNCHANGED <<leadership, kind, object, headless, active, failing, failed, updater>>

\* A goroutine returns: stopCh is closed, or its context is cancelled.
Returns(c) == closed[c] \/ term[c] = "stopping"

UpdaterEnds(c) ==
    /\ updater[c] = "ticking"
    /\ Returns(c)
    /\ updater' = [updater EXCEPT ![c] = "none"]
    /\ UNCHANGED <<leadership, kind, cluster, beliefs, call, watcher, event, orphaned, counts>>

\* A health check whose requests fail, or whose context has been cancelled.
CheckFails(c) ==
    /\ Fault \/ (~Leads(c) /\ NoFault)
    /\ SetFailing(c, TRUE)

-----------------------------------------------------------------------------
(* The callers                                                             *)

\* A manager's Start loads the configurations of its workloads first, and
\* fails where they cannot be read.
StartManager(c, who) ==
    \/ NoFault /\ Goto(c, who, StartLabel)
    \/ Fault /\ Goto(c, who, "enter")

\* StartAll and the retries enter the failure in failedWorkloads.
EnterFailed(c, who) ==
    /\ At(c, who, "enter")
    /\ failed' = [failed EXCEPT ![c] = c \in Watchful]
    /\ Goto(c, who, "idle")
    /\ IF who = "election" THEN Started(c) ELSE UNCHANGED leadership
    /\ UNCHANGED <<kind, cluster, active, failing, closed, goroutines, counts>>

\* The retry of a manager that has not been told to stop.  It takes a copy of
\* the entry, and looks at neither again.
RetryStart(c, r) ==
    /\ At(c, r, "idle")
    /\ c \in Watchful /\ failed[c] /\ Leads(c)
    /\ StartManager(c, r)
    /\ UNCHANGED <<leadership, kind, cluster, beliefs, goroutines>>

\* A retry whose Start has returned without an error deletes the entry.
ForgetFailed(c, r) ==
    /\ At(c, r, "forget")
    /\ failed' = [failed EXCEPT ![c] = FALSE]
    /\ Goto(c, r, "idle")
    /\ UNCHANGED <<leadership, kind, cluster, active, failing, closed, goroutines, counts>>

\* StartAll, by the winner of the election, clears failedWorkloads first.
ElectionStart(c) ==
    /\ At(c, "election", "idle")
    /\ Win(c)
    /\ failed' = [failed EXCEPT ![c] = FALSE]
    /\ StartManager(c, "election")
    /\ UNCHANGED <<kind, cluster, active, failing, closed, goroutines>>

\* StopAll, by the loser.
ElectionStop(c) ==
    /\ At(c, "election", "idle")
    /\ Lose(c)
    /\ IF term[c] = "leading" THEN NoFault ELSE Fault
    /\ Goto(c, "election", "close")
    /\ UNCHANGED <<kind, cluster, beliefs, goroutines>>

\* What is reported of a follower or a leader changes: for the worse when a
\* request to the storage fails.
ElectionReport(c) ==
    /\ Announce(c) \/ Degrade(c)
    /\ reports' # reports
    /\ IF reports'[c] THEN NoFault ELSE Fault
    /\ UNCHANGED <<kind, cluster, beliefs, call, goroutines>>

\* monitorWorkloads finds an error in the status of the manager.
MonitorTick(c) ==
    /\ At(c, "monitor", "idle")
    /\ Leads(c) /\ reports[c]
    /\ c \in Watchful /\ failing[c]
    /\ faults + restarts < MaxFaults
    /\ restarts' = restarts + 1
    /\ Goto(c, "monitor", "close")
    /\ UNCHANGED <<leadership, kind, cluster, beliefs, goroutines, faults>>

\* The process dies and starts again: the objects survive, and Add starts
\* the workload of the new process.
Crash(c) ==
    /\ Fault
    /\ Reboot(c)
    /\ call' = [call EXCEPT ![c] = [who \in Callers |->
                   IF who = "election" THEN StartLabel ELSE "idle"]]
    /\ active' = [active EXCEPT ![c] = FALSE]
    /\ failing' = [failing EXCEPT ![c] = FALSE]
    /\ closed' = [closed EXCEPT ![c] = FALSE]
    /\ watcher' = [watcher EXCEPT ![c] = "none"]
    /\ event' = [event EXCEPT ![c] = FALSE]
    /\ failed' = [failed EXCEPT ![c] = FALSE]
    /\ updater' = [updater EXCEPT ![c] = "none"]
    /\ orphaned' = [orphaned EXCEPT ![c] = FALSE]
    /\ UNCHANGED <<kind, cluster>>

CallerNext(c) ==
    \/ ElectionStart(c) \/ ElectionStop(c) \/ ElectionReport(c)
    \/ MonitorTick(c) \/ Crash(c)
    \/ \E who \in Callers : EnterFailed(c, who)
    \/ \E r \in Retriers : RetryStart(c, r) \/ ForgetFailed(c, r)

=============================================================================
