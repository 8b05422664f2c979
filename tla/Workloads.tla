----------------------------- MODULE Workloads -----------------------------
(***************************************************************************)
(* The four kinds of workload under the election: who starts, stops and    *)
(* checks what, and what becomes of the object in the cluster.             *)
(***************************************************************************)
EXTENDS ProcessWorkload, PersistentWorkload, CronJobWorkload

\* A deployment, stateful set or cron job may be left over from an earlier
\* run.  Add has entered the workload in its manager and calls its Start.
Init ==
    /\ LeadershipInit
    /\ kind \in Kinds
    /\ object \in {"absent", IF kind = "process" THEN "absent" ELSE "off"}
    /\ marked = FALSE
    /\ headless = (object # "absent")
    /\ active = [c \in Controllers |-> FALSE]
    /\ failing = [c \in Controllers |-> FALSE]
    /\ closed = [c \in Controllers |-> FALSE]
    /\ failed = [c \in Controllers |-> FALSE]
    /\ call = [c \in Controllers |-> [who \in Callers |->
                 IF who = "election" THEN StartLabel ELSE "idle"]]
    /\ watcher = [c \in Controllers |-> "none"]
    /\ event = [c \in Controllers |-> FALSE]
    /\ updater = [c \in Controllers |-> "none"]
    /\ orphaned = [c \in Controllers |-> FALSE]
    /\ faults = 0 /\ restarts = 0

Next ==
    \/ ProcessNext \/ ServiceNext \/ PersistentNext \/ CronJobNext
    \/ \E c \in Controllers : CallerNext(c)

Spec == Init /\ [][Next]_vars

\* The ticker of periodicStatusUpdater fires for ever, and its requests are
\* answered.  Nothing is assumed of the watcher.
FairSpec ==
    Spec /\ \A c \in Watchful : WF_vars(kind = "process" /\ ProcessUpdate(c))

-----------------------------------------------------------------------------
(* Properties                                                              *)

\* A workload that is active and has not been stopped has its health monitor:
\* no failure, race or restart makes it one that nobody looks after, unless
\* its controller is about to stop it, or nobody but a retry has started it.
\* A retry's context is cancelled when its Start has returned (manager.go,
\* retryFailedWorkloads), and the goroutines end with it; a later Start that
\* is not a retry's, while nobody has stopped the workload, makes up for it.
\* (service.go, persistent.go, cronjob.go: Start and monitorHealth;
\* process.go: Start and periodicStatusUpdater.)
MonitoredUntilStopped ==
    \A c \in Watchful :
        active[c] /\ ~closed[c] /\ ~orphaned[c] =>
            updater[c] # "none" \/ term[c] = "stopping"

\* c is in the middle of a Start or a Stop, or a goroutine of it is about to
\* recreate the pod.
Busy(c) ==
    \/ \E who \in Callers : ~At(c, who, "idle")
    \/ watcher[c] \in PodRequests \/ updater[c] \in PodRequests

\* As long as no request has failed and nobody has interfered, what runs in
\* the cluster is on the books of a controller: the status of one says
\* Active, or one is busy.  Stop leaves nothing running that nobody knows of.
Accounted ==
    object = "on" /\ faults = 0 => \E c \in Controllers : active[c] \/ Busy(c)

\* The replicas of a stateful set have their headless service (persistent.go,
\* the order of the two in Start).
EndpointsFirst == kind = "persistent" /\ object = "on" => headless

\* c leads, says so, and counts its workload as one that it has started,
\* not by a retry alone, and not stopped.
Lasting(c) ==
    term[c] = "leading" /\ reports[c] /\ active[c] /\ ~closed[c] /\ ~orphaned[c]

\* A pod that has disappeared is there again in the end, whether the watcher
\* has heard of it or not, unless the leadership ends or the process is
\* stopped (process.go: checkHealth recreates a missing pod, also after a
\* request that has failed or a watch that has broken).  The pod of a process
\* that a retry alone has started stays lost (manager.go, the cancelled
\* context of retryFailedWorkloads).
Recreated ==
    \A c \in Watchful :
        (kind = "process" /\ object = "absent" /\ Lasting(c))
            ~> (object # "absent" \/ ~Lasting(c))

=============================================================================
