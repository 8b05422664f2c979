----------------------------- MODULE CRDWatcher -----------------------------
(***************************************************************************)
(* pkg/workloads/crd_watcher.go: workloads that are configured by custom   *)
(* resources.  A leader's informer calls the handlers, one event at a time *)
(* ("informer"), while startWorkloads goes through all that exist          *)
(* ("initial").  The two are not synchronised: each looks for the workload *)
(* in the manager, stops and removes it, adds another and starts that, and *)
(* only the steps on the map are atomic.                                   *)
(***************************************************************************)
EXTENDS WorkloadManager

VARIABLES
    crd,         \* the version in the API, 0 when there is none
    invalid,     \* the versions that do not validate
    versions,    \* how many there have been
    informer,    \* the informer runs
    queue,       \* the events that it has yet to deliver
    sync,        \* where each of the two is
    held,        \* the version that it has read, or the workload that it has
                 \* found in the manager and is about to start
    disturbed,   \* history: a change, or a handler of the term before, has
                 \* met an initial sync
    before       \* history: how many faults there had been when the work that
                 \* is under way, or was the last of the term, began

Syncers == {"informer", "initial"}
Labels == {"idle", "load", "get", "stop", "remove", "add", "find", "start",
           "findRef", "stopRef", "removeRef"}

history == <<disturbed, before>>
api == <<crd, invalid, versions, history>>
syncing == <<sync, held>>
manager == <<leadership, kind, entry, cluster, retrying, election, faults>>
vars == <<manager, api, informer, queue, syncing>>

\* None has begun, or the history is disturbed.
NotYet == MaxFaults + 1

TypeOK ==
    /\ ManagerTypeOK
    /\ crd \in 0..MaxVersion
    /\ invalid \subseteq Versions
    /\ versions \in 0..MaxVersion
    /\ crd <= versions
    /\ informer \in BOOLEAN
    /\ queue \in Seq({"add", "update", "delete"})
    /\ ~informer => queue = <<>>
    /\ sync \in [Syncers -> Labels]
    /\ held \in [Syncers -> 0..MaxVersion]
    /\ disturbed \in BOOLEAN
    /\ before \in 0..NotYet

Goto(a, label) == sync' = [sync EXCEPT ![a] = label]
Hold(a, v) == held' = [held EXCEPT ![a] = v]
At(a, label) == sync[a] = label

\* No handler and no initial sync is at work.
Idle == \A a \in Syncers : At(a, "idle")

\* One of the two begins, maybe while the other is at work.
Begins == before' = IF Idle /\ ~disturbed THEN faults ELSE before

Disturb(met) ==
    /\ disturbed' = (disturbed \/ met)
    /\ before' = IF disturbed' THEN NotYet ELSE before

-----------------------------------------------------------------------------
(* The API server                                                          *)

\* The resource is created, updated or deleted, and the informer hears of it.
Change(v, event) ==
    /\ crd' = v
    /\ queue' = IF informer THEN Append(queue, event) ELSE queue
    /\ Disturb(term[Me] = "starting")
    /\ UNCHANGED <<manager, invalid, informer, syncing>>

CRDWritten ==
    /\ versions < MaxVersion
    /\ versions' = versions + 1
    /\ Change(versions + 1, IF crd = 0 THEN "add" ELSE "update")

CRDDeleted ==
    /\ crd # 0
    /\ UNCHANGED versions
    /\ Change(0, "delete")

-----------------------------------------------------------------------------
(* Start and Stop                                                          *)

\* Start makes new informers and waits until they have listed what exists.
WatcherStart ==
    /\ election = "informers"
    /\ informer' = TRUE
    /\ queue' = IF crd = 0 THEN <<>> ELSE <<"add">>
    /\ election' = "list"
    /\ Disturb(~At("informer", "idle"))
    /\ UNCHANGED <<leadership, kind, entry, cluster, retrying, faults, crd, invalid,
                   versions, syncing>>

\* performInitialSync lists what exists; what it finds it adds, if it may.
InitialList ==
    /\ election = "list"
    /\ \/ /\ crd # 0 /\ reports[Me] /\ NoFault
          /\ Goto("initial", "load")
          /\ Begins
          /\ election' = "sync"
          /\ UNCHANGED leadership
       \/ /\ crd = 0 \/ ~reports[Me]
          /\ NoFault
          /\ Started(Me)
          /\ election' = "idle"
          /\ UNCHANGED <<sync, before>>
       \/ /\ Fault
          /\ Started(Me)
          /\ election' = "idle"
          /\ UNCHANGED <<sync, before>>
    /\ UNCHANGED <<kind, entry, cluster, retrying, crd, invalid, versions, disturbed,
                   informer, queue, held>>

\* Start returns, and startWorkloads with it.
InitialDone ==
    /\ election = "sync"
    /\ At("initial", "idle")
    /\ Started(Me)
    /\ election' = "idle"
    /\ UNCHANGED <<kind, entry, cluster, retrying, faults, api, informer, queue, syncing>>

\* Mutant of WatcherStop: what has not been delivered is delivered later.
MutWatcherStop ==
    /\ election = "stopWatcher"
    /\ informer' = FALSE
    /\ Stopped(Me)
    /\ election' = "idle"
    /\ before' = NotYet
    /\ UNCHANGED <<kind, entry, cluster, retrying, faults, crd, invalid, versions,
                   disturbed, queue, syncing>>

\* Stop, after StopAll: what has not been delivered is dropped, but a handler
\* that has been called goes on.
WatcherStop ==
    /\ election = "stopWatcher"
    /\ informer' = FALSE
    /\ queue' = <<>>
    /\ Stopped(Me)
    /\ election' = "idle"
    /\ before' = NotYet
    /\ UNCHANGED <<kind, entry, cluster, retrying, faults, crd, invalid, versions,
                   disturbed, syncing>>

-----------------------------------------------------------------------------
(* The handlers                                                            *)

\* Mutant of Handle: updates are taken for the resyncs that change nothing.
MutHandle ==
    /\ queue # <<>>
    /\ At("informer", "idle")
    /\ queue' = Tail(queue)
    /\ IF ~reports[Me] \/ Head(queue) = "update" THEN UNCHANGED <<sync, before>>
       ELSE /\ Goto("informer", IF Head(queue) = "delete" THEN "findRef" ELSE "load")
            /\ Begins
    /\ UNCHANGED <<manager, crd, invalid, versions, disturbed, informer, held>>

\* OnCRDAdd, OnCRDUpdate and OnCRDDelete: unless the leadership is reported,
\* the event is skipped.
Handle ==
    /\ queue # <<>>
    /\ At("informer", "idle")
    /\ queue' = Tail(queue)
    /\ IF ~reports[Me] THEN UNCHANGED <<sync, before>>
       ELSE /\ Goto("informer", IF Head(queue) = "delete" THEN "findRef" ELSE "load")
            /\ Begins
    /\ UNCHANGED <<manager, crd, invalid, versions, disturbed, informer, held>>

\* LoadWorkloadFromCRD reads the resource again.
Load(a) ==
    /\ At(a, "load")
    /\ \/ crd # 0 /\ NoFault /\ Goto(a, "get") /\ Hold(a, crd)
       \/ crd = 0 /\ NoFault /\ Goto(a, "idle") /\ UNCHANGED held
       \/ Fault /\ Goto(a, "idle") /\ UNCHANGED held
    /\ UNCHANGED <<leadership, kind, entry, cluster, retrying, election, api,
                   informer, queue>>

\* Is there a workload of the name, or with a reference to the resource?
Get(a) ==
    /\ \/ At(a, "get") /\ Goto(a, IF entry # 0 THEN "stop" ELSE "add")
       \/ At(a, "findRef") /\ Goto(a, IF entry # 0 THEN "stopRef" ELSE "idle")
    /\ UNCHANGED <<manager, api, informer, queue, held>>

\* The Stop of the workload found, with no lock; its error is logged.
StopFound(a) ==
    /\ \/ At(a, "stop") /\ Goto(a, "remove")
       \/ At(a, "stopRef") /\ Goto(a, "removeRef")
    /\ \/ NoFault /\ Stops
       \/ Fault /\ UNCHANGED cluster
    /\ UNCHANGED <<leadership, kind, entry, retrying, election, api, informer,
                   queue, held>>

\* Mutant of Remove: the workload is stopped and stays in the map.
MutRemove(a) ==
    /\ \/ At(a, "remove") /\ Goto(a, "add")
       \/ At(a, "removeRef") /\ Goto(a, "idle")
    /\ \/ entry # 0 /\ NoFault /\ Stops
       \/ entry # 0 /\ Fault /\ UNCHANGED cluster
       \/ entry = 0 /\ NoFault /\ UNCHANGED cluster
    /\ UNCHANGED <<leadership, kind, entry, retrying, election, api, informer,
                   queue, held>>

\* RemoveWorkload, under the lock, of what now has the name.  It stops it
\* again, and keeps it on an error.
Remove(a) ==
    /\ \/ At(a, "remove") /\ Goto(a, "add")
       \/ At(a, "removeRef") /\ Goto(a, "idle")
    /\ \/ entry # 0 /\ NoFault /\ Stops /\ entry' = 0
       \/ entry # 0 /\ Fault /\ UNCHANGED <<cluster, entry>>
       \/ entry = 0 /\ NoFault /\ UNCHANGED <<cluster, entry>>
    /\ UNCHANGED <<leadership, kind, retrying, election, api, informer, queue, held>>

\* Mutant of Add: the workload is started, and entered when that succeeds.
MutAdd(a) ==
    /\ At(a, "add")
    /\ Hold(a, 0)
    /\ entry = 0
    /\ \/ /\ Startable /\ NoFault
          /\ entry' = held[a]
          /\ Starts(held[a])
          /\ Goto(a, "find")
       \/ /\ Startable /\ Fault
          /\ Starts(held[a])
          /\ Goto(a, "idle")
          /\ UNCHANGED entry
    /\ UNCHANGED <<leadership, kind, retrying, election, api, informer, queue>>

\* AddWorkload, under the lock: an error if the configuration is not valid or
\* there is one already.  The workload is entered and then started; if that
\* fails it stays.
Add(a) ==
    /\ At(a, "add")
    /\ Hold(a, 0)
    /\ \/ /\ held[a] \in invalid \/ entry # 0
          /\ NoFault
          /\ Goto(a, "idle")
          /\ UNCHANGED <<entry, cluster>>
       \/ /\ held[a] \notin invalid /\ entry = 0 /\ Startable /\ NoFault
          /\ entry' = held[a]
          /\ Starts(held[a])
          /\ Goto(a, "find")
       \/ /\ held[a] \notin invalid /\ entry = 0 /\ Startable /\ Fault
          /\ entry' = held[a]
          /\ Starts(held[a]) \/ UNCHANGED cluster
          /\ Goto(a, "idle")
       \/ /\ held[a] \notin invalid /\ entry = 0 /\ ~Startable /\ NoFault
          /\ entry' = held[a]
          /\ Goto(a, "idle")
          /\ UNCHANGED cluster
    /\ UNCHANGED <<leadership, kind, retrying, election, api, informer, queue>>

\* startWorkloadByTypeName: GetWorkload, and Start of what it has found, with
\* no lock in between.
Find(a) ==
    /\ At(a, "find")
    /\ \/ reports[Me] /\ entry # 0 /\ Hold(a, entry) /\ Goto(a, "start")
       \/ ~(reports[Me] /\ entry # 0) /\ UNCHANGED held /\ Goto(a, "idle")
    /\ UNCHANGED <<manager, api, informer, queue>>

StartFound(a) ==
    /\ At(a, "start")
    /\ \/ Startable /\ NoFault /\ Starts(held[a])
       \/ ~Startable /\ NoFault /\ UNCHANGED cluster
       \/ Startable /\ Fault /\ (Starts(held[a]) \/ UNCHANGED cluster)
    /\ Goto(a, "idle")
    /\ Hold(a, 0)
    /\ UNCHANGED <<leadership, kind, entry, retrying, election, api, informer,
                   queue>>

Sync(a) ==
    \/ Load(a) \/ Get(a) \/ StopFound(a) \/ Remove(a) \/ Add(a)
    \/ Find(a) \/ StartFound(a)

-----------------------------------------------------------------------------

Init ==
    /\ LeadershipInit
    /\ kind \in Kinds
    /\ entry = 0 /\ spec = 0 /\ running = FALSE
    /\ failed = FALSE /\ shuttingDown = FALSE
    /\ retriers = 0 /\ retry = 0 /\ forgetting = 0
    /\ election = "idle"
    /\ faults = 0
    /\ crd = 0 /\ versions = 0
    /\ invalid \in SUBSET Versions
    /\ disturbed = FALSE /\ before = NotYet
    /\ informer = FALSE /\ queue = <<>>
    /\ sync = [a \in Syncers |-> "idle"]
    /\ held = [a \in Syncers |-> 0]

watching == <<api, informer, queue, syncing>>

Next ==
    \/ ManagerNext /\ UNCHANGED watching
    \/ CRDWritten \/ CRDDeleted
    \/ WatcherStart \/ InitialList \/ InitialDone \/ WatcherStop
    \/ Handle
    \/ \E a \in Syncers : Sync(a)

\* The goroutines that have something to do go on.
Fairness ==
    /\ \A a \in Syncers : WF_vars(Sync(a))
    /\ WF_vars(Handle)
    /\ WF_vars(RetryBegins /\ UNCHANGED watching)
    /\ WF_vars(RetryStarts /\ UNCHANGED watching)
    /\ WF_vars(RetryForgets /\ UNCHANGED watching)

Spec == Init /\ [][Next]_vars
FairSpec == Spec /\ Fairness

-----------------------------------------------------------------------------
(* Properties                                                              *)

\* What runs is in the map of the manager, where StopAll finds it: the order
\* in which the handlers and the initial sync stop, remove, add and start
\* leaves nothing running that nobody would stop.  Not so when the resource
\* is deleted under an initial sync, or by a handler of the term before: Start
\* may then come after the removal (startWorkloadByTypeName, no lock).
RunningIsEntered == running /\ Idle /\ ~disturbed => entry # 0

\* What runs has the configuration that the manager has for it, whatever
\* request has failed: no handler leaves an old version running under a new
\* entry.  Not so for a cron job, which Start does not update, nor when an
\* initial sync meets an update.
RunsWhatIsEntered ==
    running /\ entry # 0 /\ Idle /\ ~disturbed /\ kind # "cronjob"
        => spec = entry

\* What the resource asks for: nothing, when its configuration is not valid.
Wanted == IF crd \in invalid THEN 0 ELSE crd

\* The manager and the cluster are as the resource says.
Synced ==
    /\ entry = Wanted
    /\ Wanted # 0 => running
    /\ Wanted # 0 /\ kind # "cronjob" => spec = Wanted

\* While the controller leads, nobody is at work and no event waits, the
\* manager and the cluster are as the resource says: whatever has failed, been
\* skipped or retried before, one handler is enough that begins while nobody
\* is at work and after whose beginning nothing fails, and it may be joined by
\* an initial sync.
UpToDate ==
    term[Me] = "leading" /\ Idle /\ queue = <<>> /\ before = faults
        => Synced

\* The controller leads, says so, and no request fails any more.
Calm == term[Me] = "leading" /\ reports[Me] /\ faults = MaxFaults

\* An event that awaits delivery is applied in the end, if the leadership
\* lasts: whatever the handlers and the initial sync do to each other, the
\* last of them leaves the manager and the cluster as the resource says.
EventsAreApplied ==
    (Calm /\ queue # <<>> /\ ~disturbed) ~> (Synced \/ ~Calm)

\* Nothing is left to retry, and what is entered runs.
Retried == ~failed /\ (entry # 0 => running)

\* A manager that could not be started is started in the end, with what has
\* been added to it meanwhile, if the leadership lasts (retryFailedWorkloads);
\* unless a retry in flight, which has started it and maybe in an earlier
\* term, has still to delete it from failedWorkloads.
FailedIsRetried ==
    (Calm /\ failed /\ forgetting = 0) ~> (Retried \/ ~Calm)

\* "Automatic retry of failed workloads" (manager.go:33), whatever retry is in
\* flight.
EveryFailureIsRetried == (Calm /\ failed) ~> (Retried \/ ~Calm)

=============================================================================
