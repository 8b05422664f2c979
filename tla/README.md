# Formal model of k8-highlander

k8-highlander runs *singleton workloads* in Kubernetes: several controllers
compete for one lock in a shared storage, and the one that holds it runs the
workloads. This directory models the parts that must make that true: the
leader election, its timing, the storage back-ends of the lock, the four kinds
of workload with the goroutines that look after them, and the workloads that
come from custom resources. The modules are checked with TLC on small
instances, and the safety properties are proved with TLAPS for any number of
controllers and any values of the parameters.

Paths below are relative to the repository.

## 1. The system

| component | source | state | operations |
|---|---|---|---|
| leader election | `pkg/leader/leader.go` | `isLeader`, failure count, `controllerState`, `workloadCtx`, `workloadMutex`, `stopCh` | `Start`, `Stop`, and the goroutines `runLeaderElectionLoop`, `monitorLock`, `monitorClusterHealth`, `monitorWorkloads` |
| lock storage | `pkg/storage/*.go` | one lock per tenant: value, expiry, metadata | `TryAcquireLock`, `RenewLock`, `ReleaseLock`, `GetLockInfo`, `GetLockValue`, `GetLockTTL`, cleanup of expired rows |
| workload manager, factory | `pkg/workloads/manager.go`, `factory.go` | the managers of each kind, the failed workloads, `isShuttingDown` | `StartAll`, `StopAll`, `retryFailedWorkloads`, `Cleanup` |
| process, service, persistent, cron job | `pkg/workloads/{process,service,persistent,cronjob}/` | per workload: status, `stopCh`, `stopped`, the goroutine that watches it | `Add`, `Remove`, `Start`, `Stop`, and the goroutines `watchPodTerminations`, `periodicStatusUpdater`, `monitorHealth` |
| CRD watcher | `pkg/workloads/crd_watcher.go` | informers | `Start` with its initial sync, `Stop`, `OnCRDAdd`, `OnCRDUpdate`, `OnCRDDelete` |
| monitoring server | `pkg/monitoring/monitoring.go` | the reported status, readiness, metrics | `UpdateLeaderStatus`, `UpdateDBStatus`, `RecordFailover`, ... |
| configuration, CRD conversion and registry | `pkg/common/`, `pkg/crd/` | the configuration | load, merge, validate, convert, create the CRDs |
| HTTP server, dashboard | `pkg/server/`, `pkg/service/` | none of their own | read-only views |
| command line | `pkg/cmd/` | none | `runController`: create the managers, `Start`, wait for a signal, `Stop` |
| function | `functions/highlander/` | none | rewrites manifests |

How they interact: `runController` creates the managers (which starts the
configured workloads at once), then the leader controller. The goroutines of
the leader controller call the storage, share the leadership flag, and start
and stop all workloads through the workload manager. Three of them and `Stop`
do so under `workloadMutex`; `Start`, the goroutine it leaves behind, and
`monitorWorkloads` do not. The workloads, the CRD watcher and the HTTP server
read the leadership from the monitoring server, to which the election reports
it: `BuildContainers` refuses to build a pod where it is not reported. The
workloads of several controllers meet in the cluster, where all that bear one
name are one object.

What is hard about it, and what is right in each part:

- *Election.* Goroutines act on what they read before they took the mutex; the
  storage fails before or after it has done what it was asked; processes crash
  and come back with the same ID; `Stop` comes at any moment. Workloads must
  run only on the leader, a leader must hold the lock, a stale leader must
  step down, leadership must come back, and `Stop` must return.
- *Timing.* A leader that cannot reach the storage keeps leading for a while,
  and must have stopped when its lock expires.
- *Storage.* Several commands make up a call, clients' clocks differ, and rows
  are cleaned up by everybody. A lock must be granted only while nobody else
  may count on it.
- *Workloads.* The watcher, the status updater, `monitorWorkloads`,
  `retryFailedWorkloads` and the election start, stop and recreate one object
  without a common lock; any request may fail, or be refused because the object
  has changed since it was read, and the next leader starts before the last one
  has stopped. What runs must be on somebody's books, what is active must be
  looked after, and a pod that is lost must come back.
- *Workload manager and CRD watcher.* Retries race with `StopAll`; the
  informer's handlers race with the initial sync of the same resource, each
  with a stop, a removal, an addition and two starts. Nothing may run that
  `StopAll` would not find, no old version may run under a new entry, and in
  the end the cluster must be as the resource says.

The list of these hazards, with their lines, is in `PROJECT.json`.

## 2. The modules

    Leadership (abstract)
         ^  INSTANCE
    LeaderElection <- LeaderElectionProofs, MCLeaderElection

    LeaseTiming <- LeaseTimingProofs, MCLeaseTiming

    LeaderLease (abstract)
         ^  INSTANCE
    StorageSetting <- MemoryStorage, RedisStorage, DBStorage, SpannerStorage
         ^                 ^  INSTANCE
         +--------- LeaderStorage <- LeaderStorageProofs, MCLeaderStorage

    Leadership <- WorkloadSetting <- ProcessWorkload, CronJobWorkload,
                                     ServiceWorkload <- PersistentWorkload
                                        ^
                                    Workloads <- WorkloadsProofs, MCWorkloads

    Leadership <- WorkloadManager <- CRDWatcher <- CRDWatcherProofs, MCCRDWatcher

An arrow without a word is `EXTENDS`. `Leadership` is the joint: the election
implements it, step by step between its storage calls (`ImplementsLeadership`,
checked and proved), and the workload modules are composed with it instead of
with the election, whose goroutines they do not depend on.

### LeaderElection

`leader.go` at the granularity at which it interleaves: one step is the code
between two calls of the storage or of the mutex. Each goroutine has a program
counter.

| variable | code |
|---|---|
| `lock` | the holder of the unexpired lock in the storage |
| `leader`, `failures`, `degraded` | `isLeader`, `dbFailureCount`, `controllerState` |
| `reported` | the monitoring server's `IsLeader` |
| `mutex`, `stopCh`, `ctx` | `workloadMutex`, `stopCh`, `workloadCtx` |
| `workloads` | `"stopped"`, or who started the workloads that run |
| `loop`, `monitor`, `health`, `restart`, `boot`, `stop` | where each goroutine or call is |
| `faults` | storage errors and crashes so far, bounded by `MaxFaults` |

The actions carry the name of the goroutine: `Loop...` is
`runLeaderElectionLoop` with `RenewLeadership` and `TryAcquireLeadership`,
`Monitor...` is `monitorLock`, `Health...` is `monitorClusterHealth`,
`Restart...` is `monitorWorkloads`, `Boot...` is `InitializeWorkloadManagers`
and `Start`, `Stop...` is `Stop`. `Expire` is the TTL, `Crash` the death of a
process and its restart.

What is abstracted:

- The storage is one variable: what a back-end must provide for that is the
  subject of LeaderStorage. An error may hide that the lock was set or
  released. The forced `DEL` of the Redis back-end (see 5) is not part of it.
- `Reentrant` says whether `TryAcquireLock` succeeds for the holder itself:
  in memory, on a database and on Spanner it does, on Redis (`SETNX`) it does not.
- A failed `StopAll` counts as stopped, and a partial `StartAll` as started.
- After `Stop` the process exits, long before the TTL of its lock ends; the
  model goes on, and a lock whose holder leads after its Stop does not expire.
- Time: a lock that nobody renews (`Abandoned`) may expire at any moment, and for
  the controllers of `Expiring` so may one that is renewed.
- When `stopCh` is closed a goroutine returns, but its select may pick a tick
  that is there as well, and do so again. That the loop returns is a step
  (`LoopEnds`); the others are allowed a tick at any time, of which they make
  something on a leader only.
- A controller outside `Booting` begins after its `Start`, where it has not
  acquired the lock; one in `Booting` begins before it, and may crash.
- What creating the managers starts (`"init"`) is a cron job that exists: the
  other kinds are refused by `BuildContainers`.

### Leadership

What the election promises to those who run workloads. A controller goes round
`term`: follower, starting (in `StartAll`), leading, stopping (in `StopAll`),
follower. `reports` is `GetLeaderInfo().IsLeader`, which needs the state to be
normal. Nobody wins while another starts or leads, unless the lock of one of
the two has outlived its TTL (`Lapsing`); the leadership is reported while the
workloads are being started; a follower may go on reporting after a release
that failed, and be made to stop workloads it does not run. It is not promised
that the last leader has stopped: `Win` may come while another is stopping. A
controller of `Booting` is outside this refinement: its `Start` goroutine
starts workloads whether or not it still leads.

### LeaseTiming

The same code with time and without its interleavings. A tick is
`RenewInterval`, 5 seconds. A turn of the loop is one step; `gap` is the time in
which a leader's next turn must come, `MaxGap` between two turns and `MaxStart`
after an acquisition, when the loop waits for previous workloads (a minute at
most) with the mutex held, and after a leadership, when it stops its own.
`overlap` counts the ticks in which there have been two leaders, `vacant` those
in which there has been none since a follower's attempt last ended in an error.
`WritesFail` are the controllers whose `RenewLock` may fail where
`GetLockValue` has just answered. `Standby` are the controllers that stay up in a
healthy cluster and may lead: as followers they take their turns in time too.
Of the others' nothing is assumed.

### LeaderLease, StorageSetting, LeaderStorage and the four back-ends

`LeaderLease` is what the election needs of a storage: it promises the lock to
a client for at most a TTL, and only while no other client has such a promise.
`until[c]` is the time to which `c` has been promised the lock. A client that
gets `true` takes the lock to be its own for the TTL, less the `MaxSkew` by
which clocks may differ where a back-end relies on the clients' clocks; one
that gets `false` does not; after an error in `RenewLock` it goes by the
promise it has, as `RenewLeadership` does.

`StorageSetting` holds the constants, the lock (`holder`, `expires`), the
promises, and in `robbed` the clients whose lock another's `DELETE` has taken
and who have had no answer since: their promises do not stand (`due`). Then:

| module | a step is | whose clock |
|---|---|---|
| `MemoryStorage` | a call, under the storage's mutex | the one clock |
| `RedisStorage` | a command or a script of the server | the server's |
| `DBStorage` | a statement or a transaction | each client's, for its own statements |
| `SpannerStorage` | a transaction | the client's for the expiry, the server's for judging it |

Errors occur before and after the effect of a command, and clients crash in the
middle of a call. `LeaderStorage` is `NewLeaderStorage`: the type in the
configuration selects the back-end (`"sqlite"` is the db type over SQLite), and
`GetLockValue` reads through it. Left out: the metadata of the lock (nothing is decided by it; the one statement that
tests the version is in the transaction that has just read it), legacy values
in Redis, creation of the schema. Which database errors are lock errors
(`isLockError`) is left open: any may be retried or not, and the number of
retries is not bounded (the code gives up after five, which is the error).

### WorkloadSetting, the four kinds, and Workloads

One workload and all controllers that share its object in the cluster. `kind`
is chosen at the start; the modules `ProcessWorkload`, `ServiceWorkload`,
`PersistentWorkload` and `CronJobWorkload` have the actions of one kind each.

| variable | code |
|---|---|
| `object` | the pod (`"on"`, `"terminated"`: succeeded or failed, `"deleting"`), or the deployment, stateful set or cron job (`"on"`: with replicas, not suspended; `"off"`), or `"absent"` |
| `marked` | the annotation `controlled-shutdown` |
| `headless` | the headless service of a stateful set |
| `active`, `failing` | `status.Active`, `status.LastError != ""` |
| `closed` | `stopCh` is closed (`stopped`) |
| `failed` | the workload's manager is in `failedWorkloads` |
| `call` | where the Start or Stop is that was called by the election, by `monitorWorkloads`, and by each goroutine of `retryFailedWorkloads` (`Retriers`) |
| `watcher`, `event` | `watchPodTerminations`, and a deletion it has still to handle |
| `updater` | `periodicStatusUpdater` or `monitorHealth` |
| `orphaned` | history: the workload has been started by a retry alone, whose context is cancelled when its Start returns (`manager.go:516`), so that its goroutines are gone |
| `faults`, `restarts` | failed requests, crashes and interference so far, and restarts by `monitorWorkloads`; together at most `MaxFaults` |

A step is one request to the API server with the code around it. The Get of a
pod, a deployment, a stateful set or a cron job (`"get"`) and the Create, Update
or Delete that it leads to (`"create"`, `"update"`, `"replace"`) are separate:
in between the object may appear, change or go, and the server refuses the
second; the error makes Start fail. Only where the code repeats both after a
conflict (`RetryOnConflict`), and for the headless service, which nobody
removes, are they one step. A request may also fail before or after its effect.
`ElectionStart` and `ElectionStop` are the two ends of a term, `MonitorTick` is
`monitorWorkloads`, `RetryStart` and `ForgetFailed` are `retryFailedWorkloads`,
`Crash` is a process that dies, whose successor finds the objects. Abstracted:

- Of the goroutines of one kind that several Starts leave behind there is one;
  they do the same to the same object.
- `Watchful` are the controllers whose goroutines are considered. Of the
  others, what Start and Stop do is considered, and that is what their objects
  see of them.
- The cluster scales and reschedules by itself; of a deployment only the
  number of replicas it was given is seen. Pods end, and other people delete
  and scale objects (`PodEnds`, `Meddle`, `CronJobMeddle`).
- A retry looks at `failedWorkloads` and at `isShuttingDown` (which is unset
  while the controller leads) once and then calls Start, however late. What Start leaves behind (`Spawn`) is gone at once when
  the caller is a retry: the moment between the return of Start and `cancel()`
  is left out. A Start of the manager that fails has not got to the workload:
  the workloads that come from a manager's files are made anew at each Start of
  the manager, and are not the ones modelled here.
- When `stopCh` is closed while the watcher is busy, its select may take a
  deletion that has come meanwhile before it returns; whether one has come is
  not recorded then, and it may take one at any time (`WatchOn`).
- `failed` and `closed` are kept for `Watchful` controllers only: of the others
  there is nothing that would ask.
- Restarts of a workload are not delayed, and `MonitorTick` restarts as soon as
  there is an error. The manager reports that it is active, whatever its
  workloads do, so that `failing` alone decides.
- What a pod or deployment is made from is not seen here; it is in CRDWatcher.

### WorkloadManager and CRDWatcher

One controller, one custom resource, and the manager of its kind. A workload
is a version of its configuration, as `AddWorkload` makes a new one at each
change.

| variable | code |
|---|---|
| `entry` | the workload in the manager's map, or 0 |
| `spec`, `running` | what the object was last given, and whether it runs |
| `failed`, `shuttingDown` | `failedWorkloads`, `isShuttingDown` |
| `retriers` | how many goroutines run `retryFailedWorkloads` (each `StartAll` starts one, up to `MaxRetriers`) |
| `retry`, `forgetting` | how many of them have passed its checks and are about to call Start (`manager.go:474`), and how many have returned from it and are about to delete the entry (512) |
| `election` | where `startWorkloads` or `stopWorkloads` is |
| `crd`, `versions`, `invalid` | the resource in the API, how many versions there have been, and which of them do not validate |
| `informer`, `queue` | the informers, and the events they have to deliver |
| `sync`, `held` | where the informer's handler and the initial sync are, and the version or the workload they have in hand |
| `disturbed` | history: a change, or a handler of the term before, has met an initial sync |
| `before` | history: how many requests had failed when the work under way, or the last of the term, began |

A step is a piece of code under the manager's lock, or a request outside it.
The handler and the initial sync take the same steps (`Load`, `Get`,
`StopFound`, `Remove`, `Add`, `Find`, `StartFound`), so that each is one action
with the goroutine as its parameter. Requests to the objects are one step here,
their parts being the subject of Workloads. `StartAll` is three steps
(`StartAll`, `StartAllClears`, `StartAllStarts`), and a retry is three
(`RetryBegins`, `RetryStarts`, `RetryForgets`), with whatever the election does
in between. A manager's Start fails when its files cannot be read; the failed
Start of a workload it logs, and returns nil (`ManagerTries`). That another
kind's manager fails keeps the CRD watcher from being started
(`OtherManagerFails`). An invalid configuration is refused by `AddWorkload` after
the handler has stopped and removed the workload of the version before.
Restarts by `monitorWorkloads` are not part of this module.

## 3. The runs

| run | states | question and answer |
|---|---|---|
| `le_safety` | 3.5 million | Two controllers, all goroutines, three faults, a re-entrant back-end. `c1`'s lock may expire while it leads, `c2` may be stopped and restarts workloads. Workloads started by the loop run only on the leader, its context is live, it holds the lock unless that has expired, a stopped controller whose loop has returned stays as it is (`RetiredForGood`), and the whole implements `Leadership`. |
| `le_live` | 57 thousand | Two controllers, `c1` may be stopped, `c2`'s lock may expire and its cluster be unhealthy, a fault. A stale leader steps down, the report converges, `Stop` returns. |
| `le_crash` | 85 thousand | One controller boots, crashes and restarts on a back-end that is not re-entrant, with three faults. Leadership resumes. |
| `storage` | 469 thousand | All four back-ends, the SQL one also over SQLite, with two clients. Each is a lease (`ImplementsLease`), who may count on the lock is who everybody sees (`EntitledIsSeen`), and whose lock another's `DELETE` has taken is refused at its next renewal (`RobbedIsRefused`). |
| `lt_timing` | 3.8 million | Three controllers with a part each (`c1`'s writes fail, `c3` stands by), the code's numbers. One leader at most, and with failing writes a bounded overlap; after the end of a leadership, however it ends, the next one within `TTL + MaxGap` (`FailoverIsBounded`, the "Failover Process" of `docs/architecture.md`). |
| `wl` | 1.7 million | Each kind of workload with two controllers, one of which may crash, restarts, retries and has its goroutines considered; one fault or restart. What is active is monitored until it is stopped, unless a retry alone has started it (`MonitoredUntilStopped`), what runs is on somebody's books (`Accounted`), replicas have their service (`EndpointsFirst`), and a lost pod comes back (`Recreated`). |
| `crd` | 1.7 million | A controller that wins and loses, and a resource, valid or not, that is created, updated and deleted; two faults, a retry goroutine that may be in flight from one term to the next. Nothing runs that the map does not have (`RunningIsEntered`), nor in an old version (`RunsWhatIsEntered`); a leader at rest is as the resource says if nothing has failed since its last work began (`UpToDate`); events are applied (`EventsAreApplied`), and a manager that failed is retried, unless a retry in flight has still to forget it (`FailedIsRetried`). |
| `le_workloads` | | violated: workloads do run on followers (finding 1) |
| `le_handover` | | violated: the new leader does not wait (finding 2) |
| `le_stopped` | | violated: a stopped controller may lead (finding 3) |
| `lt_split` | | violated: two leaders while writes fail (finding 4) |
| `crd_retry` | | violated: a failure is forgotten though nothing has been started (finding 5) |

**Bounds.**
In LeaderElection `MaxDBFailures` is 2 or 3 (3 in the code) and `MaxFaults` is 1
to 3, so that the threshold is reached; two controllers are enough for every
pair of roles, as controllers interact through the lock only. The fault and
unhealthy-cluster roles are given to the controllers in which they matter, to
keep the other one's behaviour exhaustive. In `storage`, `TTL` 3, `MaxSkew` 1 and
`MaxClock` 6 let the lock be acquired, expire and be acquired again by another
client in the middle of a call; with three clients (6 million states, three
minutes) the result is the same. In `lt_timing` the values are those of
`leader.go:76-90` in ticks of five seconds: `TTL` 20 (100 s), `MaxGap` 2 (a
period of 5 s, and as much again for a slow turn), `MaxStart` 14 (60 s of
waiting and 10 s to start), `MaxDBFailures` 3; there is no other bound.
In `wl` `MaxFaults` bounds failed requests, crashes, somebody else's
interference and restarts by `monitorWorkloads` together; one is enough for each
to meet every interleaving, and the theorems of `WorkloadsProofs` have no bound.
A retry needs a manager that has failed, which is the fault: that it meets a
restart as well is left to the theorems. A refused request is no fault, and comes
as often as the others interfere. Two
controllers are every pair of old and new leader; the goroutines of the second
would see the same as those of the first, and are left out (`Watchful`). In
`crd`, `MaxVersion` 2 is a resource that is created and updated, or deleted and
created again; two faults are one for the first attempt and one for the retry,
or for another term. One retry goroutine suffices for a retry in flight across
terms; with two (3.6 million states) the result is the same. `crd_retry` needs
neither the second version nor the other kinds.
One controller is enough, as `Leadership` lets it win and lose whenever it may;
what several do to one object is the subject of `wl`. No run allows a
deadlock.

**Fairness** (`FairSpec` of LeaderElection). Tickers fire for ever and a
goroutine that can run does: weak fairness of every step inside a goroutine,
and of what is done with the mutex (`Section`).
`sync.RWMutex` does not starve a waiter: strong fairness of taking the mutex.
The storage drops a lock whose holder does not renew it. Nothing is assumed of
faults, crashes, `Stop`, unhealthy clusters or restarts of workloads: they may
or may not come. The lock monitor's tick is not fair either, so the loop alone
has to find out. (`FairSpec` of Workloads) `periodicStatusUpdater` has a ticker,
and its requests are answered; nothing is assumed of the watcher, of pods or of
the election. (`FairSpec` of CRDWatcher) a handler or an initial sync that has
begun goes on, an event that is queued is handled, and the retry's timer fires.
`EventsAreApplied` and `FailedIsRetried` are promised in a `Calm` that lasts: the
controller leads and says so, and no request fails any more (the faults of the
run are used up).

## 4. What is proved

`LeaderElectionProofs`. The inductive invariant is `TypeOK` with, for each
controller, three things: the mutex discipline (a goroutine is inside its
critical section exactly when it has the mutex, and only one is), that
leadership, context and workloads agree except in the section of the goroutine
that is changing them, and, for controllers outside `Expiring`, that a leader
holds the lock except where that goroutine has just released it. The safety
properties alone are not inductive, since they speak only of states with the
mutex free. The theorems: `TypeCorrect`, `WorkloadsFollow`, `LiveContext`,
`LeadersHoldTheLock`, and `OneLeader` when no lock expires whose holder leads and
nobody is booting. `RetirementIsForGood` is an action property: what a retired
controller (`Retired`) has still to do can only stop and release, and nobody
else acts on it or acquires the lock for it (`RetiredRests`, `OthersRest`). It
needs no more of the invariant than the types.
`ElectionIsLeadership` is the refinement: each action, under the mapping
`Phase` and `Reports`, is a step of `Leadership` for one controller and none for
the others (`LoopRound`, `OtherRound`, `OthersStill`); the invariant above gives
what `Win` asks of the others, since a winner has just got the lock that a
leader must hold.

`LeaseTimingProofs`. The invariant is `LockOutlastsTolerance` itself, with
`TypeOK`: the time left of a leader's lock exceeds the time in which it will
have stopped, `gap + (MaxDBFailures - 1 - failures) * MaxGap`. It rests on
`TTLAssumption`, `MaxStart + (MaxDBFailures - 1) * MaxGap < TTL`; the code's
numbers satisfy it. The theorems: `TypeCorrect`, `ToleranceIsSafe` and
`OneLeader`. A second invariant, `SInv`, covers all controllers, also those
whose writes fail: a leader that has lost the lock is the only one that has,
stops before whoever holds the lock now can lose it (`Deadline < remaining`), and
its remaining time and the time there have been two leaders add up to no more
than the tolerance (`Lockless`). It gives `SplitBrainEnds`: whoever's writes fail,
two leaders coexist for `(MaxDBFailures - 1) * MaxGap` at most. A third, `FInv`, is
about the time without a leader: nobody but a leader sets the lock, except in
an attempt that ends in an error, so `vacant` and what remains of the lock add
up to the TTL at most; and a follower that stands by is refused only while the
lock exists, so `vacant` is below the TTL when its next turn is put off by
`MaxGap`. It gives `FailoverInTime`.

`LeaderStorageProofs`. The invariant says that whoever has a promise is the
holder and that the lock outlasts the promise by the skew (`Kept`), that no
promise is longer than one made now (`Capped`), and that a call of DBStorage in
progress works with a past time, finds its row as it made it, and creates a row
only for a client without a promise (`Working`). Each action grants, drops or
leaves a promise (`Granted`, `Dropped`, `Left`), with the clients that it robs as
a parameter, and three lemmas say what that does to the invariant and to the
lease. The theorems: `TypeCorrect`, `PromisesAreSeen`, `RobbedAreRefused` and
`StorageIsALease`, for any clients, TTL and clocks within `MaxSkew`, and any
database, SQLite included.

`WorkloadsProofs`. The properties say what holds of an active workload; the
invariant says why it stays so. `AllAttended`: whoever can make a workload active
again, the watcher of its pod included, is not the last of its goroutines; a
retry's Start adds none, and takes none away (`orphaned`).
`Ordered`: while a term ends the election is in a Stop, which has closed
`stopCh` before it scales down. `OnTheBooks`:
what runs is active somewhere, or is a pod that a goroutine made while the
election was stopping the process, whose Stop will still delete it.
`ServiceFirst`: nobody is past the service of a stateful set before it exists.
Every step of a call of whatever kind is a `StartStep`, a `Close` or a
`StopStep`, and every step of a goroutine a `GoroutineStep`; the lemmas about the
invariant are about those. The theorems: `TypeCorrect`, `Monitored`,
`NothingForgotten` and `EndpointsComeFirst`, for any controllers, any of them
watchful, and any number of retries, restarts and faults.

`CRDWatcherProofs`. `RunningIsEntered` and `RunsWhatIsEntered` speak of the
moments when nobody is at work. The invariant covers the work: who is about to
start a workload holds the one that is entered, or the other goroutine is about
to enter the same again (`StartsWhatIsEntered`); what runs is entered or about
to be, in the same version (`RunningIsKnown`, `RunsKnownVersion`); and while an
initial sync is under way there is one version about and nothing is removed for
good (`OneVersion`, `NoRemoval`); and nothing is entered or about to be started
that does not validate (`ValidEntered`), so that an addition under an initial
sync is not refused after its workload has been removed. A second invariant, `UInv`, is about work since
whose beginning nothing has failed (`Fresh`). The last event that waits tells
what has happened last (`LastEventTells`), so that the handler that takes it
begins with the right thing to do; and when none waits, either the version of
the resource runs or somebody has still to add it (`Adding`), or the resource is
gone and whatever is entered is still to be removed (`Removing`). A retry cannot
disturb this: it starts only what is entered. `Adding` uses the first invariant:
an addition that finds a workload running finds the version it adds. The
theorems: `TypeCorrect`, `NothingRunsUnentered`, `NoOldVersionRuns` and
`AppliedWhenQuiet`, for any number of versions, faults and retry goroutines.

The assumptions on the constants are the named `ASSUME`s of the modules; TLC
evaluates them in the runs. Only model-checked: the liveness properties
(`StaleLeaderStepsDown`, `ReportConverges`, `StopReturns`, `LeadershipResumes`,
`Recreated`, `EventsAreApplied`, `FailedIsRetried`), since the prover has neither
fairness nor `ENABLED`. Every invariant and action property of the passing
runs is proved.

## 5. Findings

1. *Workloads run on followers* (`le_workloads`). `manager.go:39-41` says that
   workloads are only active on the leader. Creating the managers calls the
   Start of each; a follower is refused a pod or a deployment
   (`workloads.go:155-159`), but resumes a cron job that exists. Besides, the
   workloads of a leadership that ended with a `SevereError` are not stopped,
   and `monitorWorkloads` may start a workload after the leadership has ended.
2. *The handover does not wait* (`le_handover`). The annotation that the new
   leader looks for is not the one that stopping workloads carry, and `Stop`
   releases the lock before it stops them.
3. *A stopped controller may lead* (`le_stopped`). The loop does not look at
   `stopCh` again after it has waited for the mutex. It ends there: once the
   loop has returned and what it has started is stopped, nothing starts it
   again (`RetiredForGood`).
4. *Two leaders* (`lt_split`). A read that succeeds resets the failure count, so a
   leader whose renewals fail leads past the expiry of its lock.
5. *A failure is forgotten* (`crd_retry`). `manager.go:33` promises an automatic
   retry of failed workloads. What is retried is a manager, and it logs the
   failed Start of a workload and returns nil (`process_manager.go:99-105`): the
   retry deletes it from `failedWorkloads` (`manager.go:511-513`), and nobody tries
   again. Nor does the retry ask whether the entry is still the one it has
   retried: one that a later `StartAll` has made is deleted as well.
   `FailedIsRetried` says that this delete is all that can go wrong: a failure
   that no retry in flight has still to delete is retried until the manager has
   started and what it has runs.

Noted without a run:

- `contains` (`db_storage.go:207`) finds a pattern at the end of a longer string
  only, so that `isLockError` misses most lock errors, and they are not retried.
- `ReleaseLock` on Redis ends with an unconditional `DEL` (`redis_storage.go:193`),
  which may hit the lock of another client; and with SQLite the acquiring
  transaction deletes a live row as well (`db_storage.go:288-291`). The client
  that has been robbed (`robbed`) goes on counting on a lock that somebody else
  may get, until its next renewal. What is proved is that this is all: nobody
  else's lock is affected, the robbed client's next renewal is refused, and from
  its next answer on it counts like everybody else.
- `Start` calls `TryAcquireLeadership` without the mutex, while the loop may be
  running: the reported leadership of a booting controller may stay wrong.
- Where a back-end relies on the clients' clocks, a lock may be counted on for
  `TTL - MaxSkew` only.
- The documents give several values for the TTL of the lock (15 s in
  `README.md` and `docs/configuration.md`, 15 s and 60 s in
  `docs/architecture.md`); the code has 100 s, which is what `lt_timing` uses.
- The stop channel of a workload is closed by its first Stop and never made
  again: the goroutines of every later Start end at once. In a second term of
  the same process nobody recreates a pod or checks a workload
  (`process.go:179`, against 32-34 and 46-48), and an error in the status stays
  there and makes `monitorWorkloads` restart the workload again and again.
  `MonitoredUntilStopped` and `Recreated` are stated up to the first Stop.
- After a handover the old leader's Stop may come after the new leader's Start:
  the deployment stays at zero replicas, and its health monitor finds it healthy
  (`service.go:127`, `persistent.go:33`). A cron job stays suspended. `Accounted`
  says that nothing is left running, not that something runs.
- A pod that is being deleted when the new leader starts is left alone and
  disappears with the mark of a controlled shutdown, so that the watcher does
  not recreate it; the status updater does (`Recreated`).
- Stop waits 15 seconds for a pod whose grace period is up to 28, and then
  deletes by force whatever has the name (`process.go:267`): it may be the new
  leader's pod.
- A pod, deployment, stateful set, headless service or cron job that somebody
  else (the leader before) creates or changes between the Get of a Start and its
  Create or Update makes Start fail (`process.go:413-436`, `service.go:305-328`,
  `persistent.go:308-374`, `cronjob.go:358`); only the update of a cron job is
  tried again. The manager logs the error, and nobody retries: the leader may
  have an object that it does not count as active and does not monitor, or none.
  No property says that `StartAll` leaves a leader with what it wants to run.
- `createOrUpdatePod` deletes a terminated pod by name (`process.go:427`): it may
  hit the pod that another controller has made since the Get.
- An update of a resource to a configuration that does not validate stops and
  removes the workload, and then enters nothing. `UpToDate` takes that for what
  the resource asks for.
- `StartAll` (`manager.go:174-254`) starts the managers of the four kinds, and
  these log the failure of a workload's Start and return nil: it reports an
  error only if a manager cannot read its configuration files. Such an error
  also keeps the CRD watcher from being started for that term.
- A retry that passed its check starts workloads after `StopAll`; they remain
  in the map, where the next `StopAll` finds them. The context of a retry is
  cancelled when its Start has returned (`manager.go:516`), and the goroutines of
  what it started with it: a workload that only a retry has started is active,
  and is neither checked nor recreated. `MonitoredUntilStopped` and `Recreated`
  except it (`orphaned`).
- A resource that is deleted while its controller does not lead stays in the
  map, and the next `StartAll` starts it. Events skipped while the leadership
  is not reported are not caught up before the next term (a resync delivers
  the same version). An update of a cron job's resource reaches only its
  suspension (`cronjob.go:366-369`).
- When a resource is changed or deleted during the initial sync, the sync and the
  handler interleave so that a deleted workload may run, or an old version
  overwrite a new one; the properties of `crd` except these (`disturbed`).
- Each initial sync starts its workload twice, and restarts it when it runs.

## 6. Not modelled

- *Configuration, validation, conversion of custom resources* (`pkg/common/`,
  `pkg/crd/client.go`): sequential functions over strings and maps, without
  state that outlives a call; their unit tests reach them. What they decide in
  the rest is modelled: a file that cannot be read is the fault of `StartAll`,
  `LoadWorkloadFromCRD` the step `Load`, `BuildContainers` the guard `Built`.
- *Cluster access* (`pkg/common/kubernetes.go`): wrappers of the client. An
  unhealthy cluster is an input of LeaderElection, a failed request a fault.
- *CRD registry*: creates the CRDs once, before anything else runs.
- *HTTP server and dashboard*: read-only views.
- *Monitoring server*, but for the reported leadership: metrics and display.
- *In the election*: `checkForOrphanedWorkloads` does nothing for the statuses
  that managers have (they name no namespace or kind of a single workload), and
  `canReuseExistingWorkloads` only shortens the wait, which is of any length in
  the model.
- *In the manager*: `Cleanup`, which runs as the process ends, and the metrics.
- *In the database and Spanner back-ends*: the creation of the schema.
- `functions/`: a stateless transformation of manifests.

What could be added: the restart of a follower's CRD watcher whose Start has
failed; the workloads of a controller in the middle of its boot, which
`Leadership` leaves out; and that LeaderElection's use of the lock is one of
`LeaderLease`.
