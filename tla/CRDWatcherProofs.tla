-------------------------- MODULE CRDWatcherProofs --------------------------
(***************************************************************************)
(* Proofs about CRDWatcher, for any kinds, versions, faults and number of  *)
(* retries at once: its variables have their types, what runs is in the    *)
(* map of the manager with the configuration that the manager has for it,  *)
(* and a leader whose handlers are done is as the resource says.           *)
(*                                                                         *)
(* RunningIsEntered and RunsWhatIsEntered speak of the moments in which    *)
(* nobody is at work.  The inductive invariant IInv says why they then     *)
(* hold: in the middle of the work, whoever is about to start a workload   *)
(* that has been removed meanwhile is not alone, and the other is about to *)
(* add the same version again.  UInv says why UpToDate holds: for as long  *)
(* as nothing has failed since the work began, and no event waits, either  *)
(* the version of the resource runs or somebody has still to add it, or,   *)
(* when the resource is gone, somebody has still to remove it.             *)
(***************************************************************************)
EXTENDS CRDWatcher, TLAPS

RefLabels == {"findRef", "stopRef", "removeRef"}

\* The initial sync is at work only while Start waits for it, and it removes
\* nothing but to add it again.
InitialInSync ==
    /\ ~At("initial", "idle") => election = "sync"
    /\ sync["initial"] \notin RefLabels

\* startWorkloads belongs to a controller that has just won.
StartsAsWinner ==
    election \in {"startAll", "clear", "start", "informers", "list", "sync"} =>
        term[Me] = "starting"

\* Nothing has been deleted since the informers were started.
NoRemoval ==
    ~disturbed /\ election \in {"list", "sync"} =>
        /\ \A i \in 1..Len(queue) : queue[i] # "delete"
        /\ sync["informer"] \notin RefLabels

\* Who is about to add holds something to add.
Carries ==
    \A a \in Syncers : sync[a] \in {"get", "stop", "remove", "add"} => held[a] # 0

\* During an initial sync there is only one version about.
OneVersion ==
    ~disturbed /\ election \in {"list", "sync"} =>
        \A a \in Syncers :
            /\ sync[a] \in {"get", "stop", "remove", "add", "start"} => held[a] = crd
            /\ sync[a] = "find" => entry \in {0, crd}

\* Who is about to start a workload has the one that is entered, or the other
\* is about to enter it again.
StartsWhatIsEntered ==
    ~disturbed =>
        \A a \in Syncers : At(a, "start") =>
            /\ entry # 0 => held[a] = entry
            /\ entry = 0 => \E b \in Syncers \ {a} : At(b, "add")

\* What is entered, or is about to be started, has a configuration that
\* validates.
ValidEntered ==
    /\ entry \notin invalid
    /\ \A a \in Syncers : At(a, "start") => held[a] \notin invalid

\* What runs is entered, or about to be: what the other adds is not refused.
RunningIsKnown ==
    ~disturbed /\ running =>
        \/ entry # 0
        \/ \E a \in Syncers : At(a, "add") /\ held[a] \notin invalid

\* It has the version that is entered, or is about to be.
RunsKnownVersion ==
    ~disturbed /\ running /\ kind # "cronjob" =>
        /\ entry # 0 => spec = entry
        /\ entry = 0 => \A a \in Syncers : At(a, "add") => spec = held[a]

IInv ==
    /\ TypeOK
    /\ InitialInSync
    /\ StartsAsWinner
    /\ NoRemoval
    /\ Carries
    /\ OneVersion
    /\ StartsWhatIsEntered
    /\ ValidEntered
    /\ RunningIsKnown
    /\ RunsKnownVersion

USE MeAssumption, KindsAssumption, BoundsAssumption
    DEF Goto, Hold, At, NoFault, Syncers, cluster, retrying, api, syncing,
        manager, leadership, watching, history

-----------------------------------------------------------------------------
(* Types                                                                   *)

\* The election moves the term and the report of Me, and nothing else.
LEMMA LeadershipTypes ==
    ASSUME LeadershipTypeOK,
           \/ Announce(Me) \/ Win(Me) \/ Started(Me) \/ Degrade(Me)
           \/ Lose(Me) \/ Stopped(Me) \/ UNCHANGED leadership
    PROVE  LeadershipTypeOK'
  BY DEF LeadershipTypeOK, Terms, Announce, Win, Started, Degrade, Lose,
         Stopped, Enter, Tell

\* A Start or a Stop of a version that there is.
LEMMA ClusterTypes ==
    ASSUME TypeOK, NEW v \in 0..MaxVersion,
           Starts(v) \/ Stops \/ ManagerStarts \/ ManagerTries \/ UNCHANGED cluster
    PROVE  spec' \in 0..MaxVersion /\ running' \in BOOLEAN
<1>1. \A w \in 0..MaxVersion : Given(w) \in 0..MaxVersion
  BY DEF TypeOK, ManagerTypeOK, Given
<1>2. CASE Starts(v)
  BY <1>1, <1>2 DEF Starts
<1>3. CASE Stops
  BY <1>3 DEF TypeOK, ManagerTypeOK, Stops
<1>4. CASE ManagerStarts
  <2>1. CASE entry # 0 /\ Startable
    BY <1>1, <1>4, <2>1 DEF ManagerStarts, Starts, TypeOK, ManagerTypeOK
  <2>2. CASE ~(entry # 0 /\ Startable)
    BY <1>4, <2>2 DEF ManagerStarts, TypeOK, ManagerTypeOK
  <2> QED
    BY <2>1, <2>2
<1>5. CASE UNCHANGED cluster
  BY <1>5 DEF TypeOK, ManagerTypeOK
<1> QED
  BY <1>2, <1>3, <1>4, <1>5 DEF ManagerTries

LEMMA FaultType ==
    ASSUME TypeOK, Fault \/ NoFault
    PROVE  faults' \in 0..MaxFaults
  BY DEF TypeOK, ManagerTypeOK, Fault

\* No more retries are in flight than there are goroutines.
LEMMA RetryTypes ==
    ASSUME TypeOK,
           \/ Spawn /\ UNCHANGED <<retry, forgetting>>
           \/ UNCHANGED <<retriers, retry, forgetting>>
           \/ Retry
    PROVE  /\ retriers' \in 0..MaxRetriers
           /\ retry' \in Nat /\ forgetting' \in Nat
           /\ InFlight' <= retriers'
<1> USE DEF TypeOK, ManagerTypeOK, InFlight
<1>1. CASE Spawn /\ UNCHANGED <<retry, forgetting>>
  BY <1>1 DEF Spawn
<1>2. CASE RetryBegins
  BY <1>2 DEF RetryBegins
<1>3. CASE RetryStarts
  BY <1>3 DEF RetryStarts
<1>4. CASE RetryForgets
  BY <1>4 DEF RetryForgets
<1> QED
  BY <1>1, <1>2, <1>3, <1>4 DEF Retry

LEMMA HistoryTypes ==
    ASSUME TypeOK,
           \/ Begins \/ before' = NotYet \/ UNCHANGED before
           \/ \E met \in BOOLEAN : Disturb(met)
    PROVE  before' \in 0..NotYet
  BY DEF TypeOK, ManagerTypeOK, Begins, Disturb, NotYet

LEMMA ManagerTypes ==
    ASSUME TypeOK, ManagerNext, UNCHANGED watching
    PROVE  TypeOK'
<1> USE DEF TypeOK, ManagerTypeOK, InFlight
<1>1. /\ retriers' \in 0..MaxRetriers
      /\ retry' \in Nat /\ forgetting' \in Nat
      /\ InFlight' <= retriers'
  BY RetryTypes DEF ManagerNext, ElectionWins, StartAll, StartAllClears, StartAllStarts,
     OtherManagerFails, ElectionLoses, StopAll, ElectionReports
<1>2. LeadershipTypeOK'
  BY LeadershipTypes DEF ManagerNext, ElectionWins, StartAll, StartAllClears,
     StartAllStarts, OtherManagerFails, ElectionLoses, StopAll, ElectionReports, Retry,
     RetryBegins, RetryStarts, RetryForgets
<1>3. spec' \in 0..MaxVersion /\ running' \in BOOLEAN
  BY ClusterTypes DEF ManagerNext, ElectionWins, StartAll, StartAllClears,
     StartAllStarts, OtherManagerFails, ElectionLoses, StopAll, ElectionReports, Retry,
     RetryBegins, RetryStarts, RetryForgets
<1>4. faults' \in 0..MaxFaults
  BY FaultType DEF ManagerNext, ElectionWins, StartAll, StartAllClears, StartAllStarts,
     ManagerTries, OtherManagerFails, ElectionLoses, StopAll, ElectionReports, Retry,
     RetryBegins, RetryStarts, RetryForgets
<1>5. failed' \in BOOLEAN /\ shuttingDown' \in BOOLEAN
  BY DEF ManagerNext, ElectionWins, StartAll, StartAllClears, StartAllStarts,
     OtherManagerFails, ElectionLoses, StopAll, ElectionReports, Retry, RetryBegins,
     RetryStarts, RetryForgets
<1>6. /\ UNCHANGED <<kind, entry>>
      /\ election' \in {"idle", "startAll", "clear", "start", "informers", "list",
                        "sync", "stopAll", "stopWatcher"}
  BY DEF ManagerNext, ElectionWins, StartAll, StartAllClears, StartAllStarts,
     OtherManagerFails, ElectionLoses, StopAll, ElectionReports, Retry, RetryBegins,
     RetryStarts, RetryForgets
<1> QED
  BY <1>1, <1>2, <1>3, <1>4, <1>5, <1>6

LEMMA APITypes ==
    ASSUME TypeOK, CRDWritten \/ CRDDeleted
    PROVE  TypeOK'
<1> USE DEF TypeOK, ManagerTypeOK, InFlight
<1>1. LeadershipTypeOK'
  BY LeadershipTypes DEF CRDWritten, CRDDeleted, Change
<1>2. queue' \in Seq({"add", "update", "delete"})
  <2>1. ASSUME NEW e \in {"add", "update", "delete"}
        PROVE  Append(queue, e) \in Seq({"add", "update", "delete"})
    OBVIOUS
  <2>2. CASE CRDWritten
    BY <2>1, <2>2 DEF CRDWritten, Change
  <2>3. CASE CRDDeleted
    BY <2>1, <2>3 DEF CRDDeleted, Change
  <2> QED
    BY <2>2, <2>3
<1>3. ~informer' => queue' = <<>>
  BY DEF CRDWritten, CRDDeleted, Change
<1>4. crd' \in 0..MaxVersion /\ versions' \in 0..MaxVersion /\ crd' <= versions'
  BY DEF CRDWritten, CRDDeleted, Change
<1>5. disturbed' \in BOOLEAN /\ before' \in 0..NotYet
  BY HistoryTypes DEF CRDWritten, CRDDeleted, Change, Disturb
<1>6. UNCHANGED <<manager, invalid, informer, syncing>>
  BY DEF CRDWritten, CRDDeleted, Change
<1> QED
  BY <1>1, <1>2, <1>3, <1>4, <1>5, <1>6

LEMMA WatcherTypes ==
    ASSUME TypeOK,
           WatcherStart \/ InitialList \/ InitialDone \/ WatcherStop \/ Handle
    PROVE  TypeOK'
<1> USE DEF TypeOK, ManagerTypeOK, InFlight, Labels
<1>0. disturbed' \in BOOLEAN /\ before' \in 0..NotYet
  BY HistoryTypes
  DEF WatcherStart, InitialList, InitialDone, WatcherStop, Handle, Disturb
<1>1. CASE WatcherStart
  <2>1. LeadershipTypeOK'
    BY <1>1, LeadershipTypes DEF WatcherStart
  <2>2. <<>> \in Seq({"add", "update", "delete"})
        /\ <<"add">> \in Seq({"add", "update", "delete"})
    OBVIOUS
  <2>3. queue' \in Seq({"add", "update", "delete"})
    BY <1>1, <2>2 DEF WatcherStart
  <2> QED
    BY <1>0, <1>1, <2>1, <2>3 DEF WatcherStart
<1>2. CASE InitialList
  <2>1. faults' \in 0..MaxFaults
    BY <1>2, FaultType DEF InitialList
  <2>2. LeadershipTypeOK'
    BY <1>2, LeadershipTypes DEF InitialList
  <2> QED
    BY <1>0, <1>2, <2>1, <2>2 DEF InitialList
<1>3. CASE InitialDone
  BY <1>3, LeadershipTypes DEF InitialDone
<1>4. CASE WatcherStop
  <2>1. LeadershipTypeOK'
    BY <1>4, LeadershipTypes DEF WatcherStop
  <2>2. queue' \in Seq({"add", "update", "delete"})
    BY <1>4 DEF WatcherStop
  <2> QED
    BY <1>0, <1>4, <2>1, <2>2 DEF WatcherStop
<1>5. CASE Handle
  <2>1. LeadershipTypeOK'
    BY <1>5, LeadershipTypes DEF Handle
  <2> QED
    BY <1>0, <1>5, <2>1 DEF Handle
<1> QED
  BY <1>1, <1>2, <1>3, <1>4, <1>5

LEMMA SyncTypes ==
    ASSUME TypeOK, NEW a \in Syncers, Sync(a)
    PROVE  TypeOK'
<1> USE DEF TypeOK, ManagerTypeOK, InFlight, Labels
<1>1. LeadershipTypeOK'
  BY LeadershipTypes
  DEF Sync, Load, Get, StopFound, Remove, Add, Find, StartFound
<1>2. faults' \in 0..MaxFaults
  BY FaultType DEF Sync, Load, Get, StopFound, Remove, Add, Find, StartFound
<1>3. spec' \in 0..MaxVersion /\ running' \in BOOLEAN
  BY ClusterTypes
  DEF Sync, Load, Get, StopFound, Remove, Add, Find, StartFound
<1>4. sync' \in [Syncers -> Labels]
  <2>1. \E label \in Labels : Goto(a, label)
    BY DEF Sync, Load, Get, StopFound, Remove, Add, Find, StartFound
  <2> QED
    BY <2>1
<1>5. held' \in [Syncers -> 0..MaxVersion]
  <2>1. UNCHANGED held \/ \E v \in 0..MaxVersion : Hold(a, v)
    BY DEF Sync, Load, Get, StopFound, Remove, Add, Find, StartFound
  <2> QED
    BY <2>1
<1>6. entry' \in 0..MaxVersion
  BY DEF Sync, Load, Get, StopFound, Remove, Add, Find, StartFound
<1>7. UNCHANGED <<kind, retrying, election, api, informer, queue>>
  BY DEF Sync, Load, Get, StopFound, Remove, Add, Find, StartFound
<1> QED
  BY <1>1, <1>2, <1>3, <1>4, <1>5, <1>6, <1>7
-----------------------------------------------------------------------------
(* The invariant                                                           *)

LEMMA InitKeeps == Init => IInv
<1> SUFFICES ASSUME Init PROVE IInv
  OBVIOUS
<1>1. TypeOK
  <2>1. LeadershipTypeOK
    BY DEF Init, LeadershipInit, LeadershipTypeOK, Terms
  <2>2. 0 \in 0..MaxVersion /\ 0 \in 0..MaxFaults /\ 0 <= 0
        /\ 0 \in 0..MaxRetriers /\ 0 \in Nat /\ 0 + 0 <= 0 /\ NotYet \in 0..NotYet
    BY DEF BoundsAssumption, NotYet
  <2>3. ManagerTypeOK
    BY <2>1, <2>2, Zenon DEF Init, ManagerTypeOK, InFlight
  <2>4. queue \in Seq({"add", "update", "delete"})
    BY DEF Init
  <2>5. sync \in [Syncers -> Labels] /\ held \in [Syncers -> 0..MaxVersion]
    BY <2>2 DEF Init, Labels
  <2> QED
    BY <2>2, <2>3, <2>4, <2>5, Zenon DEF Init, TypeOK
<1> QED
  BY <1>1 DEF Init, IInv, InitialInSync, StartsAsWinner, NoRemoval, Carries, RefLabels,
     OneVersion, StartsWhatIsEntered, ValidEntered, Versions, RunningIsKnown,
     RunsKnownVersion

\* The parts that speak of the syncers, when neither they nor what they work
\* on change.
LEMMA ManagerKeeps ==
    ASSUME IInv, ManagerNext, UNCHANGED watching
    PROVE  IInv'
<1> USE DEF IInv
<1>1. TypeOK'
  BY ManagerTypes
<1>2. StartsAsWinner'
  BY DEF StartsAsWinner, ManagerNext, ElectionWins, StartAll, StartAllClears,
     StartAllStarts, OtherManagerFails, ElectionLoses, StopAll, ElectionReports, Retry,
     RetryBegins, RetryStarts, RetryForgets, Win, Started, Lose, Announce, Degrade,
     Enter, TypeOK, ManagerTypeOK, LeadershipTypeOK
<1>3. /\ UNCHANGED entry
      /\ election' \in {"list", "sync"} <=> election \in {"list", "sync"}
      /\ election' = "sync" <=> election = "sync"
  BY DEF ManagerNext, ElectionWins, StartAll, StartAllClears, StartAllStarts,
     OtherManagerFails, ElectionLoses, StopAll, ElectionReports, Retry, RetryBegins,
     RetryStarts, RetryForgets
<1>4. /\ InitialInSync' /\ NoRemoval' /\ Carries' /\ OneVersion'
      /\ StartsWhatIsEntered' /\ ValidEntered'
  BY <1>3 DEF InitialInSync, NoRemoval, Carries, OneVersion, StartsWhatIsEntered,
     ValidEntered
<1>5. \/ UNCHANGED cluster
      \/ running' = FALSE
      \/ entry # 0 /\ spec' = Given(entry) /\ running' = TRUE
  BY DEF ManagerNext, ElectionWins, StartAll, StartAllClears, StartAllStarts,
     OtherManagerFails, ElectionLoses, StopAll, ElectionReports, Retry, RetryBegins,
     RetryStarts, RetryForgets, ManagerTries, ManagerStarts, Starts, Stops
<1>6. RunningIsKnown'
  BY <1>3, <1>5 DEF RunningIsKnown
<1>7. RunsKnownVersion'
  BY <1>3, <1>5 DEF RunsKnownVersion, Given, TypeOK, ManagerTypeOK, ManagerNext,
     ElectionWins, StartAll, StartAllClears, StartAllStarts, OtherManagerFails,
     ElectionLoses, StopAll, ElectionReports, Retry, RetryBegins, RetryStarts,
     RetryForgets
<1> QED
  BY <1>1, <1>2, <1>4, <1>6, <1>7

LEMMA APIKeeps ==
    ASSUME IInv, CRDWritten \/ CRDDeleted
    PROVE  IInv'
<1> USE DEF IInv
<1>1. TypeOK'
  BY APITypes
<1>2. /\ UNCHANGED <<manager, invalid, syncing>>
      /\ disturbed' = (disturbed \/ term[Me] = "starting")
  BY DEF CRDWritten, CRDDeleted, Change, Disturb
<1>3. disturbed' \/ election \notin {"list", "sync"}
  BY <1>2 DEF StartsAsWinner
<1>4. InitialInSync' /\ StartsAsWinner' /\ Carries'
  BY <1>2 DEF InitialInSync, StartsAsWinner, Carries
<1>5. NoRemoval' /\ OneVersion'
  BY <1>2, <1>3 DEF NoRemoval, OneVersion
<1>6. StartsWhatIsEntered' /\ ValidEntered' /\ RunningIsKnown' /\ RunsKnownVersion'
  BY <1>2 DEF StartsWhatIsEntered, ValidEntered, RunningIsKnown, RunsKnownVersion
<1> QED
  BY <1>1, <1>4, <1>5, <1>6

LEMMA WatcherKeeps ==
    ASSUME IInv,
           WatcherStart \/ InitialList \/ InitialDone \/ WatcherStop \/ Handle
    PROVE  IInv'
<1> USE DEF IInv
<1>1. TypeOK'
  BY WatcherTypes
<1>2. StartsAsWinner'
  BY DEF StartsAsWinner, WatcherStart, InitialList, InitialDone, WatcherStop,
     Handle, Started, Stopped, Enter, TypeOK, ManagerTypeOK, LeadershipTypeOK
<1>3. InitialInSync'
  BY DEF InitialInSync, RefLabels, WatcherStart, InitialList, InitialDone,
     WatcherStop, Handle, TypeOK
<1>4. NoRemoval'
  <2>1. CASE WatcherStart
    <3>1. \A i \in 1..Len(queue') : queue'[i] # "delete"
      BY <2>1 DEF WatcherStart
    <3>2. ~disturbed' => sync'["informer"] = "idle"
      BY <2>1 DEF WatcherStart, Disturb
    <3> QED
      BY <3>1, <3>2 DEF NoRemoval, RefLabels
  <2>2. CASE InitialList \/ InitialDone \/ WatcherStop
    BY <2>2 DEF NoRemoval, InitialList, InitialDone, WatcherStop, TypeOK
  <2>3. CASE Handle
    <3> SUFFICES ASSUME ~disturbed, election \in {"list", "sync"}
                 PROVE  /\ \A i \in 1..Len(queue') : queue'[i] # "delete"
                        /\ sync'["informer"] \notin RefLabels
      BY <2>3 DEF NoRemoval, Handle
    <3>1. Len(queue) \in Nat /\ Len(queue) # 0 /\ Head(queue) = queue[1]
      BY <2>3 DEF TypeOK, Handle
    <3>2. Len(queue') = Len(queue) - 1
          /\ \A i \in 1..Len(queue') : queue'[i] = queue[i + 1]
      BY <2>3 DEF TypeOK, Handle
    <3>3. \A i \in 1..Len(queue) : queue[i] # "delete"
      BY DEF NoRemoval
    <3>4. Head(queue) # "delete"
      BY <3>1, <3>3
    <3> QED
      BY <2>3, <3>1, <3>2, <3>3, <3>4 DEF NoRemoval, Handle, RefLabels, TypeOK
  <2> QED
    BY <2>1, <2>2, <2>3
<1>5. /\ UNCHANGED <<entry, cluster, crd, invalid, held, kind>>
      /\ disturbed => disturbed'
  <2>1. CASE WatcherStart
    BY <2>1 DEF WatcherStart, Disturb
  <2>2. CASE InitialList \/ InitialDone \/ WatcherStop \/ Handle
    BY <2>2 DEF InitialList, InitialDone, WatcherStop, Handle
  <2> QED
    BY <2>1, <2>2
<1>6. \A a \in Syncers : sync'[a] \in {"idle", "load", "findRef", sync[a]}
      /\ (sync'[a] # sync[a] => sync[a] = "idle")
  BY DEF WatcherStart, InitialList, InitialDone, WatcherStop, Handle, TypeOK,
     InitialInSync
<1>7. /\ Carries' /\ StartsWhatIsEntered' /\ ValidEntered'
      /\ RunningIsKnown' /\ RunsKnownVersion'
  BY <1>5, <1>6
  DEF Carries, StartsWhatIsEntered, ValidEntered, RunningIsKnown, RunsKnownVersion
<1>8. OneVersion'
  <2>1. CASE WatcherStart
    BY <2>1 DEF WatcherStart, Disturb, OneVersion, InitialInSync
  <2>2. CASE ~WatcherStart
    BY <1>5, <1>6, <2>2 DEF InitialList, InitialDone, WatcherStop, Handle, OneVersion
  <2> QED
    BY <2>1, <2>2
<1> QED
  BY <1>1, <1>2, <1>3, <1>4, <1>7, <1>8

\* Two that are at work at once, and neither of them undisturbed removes a
\* resource: one is the initial sync, so there is one version about.
LEMMA Together ==
    ASSUME IInv, ~disturbed, NEW a \in Syncers, NEW b \in Syncers \ {a},
           ~At(a, "idle"), ~At(b, "idle")
    PROVE  /\ election = "sync"
           /\ sync[a] \notin RefLabels /\ sync[b] \notin RefLabels
           /\ sync[a] \in {"get", "stop", "remove", "add", "start"} => held[a] = crd
           /\ sync[b] \in {"get", "stop", "remove", "add", "start"} => held[b] = crd
           /\ sync[a] = "find" => entry \in {0, crd}
  BY DEF IInv, InitialInSync, NoRemoval, OneVersion

\* What a step of a syncer leaves alone.
LEMMA SyncFrame ==
    ASSUME IInv, NEW a \in Syncers, Sync(a)
    PROVE  /\ TypeOK'
           /\ UNCHANGED <<leadership, kind, retrying, election, api, informer, queue>>
           /\ \A b \in Syncers \ {a} : sync'[b] = sync[b] /\ held'[b] = held[b]
           /\ sync'[a] \in RefLabels => sync[a] \in RefLabels
           /\ InitialInSync' /\ StartsAsWinner' /\ NoRemoval'
<1> USE DEF IInv
<1>1. TypeOK'
  BY SyncTypes
<1>2. UNCHANGED <<leadership, kind, retrying, election, api, informer, queue>>
  BY DEF Sync, Load, Get, StopFound, Remove, Add, Find, StartFound
<1>3. \A b \in Syncers \ {a} : sync'[b] = sync[b] /\ held'[b] = held[b]
  BY DEF Sync, Load, Get, StopFound, Remove, Add, Find, StartFound, TypeOK
<1>4. /\ sync'[a] \in RefLabels => sync[a] \in RefLabels
      /\ sync[a] # "idle"
  BY DEF Sync, Load, Get, StopFound, Remove, Add, Find, StartFound, TypeOK, RefLabels
<1>5. InitialInSync'
  BY <1>2, <1>3, <1>4 DEF InitialInSync
<1>6. StartsAsWinner' /\ NoRemoval'
  BY <1>2, <1>3, <1>4 DEF StartsAsWinner, NoRemoval
<1> QED
  BY <1>1, <1>2, <1>3, <1>4, <1>5, <1>6

\* Steps that change neither the map nor the cluster.
LEMMA LooksKeep ==
    ASSUME IInv, NEW a \in Syncers, Load(a) \/ Get(a) \/ Find(a)
    PROVE  IInv'
<1> USE DEF IInv
<1>1. /\ TypeOK'
      /\ UNCHANGED <<kind, election, api>>
      /\ \A b \in Syncers \ {a} : sync'[b] = sync[b] /\ held'[b] = held[b]
      /\ InitialInSync' /\ StartsAsWinner' /\ NoRemoval'
  BY SyncFrame DEF Sync
<1>2. UNCHANGED <<entry, cluster>>
  BY DEF Load, Get, Find
<1>3. \/ sync'[a] \in {"idle", "stopRef"}
      \/ sync'[a] = "get" /\ held'[a] = crd /\ crd # 0
      \/ sync'[a] = "stop" /\ held'[a] = held[a] /\ sync[a] = "get"
      \/ sync'[a] = "add" /\ held'[a] = held[a] /\ sync[a] = "get" /\ entry = 0
      \/ sync'[a] = "start" /\ held'[a] = entry /\ sync[a] = "find" /\ entry # 0
  BY DEF Load, Get, Find, TypeOK
<1>4. sync[a] \in {"load", "get", "findRef", "find"}
  BY DEF Load, Get, Find
<1>5. Carries'
  BY <1>1, <1>3 DEF Carries
<1>6. OneVersion'
  BY <1>1, <1>2, <1>3 DEF OneVersion, api
<1>7. StartsWhatIsEntered'
  BY <1>1, <1>2, <1>3, <1>4 DEF StartsWhatIsEntered
<1>8. ValidEntered' /\ RunningIsKnown'
  BY <1>1, <1>2, <1>3, <1>4 DEF ValidEntered, RunningIsKnown
<1>9. RunsKnownVersion'
  <2> SUFFICES ASSUME ~disturbed, running, kind # "cronjob", entry = 0,
                      NEW b \in Syncers, sync'[b] = "add"
               PROVE  spec = held'[b]
    BY <1>1, <1>2 DEF RunsKnownVersion
  <2>1. CASE b # a
    BY <1>1, <2>1 DEF RunsKnownVersion
  <2>2. CASE b = a
    <3>1. PICK d \in Syncers : sync[d] = "add"
      BY DEF RunningIsKnown
    <3>2. d # a
      BY <1>4, <3>1
    <3>3. held[d] = crd /\ held[a] = crd
      BY <1>3, <2>2, <3>1, <3>2, Together
    <3>4. spec = held[d]
      BY <3>1 DEF RunsKnownVersion
    <3> QED
      BY <1>3, <2>2, <3>3, <3>4
  <2> QED
    BY <2>1, <2>2
<1> QED
  BY <1>1, <1>5, <1>6, <1>7, <1>8, <1>9

LEMMA StopFoundKeeps ==
    ASSUME IInv, NEW a \in Syncers, StopFound(a)
    PROVE  IInv'
<1> USE DEF IInv
<1>1. /\ TypeOK'
      /\ UNCHANGED <<kind, election, api>>
      /\ \A b \in Syncers \ {a} : sync'[b] = sync[b] /\ held'[b] = held[b]
      /\ InitialInSync' /\ StartsAsWinner' /\ NoRemoval'
  BY SyncFrame DEF Sync
<1>2. /\ UNCHANGED <<entry, held>>
      /\ UNCHANGED cluster \/ running' = FALSE
      /\ sync[a] \in {"stop", "stopRef"}
      /\ sync'[a] = IF sync[a] = "stop" THEN "remove" ELSE "removeRef"
  BY DEF StopFound, Stops, TypeOK
<1>3. Carries' /\ OneVersion' /\ StartsWhatIsEntered'
  BY <1>1, <1>2 DEF Carries, OneVersion, StartsWhatIsEntered
<1>4. ValidEntered' /\ RunningIsKnown' /\ RunsKnownVersion'
  BY <1>1, <1>2 DEF ValidEntered, RunningIsKnown, RunsKnownVersion
<1> QED
  BY <1>1, <1>3, <1>4

LEMMA RemoveKeeps ==
    ASSUME IInv, NEW a \in Syncers, Remove(a)
    PROVE  IInv'
<1> USE DEF IInv
<1>1. /\ TypeOK'
      /\ UNCHANGED <<kind, election, api>>
      /\ \A b \in Syncers \ {a} : sync'[b] = sync[b] /\ held'[b] = held[b]
      /\ InitialInSync' /\ StartsAsWinner' /\ NoRemoval'
  BY SyncFrame DEF Sync
<1>2. /\ UNCHANGED held
      /\ \/ UNCHANGED <<entry, cluster>>
         \/ entry' = 0 /\ running' = FALSE
      /\ \/ sync[a] = "remove" /\ sync'[a] = "add"
         \/ sync[a] = "removeRef" /\ sync'[a] = "idle"
  BY DEF Remove, Stops, TypeOK
<1>3. Carries' /\ OneVersion'
  BY <1>1, <1>2 DEF Carries, OneVersion
<1>4. StartsWhatIsEntered'
  <2> SUFFICES ASSUME ~disturbed, NEW b \in Syncers, sync'[b] = "start"
               PROVE  /\ entry' # 0 => held'[b] = entry'
                      /\ entry' = 0 => \E d \in Syncers \ {b} : sync'[d] = "add"
    BY <1>1 DEF StartsWhatIsEntered
  <2>1. b # a /\ sync[b] = "start" /\ held'[b] = held[b]
    BY <1>1, <1>2
  <2>2. sync[a] = "remove" /\ sync'[a] = "add"
    BY <1>2, <2>1, Together DEF RefLabels
  <2> QED
    BY <1>2, <2>1, <2>2 DEF StartsWhatIsEntered
<1>5. ValidEntered' /\ RunningIsKnown'
  BY <1>1, <1>2 DEF ValidEntered, RunningIsKnown, TypeOK, Versions
<1>6. RunsKnownVersion'
  <2> SUFFICES ASSUME ~disturbed, running', kind # "cronjob"
               PROVE  /\ entry' # 0 => spec' = entry'
                      /\ entry' = 0 => \A b \in Syncers : sync'[b] = "add" => spec' = held'[b]
    BY <1>1 DEF RunsKnownVersion
  <2>1. running /\ UNCHANGED <<entry, cluster>>
    BY <1>2
  <2>2. ASSUME entry = 0, NEW b \in Syncers, sync'[b] = "add"
        PROVE  spec = held[b]
    <3>1. CASE b # a
      BY <1>1, <2>1, <2>2, <3>1 DEF RunsKnownVersion
    <3>2. CASE b = a
      <4>1. PICK d \in Syncers : sync[d] = "add"
        BY <2>1, <2>2 DEF RunningIsKnown
      <4>2. d # a /\ sync[a] = "remove"
        BY <1>2, <2>2, <3>2, <4>1
      <4>3. held[d] = crd /\ held[a] = crd
        BY <4>1, <4>2, Together
      <4> QED
        BY <2>1, <2>2, <3>2, <4>1, <4>3 DEF RunsKnownVersion
    <3> QED
      BY <3>1, <3>2
  <2> QED
    BY <1>2, <2>1, <2>2 DEF RunsKnownVersion
<1> QED
  BY <1>1, <1>3, <1>4, <1>5, <1>6

LEMMA AddKeeps ==
    ASSUME IInv, NEW a \in Syncers, Add(a)
    PROVE  IInv'
<1> USE DEF IInv
<1>1. /\ TypeOK'
      /\ UNCHANGED <<kind, election, api>>
      /\ \A b \in Syncers \ {a} : sync'[b] = sync[b] /\ held'[b] = held[b]
      /\ InitialInSync' /\ StartsAsWinner' /\ NoRemoval'
  BY SyncFrame DEF Sync
<1>2. sync[a] = "add" /\ held'[a] = 0 /\ sync'[a] \in {"idle", "find"}
  BY DEF Add, TypeOK
<1>3. \/ /\ entry # 0 \/ held[a] \in invalid
         /\ UNCHANGED <<entry, cluster>> /\ sync'[a] = "idle"
      \/ /\ entry = 0 /\ entry' = held[a] /\ held[a] \notin invalid
         /\ \/ UNCHANGED cluster
            \/ running' = TRUE /\ spec' = Given(held[a])
  BY DEF Add, Starts, TypeOK
<1>4. held[a] # 0
  BY <1>2 DEF Carries
<1>5. Carries'
  BY <1>1, <1>2 DEF Carries
<1>6. OneVersion'
  BY <1>1, <1>2, <1>3 DEF OneVersion
<1>7. StartsWhatIsEntered'
  <2> SUFFICES ASSUME ~disturbed, NEW b \in Syncers, sync'[b] = "start"
               PROVE  entry' # 0 /\ held'[b] = entry'
    BY <1>1 DEF StartsWhatIsEntered
  <2>1. b # a /\ sync[b] = "start" /\ held'[b] = held[b]
    BY <1>1, <1>2
  <2>2. held[b] = crd /\ held[a] = crd
    BY <1>2, <2>1, Together
  <2>3. held[a] \notin invalid
    BY <2>1, <2>2 DEF ValidEntered
  <2> QED
    BY <1>3, <1>4, <2>1, <2>2, <2>3 DEF StartsWhatIsEntered
<1>8. ValidEntered'
  BY <1>1, <1>2, <1>3 DEF ValidEntered
<1>9. RunningIsKnown'
  <2> SUFFICES ASSUME ~disturbed, running', entry' = 0
               PROVE  \E b \in Syncers : sync'[b] = "add" /\ held'[b] \notin invalid
    BY <1>1 DEF RunningIsKnown
  <2>1. entry = 0 /\ running /\ held[a] \in invalid
    BY <1>3, <1>4
  <2>2. PICK b \in Syncers : sync[b] = "add" /\ held[b] \notin invalid
    BY <2>1 DEF RunningIsKnown
  <2> QED
    BY <1>1, <2>1, <2>2
<1>10. RunsKnownVersion'
  <2> SUFFICES ASSUME ~disturbed, running', kind # "cronjob"
               PROVE  /\ entry' # 0 => spec' = entry'
                      /\ entry' = 0 => \A b \in Syncers :
                                          sync'[b] = "add" => spec' = held'[b]
    BY <1>1 DEF RunsKnownVersion
  <2>1. running => spec = IF entry = 0 THEN held[a] ELSE entry
    BY <1>2 DEF RunsKnownVersion
  <2>2. kind \in {"process", "service"}
    BY DEF TypeOK, ManagerTypeOK
  <2>3. CASE UNCHANGED <<entry, cluster>>
    BY <1>1, <1>2, <2>3 DEF RunsKnownVersion
  <2>4. CASE entry = 0 /\ entry' = held[a] /\ UNCHANGED cluster
    BY <1>4, <2>1, <2>4
  <2>5. CASE entry = 0 /\ entry' = held[a] /\ spec' = Given(held[a])
    BY <1>4, <2>1, <2>2, <2>5 DEF Given
  <2> QED
    BY <1>3, <2>3, <2>4, <2>5
<1> QED
  BY <1>1, <1>5, <1>6, <1>7, <1>8, <1>9, <1>10

LEMMA StartFoundKeeps ==
    ASSUME IInv, NEW a \in Syncers, StartFound(a)
    PROVE  IInv'
<1> USE DEF IInv
<1>1. /\ TypeOK'
      /\ UNCHANGED <<kind, election, api>>
      /\ \A b \in Syncers \ {a} : sync'[b] = sync[b] /\ held'[b] = held[b]
      /\ InitialInSync' /\ StartsAsWinner' /\ NoRemoval'
  BY SyncFrame DEF Sync
<1>2. sync[a] = "start" /\ held'[a] = 0 /\ sync'[a] = "idle" /\ UNCHANGED entry
  BY DEF StartFound, TypeOK
<1>3. \/ UNCHANGED cluster
      \/ running' = TRUE /\ spec' = Given(held[a])
  BY DEF StartFound, Starts
<1>4. Carries' /\ OneVersion'
  BY <1>1, <1>2 DEF Carries, OneVersion
<1>5. StartsWhatIsEntered'
  BY <1>1, <1>2 DEF StartsWhatIsEntered
<1>6. ValidEntered' /\ RunningIsKnown'
  <2>1. ValidEntered'
    BY <1>1, <1>2 DEF ValidEntered
  <2>2. ASSUME ~disturbed, entry = 0
        PROVE  \E b \in Syncers : sync'[b] = "add" /\ held'[b] \notin invalid
    <3>1. PICK b \in Syncers \ {a} : sync[b] = "add"
      BY <1>2, <2>2 DEF StartsWhatIsEntered
    <3>2. held[b] = crd /\ held[a] = crd
      BY <1>2, <2>2, <3>1, Together
    <3>3. held[b] \notin invalid
      BY <1>2, <3>2 DEF ValidEntered
    <3> QED
      BY <1>1, <3>1, <3>3
  <2> QED
    BY <1>1, <1>2, <2>1, <2>2 DEF RunningIsKnown
<1>7. RunsKnownVersion'
  <2> SUFFICES ASSUME ~disturbed, running', kind # "cronjob"
               PROVE  /\ entry # 0 => spec' = entry
                      /\ entry = 0 => \A b \in Syncers : sync'[b] = "add" => spec' = held'[b]
    BY <1>1, <1>2 DEF RunsKnownVersion
  <2>1. kind \in {"process", "service"}
    BY DEF TypeOK, ManagerTypeOK
  <2>2. CASE entry # 0
    BY <1>2, <1>3, <2>1, <2>2 DEF Given, StartsWhatIsEntered, RunsKnownVersion
  <2>3. CASE entry = 0
    <3> SUFFICES ASSUME NEW b \in Syncers, sync'[b] = "add"
                 PROVE  spec' = held'[b]
      BY <2>3
    <3>1. b # a /\ sync[b] = "add" /\ held'[b] = held[b]
      BY <1>1, <1>2
    <3>2. held[b] = crd /\ held[a] = crd
      BY <1>2, <3>1, Together
    <3>3. running => spec = held[b]
      BY <2>3, <3>1 DEF RunsKnownVersion
    <3> QED
      BY <1>3, <2>1, <3>1, <3>2, <3>3 DEF Given
  <2> QED
    BY <2>2, <2>3
<1> QED
  BY <1>1, <1>4, <1>5, <1>6, <1>7

LEMMA NextKeeps == IInv /\ [Next]_vars => IInv'
<1> SUFFICES ASSUME IInv, [Next]_vars PROVE IInv'
  OBVIOUS
<1>1. CASE ManagerNext /\ UNCHANGED watching
  BY <1>1, ManagerKeeps
<1>2. CASE CRDWritten \/ CRDDeleted
  BY <1>2, APIKeeps
<1>3. CASE WatcherStart \/ InitialList \/ InitialDone \/ WatcherStop \/ Handle
  BY <1>3, WatcherKeeps
<1>4. ASSUME NEW a \in Syncers, Sync(a) PROVE IInv'
  BY <1>4, LooksKeep, StopFoundKeeps, RemoveKeeps, AddKeeps, StartFoundKeeps
  DEF Sync
<1>5. CASE UNCHANGED vars
  BY <1>5
  DEF vars, IInv, TypeOK, ManagerTypeOK, LeadershipTypeOK, InitialInSync,
      InFlight, StartsAsWinner, NoRemoval, Carries, OneVersion, StartsWhatIsEntered,
      ValidEntered, RunningIsKnown, RunsKnownVersion
<1> QED
  BY <1>1, <1>2, <1>3, <1>4, <1>5 DEF Next

LEMMA Invariant == Spec => []IInv
  BY InitKeeps, NextKeeps, PTL DEF Spec

-----------------------------------------------------------------------------
(* A handler that nothing has failed since its beginning leaves the manager *)
(* and the cluster as the resource says                                    *)

\* The informers run from the initial sync until the end of the term.
InformerInTerm ==
    /\ election \in {"list", "sync"} => informer
    /\ informer =>
          \/ election \in {"list", "sync"}
          \/ election = "idle" /\ term[Me] = "leading"
          \/ election \in {"stopAll", "stopWatcher"} /\ term[Me] = "stopping"

BeforeIsPast == before # NotYet => before <= faults /\ informer /\ ~disturbed

\* Nothing has failed since the beginning of the latest work of this term.
Fresh == before = faults /\ Leads(Me)

ReportedWhileFresh == Fresh => reports[Me]

\* The last event that waits is the last thing that has happened.
LastEventTells == queue # <<>> => (queue[Len(queue)] = "delete" <=> crd = 0)

\* All that is under way is the removal of a workload, if there is one.
Removing ==
    /\ \A a \in Syncers : sync[a] \in RefLabels \union {"idle"}
    /\ entry # 0 => \E a \in Syncers : sync[a] \in RefLabels

\* The version of the resource runs, or somebody has still to add it.
Adding ==
    /\ \A a \in Syncers :
          /\ sync[a] \notin RefLabels
          /\ sync[a] \in {"get", "stop", "remove", "add"} => held[a] = crd
    /\ \/ Synced
       \/ \E a \in Syncers : \/ sync[a] \in {"load", "get", "stop", "remove"}
                             \/ At(a, "add") /\ entry = 0

Applying == Fresh /\ queue = <<>> => IF crd = 0 THEN Removing ELSE Adding

UInv ==
    /\ InformerInTerm
    /\ BeforeIsPast
    /\ ReportedWhileFresh
    /\ LastEventTells
    /\ Applying

LEMMA InitUInv == Init => UInv
  BY DEF Init, LeadershipInit, UInv, InformerInTerm, BeforeIsPast, ReportedWhileFresh,
     LastEventTells, Applying, Fresh, Leads, NotYet

LEMMA FreshMeans ==
    ASSUME IInv, UInv, Fresh
    PROVE  /\ before # NotYet /\ informer /\ ~disturbed /\ reports[Me]
           /\ election \in {"list", "sync", "idle"}
           /\ election = "idle" => term[Me] = "leading"
<1>1. before # NotYet
  BY DEF Fresh, NotYet, IInv, TypeOK, ManagerTypeOK
<1> QED
  BY <1>1 DEF UInv, BeforeIsPast, InformerInTerm, ReportedWhileFresh, Fresh, Leads

LEMMA ManagerKeepsU ==
    ASSUME IInv, UInv, ManagerNext, UNCHANGED watching
    PROVE  UInv'
<1>1. TypeOK /\ TypeOK'
  BY ManagerTypes DEF IInv
<1>2. faults \in Nat /\ faults' \in Nat /\ faults <= faults'
  BY <1>1 DEF TypeOK, ManagerTypeOK, ManagerNext, ElectionWins, StartAll,
     StartAllClears, StartAllStarts, ManagerTries, OtherManagerFails, ElectionLoses,
     StopAll, ElectionReports, Retry, RetryBegins, RetryStarts, RetryForgets, Fault
<1>3. InformerInTerm'
  BY <1>1 DEF UInv, InformerInTerm, TypeOK, ManagerTypeOK, LeadershipTypeOK,
     ManagerNext, ElectionWins, StartAll, StartAllClears, StartAllStarts,
     OtherManagerFails, ElectionLoses, StopAll, ElectionReports, Retry, RetryBegins,
     RetryStarts, RetryForgets, Win, Started, Lose, Announce, Degrade, Enter
<1>4. BeforeIsPast'
  BY <1>1, <1>2 DEF UInv, BeforeIsPast, TypeOK
<1>5. ASSUME Fresh' PROVE Fresh /\ NoFault /\ election' \in {"list", "sync", "idle"}
  <2>1. before # NotYet
    BY <1>1, <1>5 DEF Fresh, NotYet, TypeOK, ManagerTypeOK
  <2>2. before = faults /\ faults' = faults /\ informer
    BY <1>2, <1>5, <2>1 DEF Fresh, UInv, BeforeIsPast
  <2>3. election' \in {"list", "sync", "idle"}
    BY <1>3, <1>5, <2>2 DEF InformerInTerm, Fresh, Leads
  <2>4. Leads(Me)
    BY <1>1, <1>5, <2>2 DEF Fresh, Leads, UInv, InformerInTerm, TypeOK, ManagerTypeOK,
       LeadershipTypeOK, ManagerNext, ElectionWins, StartAll, StartAllClears,
       StartAllStarts, OtherManagerFails, ElectionLoses, StopAll, ElectionReports, Retry,
       RetryBegins, RetryStarts, RetryForgets, Win, Started, Lose, Announce, Degrade,
       Enter
  <2> QED
    BY <2>2, <2>3, <2>4 DEF Fresh
<1>6. ReportedWhileFresh'
  <2> SUFFICES ASSUME Fresh' PROVE reports'[Me]
    BY DEF ReportedWhileFresh
  <2>1. Fresh /\ NoFault /\ informer /\ reports[Me]
    BY <1>5, FreshMeans
  <2> QED
    BY <1>1, <2>1 DEF Fresh, Leads, UInv, InformerInTerm, TypeOK, ManagerTypeOK,
       LeadershipTypeOK, ManagerNext, ElectionWins, StartAll, StartAllClears,
       StartAllStarts, ManagerTries, OtherManagerFails, ElectionLoses, StopAll,
       ElectionReports, Retry, RetryBegins, RetryStarts, RetryForgets, Win, Started,
       Lose, Announce, Degrade, Enter, Tell, Fault
<1>7. LastEventTells'
  BY DEF UInv, LastEventTells
<1>8. ASSUME Fresh'
      PROVE  UNCHANGED <<entry, kind>> /\ (UNCHANGED cluster \/ ManagerStarts)
  BY <1>1, <1>5, <1>8, FreshMeans DEF ManagerNext, ElectionWins, StartAll,
     StartAllClears, StartAllStarts, ManagerTries, OtherManagerFails, ElectionLoses,
     StopAll, ElectionReports, Retry, RetryBegins, RetryStarts, RetryForgets, Fault,
     TypeOK, ManagerTypeOK
<1>9. Applying'
  <2> SUFFICES ASSUME Fresh', queue = <<>>
               PROVE  IF crd = 0 THEN Removing' ELSE Adding'
    BY DEF Applying
  <2>1. Fresh /\ UNCHANGED <<entry, kind>> /\ (UNCHANGED cluster \/ ManagerStarts)
    BY <1>5, <1>8
  <2>2. CASE crd = 0
    BY <2>1, <2>2 DEF UInv, Applying, Removing
  <2>3. CASE crd # 0
    <3>1. Adding
      BY <2>1, <2>3 DEF UInv, Applying
    <3>2. Synced => Synced'
      BY <1>1, <2>1, <2>3
      DEF Synced, Wanted, ManagerStarts, Starts, Given, TypeOK, ManagerTypeOK
    <3> QED
      BY <2>1, <2>3, <3>1, <3>2 DEF Adding
  <2> QED
    BY <2>2, <2>3
<1> QED
  BY <1>3, <1>4, <1>6, <1>7, <1>9 DEF UInv

LEMMA APIKeepsU ==
    ASSUME IInv, UInv, CRDWritten \/ CRDDeleted
    PROVE  UInv'
<1>1. TypeOK /\ TypeOK'
  BY APITypes DEF IInv
<1>2. UNCHANGED <<manager, informer, syncing>> /\ Disturb(term[Me] = "starting")
  BY DEF CRDWritten, CRDDeleted, Change
<1>3. /\ crd' = 0 => CRDDeleted
      /\ crd' # 0 => CRDWritten
  BY <1>1 DEF CRDWritten, CRDDeleted, Change, TypeOK
<1>4. \E event \in {"add", "update", "delete"} :
        /\ event = "delete" <=> crd' = 0
        /\ queue' = IF informer THEN Append(queue, event) ELSE queue
  BY <1>3 DEF CRDWritten, CRDDeleted, Change
<1>5. InformerInTerm'
  BY <1>2 DEF UInv, InformerInTerm
<1>6. before' # NotYet => ~disturbed' /\ before' = before
  BY <1>1, <1>2 DEF Disturb, TypeOK
<1>7. BeforeIsPast'
  BY <1>2, <1>6 DEF UInv, BeforeIsPast
<1>8. Fresh' => Fresh /\ informer
  <2> SUFFICES ASSUME Fresh' PROVE Fresh /\ informer
    OBVIOUS
  <2>1. before' # NotYet
    BY <1>1, <1>2 DEF Fresh, NotYet, TypeOK, ManagerTypeOK
  <2> QED
    BY <1>2, <1>6, <2>1 DEF UInv, BeforeIsPast, Fresh, Leads
<1>9. ReportedWhileFresh'
  BY <1>2, <1>8 DEF UInv, ReportedWhileFresh
<1>10. LastEventTells'
  <2>1. ASSUME ~informer PROVE queue' = <<>>
    BY <1>4, <2>1, <1>1 DEF TypeOK
  <2>2. ASSUME informer
        PROVE  queue'[Len(queue')] = "delete" <=> crd' = 0
    BY <1>1, <1>4, <2>2 DEF TypeOK
  <2> QED
    BY <2>1, <2>2 DEF LastEventTells
<1>11. Applying'
  BY <1>1, <1>4, <1>8 DEF Applying, TypeOK
<1> QED
  BY <1>5, <1>7, <1>9, <1>10, <1>11 DEF UInv

LEMMA WatcherStartKeepsU ==
    ASSUME IInv, UInv, WatcherStart
    PROVE  UInv'
<1>1. TypeOK /\ TypeOK'
  BY WatcherTypes DEF IInv
<1>2. before = NotYet
  BY DEF WatcherStart, UInv, InformerInTerm, BeforeIsPast
<1>3. before' = NotYet
  BY <1>2 DEF WatcherStart, Disturb
<1>4. ~Fresh'
  BY <1>1, <1>3 DEF Fresh, NotYet, TypeOK, ManagerTypeOK
<1>5. InformerInTerm' /\ BeforeIsPast'
  BY <1>3 DEF WatcherStart, InformerInTerm, BeforeIsPast, NotYet
<1>6. LastEventTells'
  BY DEF LastEventTells, WatcherStart
<1> QED
  BY <1>4, <1>5, <1>6 DEF UInv, ReportedWhileFresh, Applying

LEMMA InitialListKeepsU ==
    ASSUME IInv, UInv, InitialList
    PROVE  UInv'
<1>1. TypeOK /\ TypeOK'
  BY WatcherTypes DEF IInv
<1>2. /\ UNCHANGED <<kind, entry, cluster, crd, invalid, informer, queue, held, disturbed>>
      /\ term[Me] = "starting" /\ election = "list" /\ At("initial", "idle")
  BY <1>1 DEF InitialList, IInv, StartsAsWinner, InitialInSync
<1>3. InformerInTerm' /\ LastEventTells'
  BY <1>1, <1>2 DEF UInv, InformerInTerm, LastEventTells, InitialList, Started, Enter,
     TypeOK, ManagerTypeOK, LeadershipTypeOK
<1>4. CASE crd # 0 /\ reports[Me] /\ NoFault /\ Goto("initial", "load") /\ Begins
           /\ UNCHANGED leadership
  <2>1. BeforeIsPast' /\ ReportedWhileFresh'
    BY <1>1, <1>2, <1>4 DEF UInv, BeforeIsPast, InformerInTerm, ReportedWhileFresh,
       Begins, TypeOK, ManagerTypeOK
  <2>2. ASSUME Fresh' PROVE ~disturbed
    <3>1. before' # NotYet
      BY <1>1, <2>2 DEF Fresh, NotYet, TypeOK, ManagerTypeOK
    <3> QED
      BY <1>2, <2>1, <3>1 DEF BeforeIsPast
  <2>3. ASSUME ~disturbed PROVE Adding'
    <3>1. sync'["initial"] = "load" /\ sync'["informer"] = sync["informer"]
      BY <1>1, <1>4 DEF TypeOK
    <3>2. /\ sync["informer"] \notin RefLabels
          /\ sync["informer"] \in {"get", "stop", "remove", "add"} => held["informer"] = crd
      BY <1>2, <2>3 DEF IInv, NoRemoval, OneVersion
    <3> QED
      BY <1>2, <3>1, <3>2 DEF Adding, RefLabels
  <2>4. Applying'
    BY <1>2, <1>4, <2>2, <2>3 DEF Applying
  <2> QED
    BY <1>3, <2>1, <2>4 DEF UInv
<1>5. CASE (crd = 0 \/ ~reports[Me]) /\ Started(Me) /\ UNCHANGED <<faults, sync, before>>
  <2>1. BeforeIsPast'
    BY <1>2, <1>5 DEF UInv, BeforeIsPast
  <2>2. Fresh' => Fresh
    BY <1>2, <1>5 DEF Fresh, Leads
  <2>3. UNCHANGED reports
    BY <1>5 DEF Started
  <2>4. ReportedWhileFresh' /\ Applying'
    BY <1>2, <1>5, <2>2, <2>3
    DEF UInv, ReportedWhileFresh, Applying, Removing, Adding, Synced, Wanted
  <2> QED
    BY <1>3, <2>1, <2>4 DEF UInv
<1>6. CASE Fault /\ Started(Me) /\ UNCHANGED <<sync, before>>
  <2>1. BeforeIsPast'
    BY <1>1, <1>2, <1>6 DEF UInv, BeforeIsPast, Fault, TypeOK, ManagerTypeOK
  <2>2. ~Fresh'
    BY <1>1, <1>6 DEF Fresh, Fault, UInv, BeforeIsPast, NotYet, TypeOK, ManagerTypeOK
  <2> QED
    BY <1>3, <2>1, <2>2 DEF UInv, ReportedWhileFresh, Applying
<1> QED
  BY <1>4, <1>5, <1>6 DEF InitialList

LEMMA WatcherEndsKeepU ==
    ASSUME IInv, UInv, InitialDone \/ WatcherStop
    PROVE  UInv'
<1>1. TypeOK /\ TypeOK'
  BY WatcherTypes DEF IInv
<1>2. CASE InitialDone
  <2>1. /\ UNCHANGED <<kind, entry, cluster, faults, api, informer, queue, syncing, reports>>
        /\ Fresh' => Fresh
    BY <1>2, <1>1 DEF InitialDone, Started, Fresh, Leads
  <2>2. InformerInTerm'
    BY <1>1, <1>2 DEF InitialDone, Started, Enter, UInv, InformerInTerm, TypeOK,
       ManagerTypeOK, LeadershipTypeOK
  <2> QED
    BY <2>1, <2>2 DEF UInv, BeforeIsPast, ReportedWhileFresh, LastEventTells, Applying,
       Removing, Adding, Synced, Wanted
<1>3. CASE WatcherStop
  <2>1. ~Fresh'
    BY <1>1, <1>3 DEF WatcherStop, Fresh, NotYet, TypeOK, ManagerTypeOK
  <2> QED
    BY <1>3, <2>1 DEF WatcherStop, UInv, InformerInTerm, BeforeIsPast, ReportedWhileFresh,
       LastEventTells, Applying
<1> QED
  BY <1>2, <1>3

\* A handler begins to remove what the last event says is gone, or to add what
\* it says is there; an initial sync beside it is about the same version.
LEMMA HandleKeepsU ==
    ASSUME IInv, UInv, Handle
    PROVE  UInv'
<1>1. TypeOK /\ TypeOK'
  BY WatcherTypes DEF IInv
<1>2. /\ UNCHANGED <<manager, crd, invalid, disturbed, informer, held>>
      /\ queue # <<>> /\ queue' = Tail(queue) /\ At("informer", "idle") /\ informer
  BY <1>1 DEF Handle, TypeOK
<1>3. LastEventTells'
  <2> SUFFICES ASSUME queue' # <<>>
               PROVE  queue'[Len(queue')] = queue[Len(queue)]
    BY <1>2 DEF UInv, LastEventTells
  <2> QED
    BY <1>1, <1>2 DEF TypeOK
<1>4. InformerInTerm'
  BY <1>2 DEF UInv, InformerInTerm
<1>5. CASE ~reports[Me]
  <2>1. ~Fresh'
    BY <1>2, <1>5 DEF Handle, UInv, ReportedWhileFresh, Fresh, Leads
  <2> QED
    BY <1>2, <1>3, <1>4, <1>5, <2>1
    DEF Handle, UInv, BeforeIsPast, ReportedWhileFresh, Applying
<1>6. CASE reports[Me]
  <2>1. Begins /\ Goto("informer", IF Head(queue) = "delete" THEN "findRef" ELSE "load")
    BY <1>6 DEF Handle
  <2>2. BeforeIsPast' /\ ReportedWhileFresh'
    BY <1>1, <1>2, <1>6, <2>1 DEF UInv, BeforeIsPast, ReportedWhileFresh, Begins, TypeOK,
       ManagerTypeOK
  <2>3. ASSUME Fresh', queue' = <<>> PROVE IF crd = 0 THEN Removing' ELSE Adding'
    <3>1. ~disturbed
      BY <1>1, <1>2, <2>2, <2>3 DEF BeforeIsPast, Fresh, NotYet, TypeOK, ManagerTypeOK
    <3>2. Len(queue) = 1 /\ Head(queue) = queue[Len(queue)]
      <4>1. queue \in Seq({"add", "update", "delete"}) /\ Len(queue) # 0
        BY <1>1, <1>2 DEF TypeOK
      <4>2. Len(Tail(queue)) = Len(queue) - 1
        BY <4>1
      <4>3. Tail(queue) = <<>> /\ Len(<<>>) = 0
        BY <1>2, <2>3
      <4>4. Len(queue) - 1 = 0
        BY <4>2, <4>3, Zenon
      <4>5. Len(queue) \in Nat /\ Head(queue) = queue[1]
        BY <4>1
      <4>6. Len(queue) = 1
        BY <4>4, <4>5
      <4> QED
        BY <4>5, <4>6
    <3>3. Head(queue) = "delete" <=> crd = 0
      BY <1>2, <3>2 DEF UInv, LastEventTells
    <3>4. sync'["informer"] = (IF crd = 0 THEN "findRef" ELSE "load")
          /\ sync'["initial"] = sync["initial"]
      BY <1>1, <2>1, <3>3 DEF TypeOK
    <3>5. CASE crd = 0
      <4>1. At("initial", "idle")
        <5>1. queue[1] = "delete" /\ 1 \in 1..Len(queue)
          BY <3>2, <3>3, <3>5
        <5>2. election \notin {"list", "sync"}
          BY <3>1, <5>1 DEF IInv, NoRemoval
        <5> QED
          BY <5>2 DEF IInv, InitialInSync
      <4> QED
        BY <3>4, <3>5, <4>1 DEF Removing, RefLabels
    <3>6. CASE crd # 0
      <4>1. /\ sync["initial"] \notin RefLabels
            /\ sync["initial"] \in {"get", "stop", "remove", "add"} => held["initial"] = crd
        BY <3>1 DEF IInv, InitialInSync, OneVersion
      <4> QED
        BY <1>2, <3>4, <3>6, <4>1 DEF Adding, RefLabels
    <3> QED
      BY <3>5, <3>6
  <2>4. Applying'
    BY <1>2, <2>3 DEF Applying
  <2> QED
    BY <1>3, <1>4, <2>2, <2>4 DEF UInv
<1> QED
  BY <1>5, <1>6

\* A step of one syncer while the resource exists, the other being left alone.
LEMMA AddingKept ==
    ASSUME NEW a \in Syncers, Adding, UNCHANGED crd,
           \A b \in Syncers \ {a} : sync'[b] = sync[b] /\ held'[b] = held[b],
           sync'[a] \notin RefLabels,
           sync'[a] \in {"get", "stop", "remove", "add"} => held'[a] = crd,
           \/ Synced'
           \/ sync'[a] \in {"load", "get", "stop", "remove"}
           \/ sync'[a] = "add" /\ entry' = 0
           \/ /\ UNCHANGED entry
              /\ Synced => Synced'
              /\ sync[a] \in {"add", "find", "start"}
              /\ sync[a] = "add" => entry # 0
    PROVE  Adding'
<1>1. \A b \in Syncers :
        /\ sync'[b] \notin RefLabels
        /\ sync'[b] \in {"get", "stop", "remove", "add"} => held'[b] = crd'
  BY DEF Adding
<1>2. \/ Synced'
      \/ \E b \in Syncers : \/ sync'[b] \in {"load", "get", "stop", "remove"}
                            \/ sync'[b] = "add" /\ entry' = 0
  <2>1. CASE \/ Synced'
             \/ sync'[a] \in {"load", "get", "stop", "remove"}
             \/ sync'[a] = "add" /\ entry' = 0
    BY <2>1
  <2>2. CASE /\ UNCHANGED entry
             /\ Synced => Synced'
             /\ sync[a] \in {"add", "find", "start"}
             /\ sync[a] = "add" => entry # 0
    <3>1. CASE Synced
      BY <2>2, <3>1
    <3>2. CASE ~Synced
      <4>1. PICK b \in Syncers : \/ sync[b] \in {"load", "get", "stop", "remove"}
                                 \/ sync[b] = "add" /\ entry = 0
        BY <3>2 DEF Adding
      <4>2. b # a
        BY <2>2, <4>1
      <4> QED
        BY <2>2, <4>1, <4>2
    <3> QED
      BY <3>1, <3>2
  <2> QED
    BY <2>1, <2>2
<1> QED
  BY <1>1, <1>2 DEF Adding

\* A step of a handler or of an initial sync that nothing has failed since the
\* beginning of: the version of the resource gets to run, or the workload of
\* one that has been deleted to be removed.
LEMMA FreshSyncs ==
    ASSUME IInv, UInv, NEW a \in Syncers, Sync(a), Fresh, NoFault, queue = <<>>
    PROVE  IF crd = 0 THEN Removing' ELSE Adding'
<1>1. /\ TypeOK /\ TypeOK'
      /\ UNCHANGED <<leadership, kind, election, api, queue>>
      /\ \A b \in Syncers \ {a} : sync'[b] = sync[b] /\ held'[b] = held[b]
  BY SyncFrame DEF IInv
<1>2. ~disturbed /\ reports[Me] /\ Startable /\ ~Fault
  BY <1>1, FreshMeans DEF Startable, Fault, TypeOK, ManagerTypeOK
<1>3. sync[a] # "idle"
  BY DEF Sync, Load, Get, StopFound, Remove, Add, Find, StartFound
<1>4. CASE crd = 0
  <2>1. Removing
    BY <1>4 DEF UInv, Applying
  <2>2. sync[a] \in RefLabels
    BY <1>3, <2>1 DEF Removing
  <2>3. \/ sync'[a] \in RefLabels /\ UNCHANGED entry
        \/ sync'[a] = "idle" /\ entry' = 0
    BY <1>1, <1>2, <2>2 DEF RefLabels, Sync, Load, Get, StopFound, Remove, Add, Find,
       StartFound, TypeOK
  <2> QED
    BY <1>1, <1>4, <2>1, <2>2, <2>3 DEF Removing
<1>5. CASE crd # 0
  <2> SUFFICES Adding'
    BY <1>5
  <2>1. Adding
    BY <1>5 DEF UInv, Applying
  <2>2. sync'[a] \notin RefLabels
    BY <2>1, SyncFrame DEF Adding
  <2>3. CASE Load(a)
    <3>1. sync'[a] = "get" /\ held'[a] = crd
      BY <1>1, <1>2, <1>5, <2>3 DEF Load, TypeOK
    <3> QED
      BY <1>1, <2>1, <2>2, <3>1, AddingKept
  <2>4. CASE Get(a)
    <3>1. /\ sync[a] = "get" /\ held'[a] = crd
          /\ sync'[a] = "stop" \/ (sync'[a] = "add" /\ entry' = 0)
      BY <1>1, <2>1, <2>4 DEF Get, Adding, RefLabels, TypeOK
    <3> QED
      BY <1>1, <2>1, <2>2, <3>1, AddingKept
  <2>5. CASE StopFound(a)
    <3>1. sync[a] = "stop" /\ sync'[a] = "remove" /\ held'[a] = crd
      BY <1>1, <2>1, <2>5 DEF StopFound, Adding, RefLabels, TypeOK
    <3> QED
      BY <1>1, <2>1, <2>2, <3>1, AddingKept
  <2>6. CASE Remove(a)
    <3>1. sync[a] = "remove" /\ sync'[a] = "add" /\ entry' = 0 /\ held'[a] = crd
      BY <1>1, <1>2, <2>1, <2>6 DEF Remove, Adding, RefLabels, TypeOK
    <3> QED
      BY <1>1, <2>1, <2>2, <3>1, AddingKept
  <2>7. CASE Add(a)
    <3>1. sync[a] = "add" /\ sync'[a] \in {"idle", "find"} /\ held[a] = crd
      BY <1>1, <2>1, <2>7 DEF Add, Adding, TypeOK
    <3>2. CASE entry # 0
      <4>1. UNCHANGED <<entry, cluster>>
        BY <2>7, <3>2 DEF Add
      <4> QED
        BY <1>1, <2>1, <2>2, <3>1, <3>2, <4>1, AddingKept DEF Synced, Wanted
    <3>3. CASE entry = 0 /\ held[a] \in invalid
      <4>1. Synced'
        BY <1>1, <2>7, <3>1, <3>3 DEF Add, Synced, Wanted
      <4> QED
        BY <1>1, <2>1, <2>2, <3>1, <4>1, AddingKept
    <3>4. CASE entry = 0 /\ held[a] \notin invalid
      <4>1. entry' = crd /\ running' = TRUE /\ spec' = Given(crd)
        BY <1>2, <2>7, <3>1, <3>4 DEF Add, Starts
      <4>2. running /\ kind # "cronjob" => spec = crd
        BY <1>2, <3>1, <3>4 DEF IInv, RunsKnownVersion
      <4>3. kind # "cronjob" => Given(crd) = crd
        BY <1>1, <4>2 DEF Given, TypeOK, ManagerTypeOK
      <4>4. Synced'
        BY <1>1, <3>1, <3>4, <4>1, <4>3 DEF Synced, Wanted
      <4> QED
        BY <1>1, <2>1, <2>2, <3>1, <4>4, AddingKept
    <3> QED
      BY <3>2, <3>3, <3>4
  <2>8. CASE Find(a)
    <3>1. sync[a] = "find" /\ sync'[a] \in {"idle", "start"} /\ UNCHANGED <<entry, cluster>>
      BY <1>1, <2>8 DEF Find, TypeOK
    <3> QED
      BY <1>1, <2>1, <2>2, <3>1, AddingKept DEF Synced, Wanted
  <2>9. CASE StartFound(a)
    <3>1. /\ sync[a] = "start" /\ sync'[a] = "idle" /\ UNCHANGED entry
          /\ running' = TRUE /\ spec' = Given(held[a])
      BY <1>1, <1>2, <2>9 DEF StartFound, Starts, TypeOK
    <3>2. ASSUME Synced, Wanted # 0 PROVE Synced'
      <4>1. held[a] = crd /\ Wanted = crd
        BY <1>2, <3>1, <3>2 DEF IInv, StartsWhatIsEntered, Synced, Wanted
      <4>2. kind # "cronjob" => Given(crd) = crd
        BY <1>1, <3>2, <4>1 DEF Given, Synced, TypeOK, ManagerTypeOK
      <4> QED
        BY <1>1, <3>1, <3>2, <4>1, <4>2 DEF Synced, Wanted
    <3>3. ASSUME Synced, Wanted = 0 PROVE Synced'
      BY <1>1, <3>1, <3>3 DEF Synced, Wanted
    <3> QED
      BY <1>1, <2>1, <2>2, <3>1, <3>2, <3>3, AddingKept
  <2> QED
    BY <1>5, <2>3, <2>4, <2>5, <2>6, <2>7, <2>8, <2>9 DEF Sync
<1> QED
  BY <1>4, <1>5

LEMMA SyncKeepsU ==
    ASSUME IInv, UInv, NEW a \in Syncers, Sync(a)
    PROVE  UInv'
<1>1. /\ TypeOK /\ TypeOK'
      /\ UNCHANGED <<leadership, election, api, informer, queue>>
  BY SyncFrame DEF IInv
<1>2. NoFault \/ Fault
  BY DEF Sync, Load, Get, StopFound, Remove, Add, Find, StartFound
<1>3. InformerInTerm' /\ LastEventTells'
  BY <1>1 DEF UInv, InformerInTerm, LastEventTells
<1>4. BeforeIsPast'
  BY <1>1, <1>2 DEF UInv, BeforeIsPast, Fault, TypeOK, ManagerTypeOK
<1>5. Fresh' => Fresh /\ NoFault
  BY <1>1, <1>2 DEF UInv, BeforeIsPast, Fresh, Leads, Fault, NotYet, TypeOK, ManagerTypeOK
<1>6. ReportedWhileFresh'
  BY <1>1, <1>5 DEF UInv, ReportedWhileFresh
<1>7. Applying'
  BY <1>1, <1>5, FreshSyncs DEF Applying
<1> QED
  BY <1>3, <1>4, <1>6, <1>7 DEF UInv

LEMMA NextKeepsU == IInv /\ UInv /\ [Next]_vars => UInv'
<1> SUFFICES ASSUME IInv, UInv, [Next]_vars PROVE UInv'
  OBVIOUS
<1>1. CASE ManagerNext /\ UNCHANGED watching
  BY <1>1, ManagerKeepsU
<1>2. CASE CRDWritten \/ CRDDeleted
  BY <1>2, APIKeepsU
<1>3. CASE WatcherStart \/ InitialList \/ InitialDone \/ WatcherStop \/ Handle
  BY <1>3, WatcherStartKeepsU, InitialListKeepsU, WatcherEndsKeepU, HandleKeepsU
<1>4. ASSUME NEW a \in Syncers, Sync(a) PROVE UInv'
  BY <1>4, SyncKeepsU
<1>5. CASE UNCHANGED vars
  BY <1>5 DEF vars, UInv, InformerInTerm, BeforeIsPast, ReportedWhileFresh, LastEventTells,
     Applying, Fresh, Leads, Removing, Adding, Synced, Wanted
<1> QED
  BY <1>1, <1>2, <1>3, <1>4, <1>5 DEF Next

LEMMA UInvariant == Spec => []UInv
  BY Invariant, InitUInv, NextKeepsU, PTL DEF Spec

-----------------------------------------------------------------------------
(* The theorems                                                            *)

\* The map, the cluster and the watcher have their types: an informer that has
\* been stopped delivers nothing.
THEOREM TypeCorrect == Spec => []TypeOK
<1>1. IInv => TypeOK
  BY DEF IInv
<1> QED
  BY <1>1, Invariant, PTL

\* Nothing runs that StopAll would not find in the map, whatever the handlers
\* and the initial sync do to each other (crd_watcher.go,
\* startWorkloadByTypeName without a lock).
THEOREM NothingRunsUnentered == Spec => []RunningIsEntered
<1>1. IInv => RunningIsEntered
  BY DEF IInv, RunningIsEntered, RunningIsKnown, Idle
<1> QED
  BY <1>1, Invariant, PTL

\* What runs has the configuration of the workload that is entered.
THEOREM NoOldVersionRuns == Spec => []RunsWhatIsEntered
<1>1. IInv => RunsWhatIsEntered
  BY DEF IInv, RunsWhatIsEntered, RunsKnownVersion
<1> QED
  BY <1>1, Invariant, PTL

\* A leader whose handlers are done is up to date, whatever has failed, been
\* skipped, retried by one goroutine or by several, or met an initial sync,
\* before the latest of them began (crd_watcher.go, OnCRDAdd, OnCRDUpdate and
\* OnCRDDelete; manager.go, retryFailedWorkloads).
THEOREM AppliedWhenQuiet == Spec => []UpToDate
<1>1. IInv /\ UInv => UpToDate
  BY DEF UInv, Applying, Fresh, Leads, Removing, Adding, UpToDate, Idle, RefLabels, Synced,
     Wanted, IInv, TypeOK, ManagerTypeOK
<1> QED
  BY <1>1, Invariant, UInvariant, PTL

=============================================================================
