-------------------------- MODULE WorkloadsProofs --------------------------
(***************************************************************************)
(* Proofs about Workloads, for any controllers, kinds, retries and faults: *)
(* its variables have their types; a workload that is active, that not     *)
(* only a retry has started, and that has not been stopped has its health  *)
(* monitor; Stop leaves nothing running that nobody knows of; and the      *)
(* replicas of a stateful set have their headless service.                 *)
(***************************************************************************)
EXTENDS Workloads, TLAPS

\* Whoever can make a workload active again, the watcher of its pod included,
\* is not the last of its goroutines.
Attended(c) ==
    ~closed[c] /\ ((active[c] /\ ~orphaned[c]) \/ watcher[c] # "none") =>
        updater[c] # "none" \/ term[c] = "stopping"

Stopping == {"close", "off", "suspend", "wait"}

\* The election does not finish a Stop without having closed stopCh.
ClosedByStop(c) ==
    c \in Watchful /\ call[c]["election"] \in Stopping \ {"close"} => closed[c]

\* Stop is what ends a term.
StopEndsTerm(c) == term[c] = "stopping" => call[c]["election"] \in Stopping

\* A stateful set is looked up and written after its service only.
ServiceFirst ==
    kind = "persistent" =>
        /\ object = "on" => headless
        /\ \A c \in Controllers, who \in Callers :
               call[c][who] \in {"get", "create", "update"} => headless

Ordered == \A c \in Controllers : ClosedByStop(c) /\ StopEndsTerm(c)

AllAttended == \A c \in Watchful : Attended(c)

\* What runs is active somewhere, or it is a pod that a goroutine created
\* while the election was stopping the workload, whose Stop will delete it.
OnTheBooks ==
    object = "on" /\ faults = 0 =>
        \E c \in Controllers :
            \/ active[c]
            \/ kind = "process" /\ call[c]["election"] \in Stopping

IInv == TypeOK /\ Ordered /\ AllAttended /\ ServiceFirst /\ OnTheBooks

USE KindsAssumption, WatchfulAssumption, RetriersAssumption, MaxFaultsAssumption
    DEF At, Goto, Become, SetActive, SetFailing, NoFault, Callers, leadership,
        beliefs, goroutines, cluster, counts

-----------------------------------------------------------------------------
(* Types                                                                   *)

\* The election moves terms and reports, and nothing else.
LEMMA LeadershipTypes ==
    ASSUME LeadershipTypeOK, NEW c \in Controllers,
           \/ Announce(c) \/ Win(c) \/ Started(c) \/ Degrade(c)
           \/ Lose(c) \/ Stopped(c) \/ Reboot(c) \/ UNCHANGED leadership
    PROVE  LeadershipTypeOK'
  BY DEF LeadershipTypeOK, Terms, Announce, Win, Started, Degrade, Lose,
         Stopped, Reboot, Enter, Tell

\* A caller goes on to a label, and Start and Stop return.
LEMMA CallTypes ==
    ASSUME TypeOK, NEW c \in Controllers, NEW who \in Callers,
           \/ \E label \in Labels : Goto(c, who, label) /\ UNCHANGED leadership
           \/ StartReturns(c, who)
           \/ StopReturns(c, who)
    PROVE  LeadershipTypeOK' /\ call' \in [Controllers -> [Callers -> Labels]]
<1> USE DEF TypeOK
<1>1. LeadershipTypeOK'
  BY LeadershipTypes DEF StartReturns, StopReturns
<1>2. \E label \in Labels : Goto(c, who, label)
  <2>1. CASE StartReturns(c, who)
    <3>1. "idle" \in Labels /\ "forget" \in Labels
      BY DEF Labels
    <3> QED
      BY <2>1, <3>1 DEF StartReturns
  <2>2. CASE StopReturns(c, who)
    <3>1. "idle" \in Labels /\ StartLabel \in Labels
      BY DEF Labels, StartLabel
    <3> QED
      BY <2>2, <3>1 DEF StopReturns
  <2> QED
    BY <2>1, <2>2
<1>3. PICK label \in Labels : Goto(c, who, label)
  BY <1>2
<1>4. call' \in [Controllers -> [Callers -> Labels]]
  BY <1>3
<1> QED
  BY <1>1, <1>4

\* The bound on faults and restarts holds.
LEMMA FaultTypes ==
    ASSUME TypeOK, Fault \/ NoFault
    PROVE  faults' \in 0..MaxFaults /\ restarts' \in 0..MaxFaults
  BY DEF TypeOK, Fault

\* Start leaves goroutines behind where they may be.
LEMMA SpawnTypes ==
    ASSUME TypeOK, NEW c \in Controllers, NEW who \in Callers,
           Spawn(c, who) \/ UNCHANGED <<watcher, updater, orphaned>>
    PROVE  /\ watcher' \in [Controllers -> WatcherPC]
           /\ updater' \in [Controllers -> UpdaterPC]
           /\ orphaned' \in [Controllers -> BOOLEAN]
<1> USE DEF TypeOK
<1>1. watcher' \in [Controllers -> WatcherPC]
  BY DEF Spawn, WatcherPC
<1>2. updater' \in [Controllers -> UpdaterPC]
  BY DEF Spawn, UpdaterPC
<1>3. orphaned' \in [Controllers -> BOOLEAN]
  <2>1. ASSUME NEW b \in BOOLEAN
        PROVE  [orphaned EXCEPT ![c] = b] \in [Controllers -> BOOLEAN]
    OBVIOUS
  <2>2. (orphaned[c] \/ updater[c] = "none") \in BOOLEAN
    OBVIOUS
  <2>3. \/ orphaned' = [orphaned EXCEPT ![c] = orphaned[c] \/ updater[c] = "none"]
        \/ orphaned' = [orphaned EXCEPT ![c] = FALSE]
        \/ orphaned' = orphaned
    BY DEF Spawn
  <2> QED
    BY <2>1, <2>2, <2>3, Zenon
<1> QED
  BY <1>1, <1>2, <1>3

\* A pod that disappears.
LEMMA VanishTypes ==
    ASSUME TypeOK, Vanish
    PROVE  event' \in [Controllers -> BOOLEAN] /\ marked' \in BOOLEAN
  BY DEF TypeOK, Vanish

\* A manager's Start begins.
LEMMA StartManagerTypes ==
    ASSUME TypeOK, NEW c \in Controllers, NEW who \in Callers, StartManager(c, who)
    PROVE  /\ call' \in [Controllers -> [Callers -> Labels]]
           /\ faults' \in 0..MaxFaults /\ restarts' \in 0..MaxFaults
<1>1. StartLabel \in Labels /\ "enter" \in Labels
  BY DEF StartLabel, Labels
<1>2. call' \in [Controllers -> [Callers -> Labels]]
  <2>1. ASSUME NEW label \in Labels
        PROVE  [call EXCEPT ![c][who] = label] \in [Controllers -> [Callers -> Labels]]
    BY DEF TypeOK
  <2>2. \/ call' = [call EXCEPT ![c][who] = StartLabel]
        \/ call' = [call EXCEPT ![c][who] = "enter"]
    BY DEF StartManager
  <2> QED
    BY <1>1, <2>1, <2>2
<1> QED
  BY <1>2, FaultTypes DEF StartManager

\* The election, monitorWorkloads, the retries and a crash.
LEMMA CallerTypes ==
    ASSUME TypeOK, NEW c \in Controllers, CallerNext(c)
    PROVE  TypeOK'
<1> USE DEF TypeOK, Objects
<1>1. CASE ElectionStart(c)
  <2>1. LeadershipTypeOK'
    BY <1>1, LeadershipTypes DEF ElectionStart
  <2>2. /\ call' \in [Controllers -> [Callers -> Labels]]
        /\ faults' \in 0..MaxFaults /\ restarts' \in 0..MaxFaults
    BY <1>1, StartManagerTypes DEF ElectionStart
  <2> QED
    BY <1>1, <2>1, <2>2 DEF ElectionStart
<1>2. CASE ElectionStop(c)
  <2>1. LeadershipTypeOK' /\ faults' \in 0..MaxFaults /\ restarts' \in 0..MaxFaults
    BY <1>2, LeadershipTypes, FaultTypes DEF ElectionStop
  <2> QED
    BY <1>2, <2>1 DEF ElectionStop, Labels
<1>3. CASE ElectionReport(c)
  <2>1. LeadershipTypeOK' /\ faults' \in 0..MaxFaults /\ restarts' \in 0..MaxFaults
    BY <1>3, LeadershipTypes, FaultTypes DEF ElectionReport
  <2> QED
    BY <1>3, <2>1 DEF ElectionReport
<1>4. CASE MonitorTick(c)
  <2>1. LeadershipTypeOK'
    BY <1>4, LeadershipTypes DEF MonitorTick
  <2>2. restarts' \in 0..MaxFaults
    BY <1>4 DEF MonitorTick
  <2>3. call' \in [Controllers -> [Callers -> Labels]]
    BY <1>4 DEF MonitorTick, Labels
  <2> QED
    BY <1>4, <2>1, <2>2, <2>3 DEF MonitorTick
<1>5. CASE Crash(c)
  <2>1. LeadershipTypeOK' /\ faults' \in 0..MaxFaults /\ restarts' \in 0..MaxFaults
    BY <1>5, LeadershipTypes, FaultTypes DEF Crash
  <2> QED
    BY <1>5, <2>1 DEF Crash, StartLabel, Labels, WatcherPC, UpdaterPC
<1>6. ASSUME NEW who \in Callers, EnterFailed(c, who)
      PROVE  TypeOK'
  <2>1. LeadershipTypeOK'
    BY <1>6, LeadershipTypes DEF EnterFailed
  <2>2. failed' \in [Controllers -> BOOLEAN]
    BY <1>6 DEF EnterFailed
  <2> QED
    BY <1>6, <2>1, <2>2 DEF EnterFailed, Labels
<1>7. ASSUME NEW r \in Retriers, RetryStart(c, r)
      PROVE  TypeOK'
  <2>1. LeadershipTypeOK'
    BY <1>7, LeadershipTypes DEF RetryStart
  <2>2. /\ call' \in [Controllers -> [Callers -> Labels]]
        /\ faults' \in 0..MaxFaults /\ restarts' \in 0..MaxFaults
    BY <1>7, StartManagerTypes DEF RetryStart
  <2> QED
    BY <1>7, <2>1, <2>2 DEF RetryStart
<1>8. ASSUME NEW r \in Retriers, ForgetFailed(c, r)
      PROVE  TypeOK'
  <2>1. LeadershipTypeOK'
    BY <1>8, LeadershipTypes DEF ForgetFailed
  <2> QED
    BY <1>8, <2>1 DEF ForgetFailed, Labels
<1> QED
  BY <1>1, <1>2, <1>3, <1>4, <1>5, <1>6, <1>7, <1>8 DEF CallerNext

\* Stop closes stopCh.
LEMMA CloseTypes ==
    ASSUME TypeOK, NEW c \in Controllers, NEW who \in Callers, Close(c, who)
    PROVE  TypeOK'
<1> USE DEF TypeOK, Objects
<1>1. LeadershipTypeOK'
  BY LeadershipTypes DEF Close
<1>2. marked' \in BOOLEAN
  BY DEF Close
<1>3. closed' \in [Controllers -> BOOLEAN]
  BY DEF Close
<1>4. watcher' \in [Controllers -> WatcherPC]
  BY DEF Close, WatcherPC, PodRequests
<1> QED
  BY <1>1, <1>2, <1>3, <1>4 DEF Close, Labels

\* The answer to a request of createOrUpdatePod, and one that does not come.
LEMMA AnswerTypes ==
    ASSUME TypeOK, kind = "process", NEW c \in Controllers, NEW at, NEW to,
           Answer(c, at, to) \/ Lost(c, at)
    PROVE  /\ object' \in Objects
           /\ marked' \in BOOLEAN
           /\ event' \in [Controllers -> BOOLEAN]
<1> USE DEF TypeOK, Objects
<1>1. ASSUME DeletePod
      PROVE  /\ object' \in Objects
             /\ marked' \in BOOLEAN
             /\ event' \in [Controllers -> BOOLEAN]
  <2>1. CASE Vanish
    BY <2>1, VanishTypes DEF Vanish
  <2>2. CASE ~Vanish
    BY <1>1, <2>2 DEF DeletePod
  <2> QED
    BY <2>1, <2>2
<1>2. ASSUME NEW next, Answer(c, at, next)
      PROVE  /\ object' \in Objects
             /\ marked' \in BOOLEAN
             /\ event' \in [Controllers -> BOOLEAN]
  BY <1>1, <1>2 DEF Answer, UnchangedPod
<1> QED
  BY <1>2 DEF Lost, UnchangedPod

\* A request of a goroutine.
LEMMA RecreateTypes ==
    ASSUME TypeOK, kind = "process", NEW c \in Controllers, NEW at, NEW to,
           RecreatePod(c, at, to)
    PROVE  /\ object' \in Objects
           /\ marked' \in BOOLEAN
           /\ event' \in [Controllers -> BOOLEAN]
           /\ active' \in [Controllers -> BOOLEAN]
           /\ faults' \in 0..MaxFaults /\ restarts' \in 0..MaxFaults
<1>1. \/ Answer(c, at, to) \/ Lost(c, at)
      \/ UnchangedPod
  BY DEF RecreatePod
<1>2. /\ object' \in Objects
      /\ marked' \in BOOLEAN
      /\ event' \in [Controllers -> BOOLEAN]
  BY <1>1, AnswerTypes DEF UnchangedPod, TypeOK, Objects
<1>3. faults' \in 0..MaxFaults /\ restarts' \in 0..MaxFaults
  BY FaultTypes DEF RecreatePod
<1>4. active' \in [Controllers -> BOOLEAN]
  BY DEF RecreatePod, Record, TypeOK
<1> QED
  BY <1>2, <1>3, <1>4

\* A process, its watcher and its updater.
LEMMA ProcessTypes ==
    ASSUME TypeOK, ProcessNext
    PROVE  TypeOK'
<1> USE DEF TypeOK
<1>1. kind = "process"
  BY DEF ProcessNext
<1>2. ASSUME NEW c \in Controllers, NEW who \in Callers, ProcessCall(c, who)
      PROVE  TypeOK'
  <2>1. CASE ProcessRequest(c, who)
    <3> DEFINE at == call[c][who]
    <3>1. PICK to \in Answers :
             /\ \/ NoFault /\ Answer(c, at, to)
                \/ Fault /\ to = "failed" /\ Lost(c, at)
             /\ Record(c, to)
             /\ IF to \in PodRequests THEN Goto(c, who, to) /\ UNCHANGED leadership
                ELSE StartReturns(c, who)
             /\ IF to = "done" THEN Spawn(c, who) ELSE UNCHANGED <<watcher, updater, orphaned>>
      BY <2>1, Zenon DEF ProcessRequest
    <3>2. LeadershipTypeOK' /\ call' \in [Controllers -> [Callers -> Labels]]
      BY <3>1, CallTypes DEF PodRequests, Labels
    <3>3. faults' \in 0..MaxFaults /\ restarts' \in 0..MaxFaults
      BY <3>1, FaultTypes
    <3>4. /\ watcher' \in [Controllers -> WatcherPC]
          /\ updater' \in [Controllers -> UpdaterPC]
          /\ orphaned' \in [Controllers -> BOOLEAN]
      BY <3>1, SpawnTypes
    <3>5. /\ object' \in Objects /\ marked' \in BOOLEAN
          /\ event' \in [Controllers -> BOOLEAN]
      BY <1>1, <3>1, AnswerTypes
    <3>6. active' \in [Controllers -> BOOLEAN]
      BY <3>1 DEF Record
    <3>7. UNCHANGED <<kind, headless, failing, closed, failed>>
      BY <2>1 DEF ProcessRequest
    <3> QED
      BY <3>2, <3>3, <3>4, <3>5, <3>6, <3>7 DEF Objects
  <2>2. CASE Close(c, who)
    BY <2>2, CloseTypes
  <2>3. CASE ProcessDelete(c, who)
    <3>1. LeadershipTypeOK' /\ call' \in [Controllers -> [Callers -> Labels]]
      BY <2>3, CallTypes DEF ProcessDelete, Labels
    <3>2. faults' \in 0..MaxFaults /\ restarts' \in 0..MaxFaults
      BY <2>3, FaultTypes DEF ProcessDelete
    <3>3. /\ object' \in Objects /\ marked' \in BOOLEAN
          /\ event' \in [Controllers -> BOOLEAN]
      <4>1. UnchangedPod \/ DeletePod
        BY <2>3 DEF ProcessDelete
      <4>2. UnchangedPod \/ Answer(c, "replace", "create")
        BY <4>1 DEF Answer
      <4> QED
        BY <1>1, <4>2, AnswerTypes DEF UnchangedPod
    <3>4. UNCHANGED <<kind, headless, beliefs, watcher, updater, orphaned>>
      BY <2>3 DEF ProcessDelete
    <3> QED
      BY <3>1, <3>2, <3>3, <3>4 DEF Objects
  <2>4. CASE ProcessWait(c, who)
    <3>1. LeadershipTypeOK' /\ call' \in [Controllers -> [Callers -> Labels]]
      BY <2>4, CallTypes DEF ProcessWait
    <3>2. faults' \in 0..MaxFaults /\ restarts' \in 0..MaxFaults
      BY <2>4, FaultTypes DEF ProcessWait
    <3>3. event' \in [Controllers -> BOOLEAN] /\ marked' \in BOOLEAN
      BY <2>4, VanishTypes DEF ProcessWait
    <3>4. object' \in Objects
      BY <1>1, <2>4 DEF ProcessWait, Vanish, Objects
    <3>5. /\ active' \in [Controllers -> BOOLEAN]
          /\ UNCHANGED <<kind, headless, failing, closed, failed, watcher, updater, orphaned>>
      BY <2>4 DEF ProcessWait
    <3> QED
      BY <3>1, <3>2, <3>3, <3>4, <3>5 DEF Objects
  <2> QED
    BY <1>2, <2>1, <2>2, <2>3, <2>4 DEF ProcessCall
<1>3. ASSUME NEW c \in Controllers, ProcessWatch(c) \/ WatchBreaks(c)
      PROVE  TypeOK'
  <2>1. LeadershipTypeOK'
    BY <1>3, LeadershipTypes
    DEF ProcessWatch, WatchBreaks, WatchEvent, WatchRequest, WatchAgain
  <2>2. CASE WatchRequest(c)
    <3>1. PICK to \in Answers :
             /\ RecreatePod(c, watcher[c], to)
             /\ IF to \in PodRequests THEN watcher' = [watcher EXCEPT ![c] = to]
                ELSE WatchOn(c)
      BY <2>2, Zenon DEF WatchRequest
    <3>2. watcher' \in [Controllers -> WatcherPC]
      BY <3>1 DEF WatchOn, WatcherPC, PodRequests
    <3>3. UNCHANGED <<kind, headless, failing, closed, failed, call, updater, orphaned>>
      BY <2>2 DEF WatchRequest
    <3>4. /\ object' \in Objects /\ marked' \in BOOLEAN
          /\ event' \in [Controllers -> BOOLEAN]
          /\ active' \in [Controllers -> BOOLEAN]
          /\ faults' \in 0..MaxFaults /\ restarts' \in 0..MaxFaults
      BY <1>1, <3>1, RecreateTypes
    <3> QED
      BY <2>1, <3>2, <3>3, <3>4 DEF Objects
  <2>3. CASE WatchEvent(c)
    BY <2>1, <2>3 DEF WatchEvent, WatcherPC, PodRequests, Objects
  <2>4. CASE WatchBreaks(c)
    <3>1. faults' \in 0..MaxFaults /\ restarts' \in 0..MaxFaults
      BY <2>4, FaultTypes DEF WatchBreaks
    <3>2. watcher' \in [Controllers -> WatcherPC] /\ event' \in [Controllers -> BOOLEAN]
      BY <2>4 DEF WatchBreaks, WatcherPC
    <3> QED
      BY <2>1, <2>4, <3>1, <3>2 DEF WatchBreaks, Objects
  <2>5. CASE WatchAgain(c)
    <3>1. watcher' \in [Controllers -> WatcherPC]
      BY <2>5 DEF WatchAgain, WatchOn, WatcherPC, PodRequests
    <3>2. faults' \in 0..MaxFaults /\ restarts' \in 0..MaxFaults
      BY <2>5, FaultTypes DEF WatchAgain
    <3> QED
      BY <2>1, <2>5, <3>1, <3>2 DEF WatchAgain, Objects
  <2> QED
    BY <1>3, <2>2, <2>3, <2>4, <2>5 DEF ProcessWatch
<1>4. ASSUME NEW c \in Controllers, CheckStatus(c)
      PROVE  failing' \in [Controllers -> BOOLEAN]
  <2>1. ASSUME NEW b \in BOOLEAN
        PROVE  [failing EXCEPT ![c] = b] \in [Controllers -> BOOLEAN]
    OBVIOUS
  <2>2. (object = "absent") \in BOOLEAN
    OBVIOUS
  <2>3. \/ failing' = [failing EXCEPT ![c] = (object = "absent")]
        \/ failing' = [failing EXCEPT ![c] = TRUE]
    BY <1>4 DEF CheckStatus
  <2> QED
    BY <2>1, <2>2, <2>3, Zenon
<1>5. ASSUME NEW c \in Controllers,
             ProcessUpdate(c) \/ ProcessUnready(c) \/ UpdaterEnds(c)
      PROVE  TypeOK'
  <2>1. LeadershipTypeOK'
    BY <1>5, LeadershipTypes
    DEF ProcessUpdate, ProcessCheck, ProcessUnready, UpdaterRequest, UpdaterEnds
  <2>2. CASE ProcessCheck(c)
    <3>1. failing' \in [Controllers -> BOOLEAN]
      BY <1>4, <2>2 DEF ProcessCheck, CheckFails
    <3>2. updater' \in [Controllers -> UpdaterPC]
      BY <2>2 DEF ProcessCheck, UpdaterPC, PodRequests
    <3>3. faults' \in 0..MaxFaults /\ restarts' \in 0..MaxFaults
      BY <2>2, FaultTypes DEF ProcessCheck, CheckFails
    <3> QED
      BY <2>1, <2>2, <3>1, <3>2, <3>3 DEF ProcessCheck, Objects
  <2>3. CASE UpdaterRequest(c)
    <3>1. PICK to \in Answers :
             /\ RecreatePod(c, updater[c], to)
             /\ updater' = [updater EXCEPT ![c] =
                               IF to \in PodRequests THEN to ELSE "ticking"]
      BY <2>3, Zenon DEF UpdaterRequest
    <3>2. updater' \in [Controllers -> UpdaterPC]
      BY <3>1 DEF UpdaterPC
    <3>3. UNCHANGED <<kind, headless, failing, closed, failed, call, watcher, orphaned>>
      BY <2>3 DEF UpdaterRequest
    <3>4. /\ object' \in Objects /\ marked' \in BOOLEAN
          /\ event' \in [Controllers -> BOOLEAN]
          /\ active' \in [Controllers -> BOOLEAN]
          /\ faults' \in 0..MaxFaults /\ restarts' \in 0..MaxFaults
      BY <1>1, <3>1, RecreateTypes
    <3> QED
      BY <2>1, <3>2, <3>3, <3>4 DEF Objects
  <2>4. CASE ProcessUnready(c)
    BY <2>1, <2>4 DEF ProcessUnready, Objects
  <2>5. CASE UpdaterEnds(c)
    BY <2>1, <2>5 DEF UpdaterEnds, UpdaterPC, Objects
  <2> QED
    BY <1>5, <2>2, <2>3, <2>4, <2>5 DEF ProcessUpdate
<1>6. CASE PodEnds
  BY <1>1, <1>6 DEF PodEnds, LeadershipTypeOK, Objects
<1>7. CASE PodGone
  <2>1. event' \in [Controllers -> BOOLEAN] /\ marked' \in BOOLEAN /\ object' = "absent"
    BY <1>7, VanishTypes DEF PodGone, Vanish
  <2> QED
    BY <1>1, <1>7, <2>1 DEF PodGone, LeadershipTypeOK, Objects
<1> QED
  BY <1>2, <1>3, <1>5, <1>6, <1>7 DEF ProcessNext

\* A deployment or stateful set, and its health monitor.
LEMMA ServiceTypes ==
    ASSUME TypeOK, kind # "process", NEW c \in Controllers,
           \/ \E who \in Callers : ServiceCall(c, who)
           \/ ServiceCheck(c) \/ UpdaterEnds(c)
    PROVE  TypeOK'
<1> USE DEF TypeOK, Objects
<1>1. ASSUME NEW who \in Callers, ServiceGet(c, who)
      PROVE  TypeOK'
  <2>1. LeadershipTypeOK' /\ call' \in [Controllers -> [Callers -> Labels]]
    BY <1>1, CallTypes DEF ServiceGet, Labels
  <2>2. faults' \in 0..MaxFaults /\ restarts' \in 0..MaxFaults
    BY <1>1, FaultTypes DEF ServiceGet
  <2> QED
    BY <1>1, <2>1, <2>2 DEF ServiceGet
<1>2. ASSUME NEW who \in Callers, ServiceWrite(c, who)
      PROVE  TypeOK'
  <2>1. LeadershipTypeOK' /\ call' \in [Controllers -> [Callers -> Labels]]
    BY <1>2, CallTypes DEF ServiceWrite
  <2>2. faults' \in 0..MaxFaults /\ restarts' \in 0..MaxFaults
    BY <1>2, FaultTypes DEF ServiceWrite
  <2>3. /\ watcher' \in [Controllers -> WatcherPC]
        /\ updater' \in [Controllers -> UpdaterPC]
        /\ orphaned' \in [Controllers -> BOOLEAN]
    BY <1>2, SpawnTypes DEF ServiceWrite
  <2>4. event' = event
    BY <1>2 DEF ServiceWrite, Spawn
  <2>5. object' \in Objects /\ active' \in [Controllers -> BOOLEAN]
    BY <1>2 DEF ServiceWrite
  <2>6. UNCHANGED <<kind, marked, headless, failing, closed, failed>>
    BY <1>2 DEF ServiceWrite
  <2> QED
    BY <2>1, <2>2, <2>3, <2>4, <2>5, <2>6
<1>3. ASSUME NEW who \in Callers, ServiceScale(c, who)
      PROVE  TypeOK'
  <2>1. LeadershipTypeOK' /\ call' \in [Controllers -> [Callers -> Labels]]
    BY <1>3, CallTypes DEF ServiceScale, Labels
  <2>2. faults' \in 0..MaxFaults /\ restarts' \in 0..MaxFaults
    BY <1>3, FaultTypes DEF ServiceScale
  <2>3. object' \in Objects /\ active' \in [Controllers -> BOOLEAN]
    BY <1>3 DEF ServiceScale
  <2> QED
    BY <1>3, <2>1, <2>2, <2>3 DEF ServiceScale
<1>4. ASSUME NEW who \in Callers, ServiceWait(c, who)
      PROVE  TypeOK'
  <2>1. LeadershipTypeOK' /\ call' \in [Controllers -> [Callers -> Labels]]
    BY <1>4, CallTypes DEF ServiceWait
  <2> QED
    BY <1>4, <2>1 DEF ServiceWait
<1>5. CASE ServiceCheck(c)
  <2>1. ASSUME NEW b \in BOOLEAN
        PROVE  /\ [failing EXCEPT ![c] = b] \in [Controllers -> BOOLEAN]
               /\ [active EXCEPT ![c] = b] \in [Controllers -> BOOLEAN]
    OBVIOUS
  <2>2. (object = "absent") \in BOOLEAN /\ (object = "on") \in BOOLEAN
    OBVIOUS
  <2>3. /\ \/ failing' = [failing EXCEPT ![c] = (object = "absent")]
           \/ failing' = [failing EXCEPT ![c] = TRUE]
        /\ active' = active \/ active' = [active EXCEPT ![c] = (object = "on")]
    BY <1>5 DEF ServiceCheck, CheckFails
  <2>4. failing' \in [Controllers -> BOOLEAN] /\ active' \in [Controllers -> BOOLEAN]
    BY <2>1, <2>2, <2>3, Zenon
  <2>5. faults' \in 0..MaxFaults /\ restarts' \in 0..MaxFaults
    BY <1>5, FaultTypes DEF ServiceCheck, CheckFails
  <2> QED
    BY <1>5, <2>4, <2>5 DEF ServiceCheck, LeadershipTypeOK
<1>6. CASE UpdaterEnds(c)
  BY <1>6 DEF UpdaterEnds, UpdaterPC, LeadershipTypeOK
<1> QED
  BY <1>1, <1>2, <1>3, <1>4, <1>5, <1>6, CloseTypes DEF ServiceCall

\* Somebody else scales or deletes it.
LEMMA MeddleTypes ==
    ASSUME TypeOK, kind # "process", Meddle
    PROVE  TypeOK'
<1>1. faults' \in 0..MaxFaults /\ restarts' \in 0..MaxFaults
  BY FaultTypes DEF Meddle
<1> QED
  BY <1>1 DEF Meddle, TypeOK, Objects, LeadershipTypeOK

\* The headless service of a stateful set.
LEMMA EndpointsTypes ==
    ASSUME TypeOK, NEW c \in Controllers, NEW who \in Callers,
           PersistentEndpoints(c, who)
    PROVE  TypeOK'
<1> USE DEF TypeOK, Objects
<1>1. LeadershipTypeOK' /\ call' \in [Controllers -> [Callers -> Labels]]
  BY CallTypes DEF PersistentEndpoints, Labels
<1>2. headless' \in BOOLEAN
  BY DEF PersistentEndpoints
<1>3. faults' \in 0..MaxFaults /\ restarts' \in 0..MaxFaults
  BY FaultTypes DEF PersistentEndpoints
<1> QED
  BY <1>1, <1>2, <1>3 DEF PersistentEndpoints

\* A cron job, and its health monitor.
LEMMA CronJobTypes ==
    ASSUME TypeOK, CronJobNext
    PROVE  TypeOK'
<1> USE DEF TypeOK, Objects
<1>1. kind = "cronjob"
  BY DEF CronJobNext
<1>2. ASSUME NEW c \in Controllers, NEW who \in Callers,
             \/ CronJobGet(c, who) \/ CronJobResume(c, who)
             \/ CronJobSuspend(c, who) \/ CronJobCreateSuspended(c, who)
             \/ CronJobWait(c, who)
      PROVE  TypeOK'
  <2> USE DEF CronJobGet, CronJobResume, CronJobSuspend, CronJobCreateSuspended,
              CronJobWait
  <2>1. LeadershipTypeOK' /\ call' \in [Controllers -> [Callers -> Labels]]
    BY <1>2, CallTypes DEF Labels
  <2>2. faults' \in 0..MaxFaults /\ restarts' \in 0..MaxFaults
    BY <1>2, FaultTypes
  <2>3. Spawn(c, who) \/ UNCHANGED goroutines
    BY <1>2
  <2>4. /\ watcher' \in [Controllers -> WatcherPC]
        /\ updater' \in [Controllers -> UpdaterPC]
        /\ orphaned' \in [Controllers -> BOOLEAN]
    BY <2>3, SpawnTypes
  <2>5. event' = event
    BY <2>3 DEF Spawn
  <2>6. object' \in Objects
    BY <1>1, <1>2
  <2>7. active' \in [Controllers -> BOOLEAN]
    BY <1>2
  <2>8. UNCHANGED <<kind, marked, headless, failing, closed, failed>>
    BY <1>2
  <2> QED
    BY <1>1, <2>1, <2>2, <2>4, <2>5, <2>6, <2>7, <2>8
<1>3. ASSUME NEW c \in Controllers, CronJobCheck(c)
      PROVE  TypeOK'
  <2>1. ASSUME NEW b \in BOOLEAN
        PROVE  /\ [failing EXCEPT ![c] = b] \in [Controllers -> BOOLEAN]
               /\ [active EXCEPT ![c] = b] \in [Controllers -> BOOLEAN]
    OBVIOUS
  <2>2. /\ (object = "absent" \/ active[c] # (object = "on")) \in BOOLEAN
        /\ (object = "on") \in BOOLEAN
    OBVIOUS
  <2>3. /\ \/ failing' = [failing EXCEPT ![c] =
                             (object = "absent" \/ active[c] # (object = "on"))]
           \/ failing' = [failing EXCEPT ![c] = TRUE]
        /\ active' = active \/ active' = [active EXCEPT ![c] = (object = "on")]
    BY <1>3 DEF CronJobCheck, CheckFails
  <2>4. failing' \in [Controllers -> BOOLEAN] /\ active' \in [Controllers -> BOOLEAN]
    BY <2>1, <2>2, <2>3, Zenon
  <2>5. faults' \in 0..MaxFaults /\ restarts' \in 0..MaxFaults
    BY <1>3, FaultTypes DEF CronJobCheck, CheckFails
  <2> QED
    BY <1>3, <2>4, <2>5 DEF CronJobCheck, LeadershipTypeOK
<1>4. ASSUME NEW c \in Controllers, UpdaterEnds(c)
      PROVE  TypeOK'
  BY <1>4 DEF UpdaterEnds, UpdaterPC, LeadershipTypeOK
<1>5. CASE CronJobMeddle
  <2>1. faults' \in 0..MaxFaults /\ restarts' \in 0..MaxFaults
    BY <1>5, FaultTypes DEF CronJobMeddle
  <2> QED
    BY <1>1, <1>5, <2>1 DEF CronJobMeddle, LeadershipTypeOK
<1> QED
  BY <1>2, <1>3, <1>4, <1>5, CloseTypes DEF CronJobNext, CronJobCall

\* Every step of any kind of workload, and of its callers.
LEMMA NextTypes ==
    ASSUME TypeOK, [Next]_vars
    PROVE  TypeOK'
<1>1. CASE ProcessNext
  BY <1>1, ProcessTypes
<1>2. CASE ServiceNext
  BY <1>2, ServiceTypes, MeddleTypes DEF ServiceNext
<1>3. CASE PersistentNext
  <2>1. kind # "process"
    BY <1>3 DEF PersistentNext
  <2>2. ASSUME NEW c \in Controllers, NEW who \in Callers, PersistentCall(c, who)
        PROVE  TypeOK'
    <3>1. ServiceCall(c, who) \/ PersistentEndpoints(c, who)
      BY <2>2
      DEF PersistentCall, PersistentGet, PersistentWrite, PersistentScale,
          PersistentWait, ServiceCall
    <3> QED
      BY <2>1, <3>1, ServiceTypes, EndpointsTypes
  <2>3. ASSUME NEW c \in Controllers, PersistentCheck(c) \/ UpdaterEnds(c)
        PROVE  TypeOK'
    BY <2>1, <2>3, ServiceTypes DEF PersistentCheck
  <2> QED
    BY <1>3, <2>1, <2>2, <2>3, MeddleTypes DEF PersistentNext
<1>4. CASE CronJobNext
  BY <1>4, CronJobTypes
<1>5. CASE \E c \in Controllers : CallerNext(c)
  BY <1>5, CallerTypes
<1>6. CASE UNCHANGED vars
  BY <1>6 DEF vars, TypeOK, LeadershipTypeOK, Objects
<1> QED
  BY <1>1, <1>2, <1>3, <1>4, <1>5, <1>6 DEF Next

-----------------------------------------------------------------------------
(* Starts, stops and terms                                                 *)

\* A step of a Start, whatever the kind: it goes on, or it returns, having
\* left its goroutines behind if the workload is active now.
StartStep(c, who) ==
    /\ call[c][who] \in {"endpoints", "update"} \cup PodRequests
    /\ UNCHANGED closed
    /\ \/ SetActive(c, TRUE) /\ Spawn(c, who)
       \/ UNCHANGED <<active, watcher, updater, orphaned>>
    /\ \/ \E label \in {"update"} \cup PodRequests : Goto(c, who, label) /\ UNCHANGED leadership
       \/ StartReturns(c, who)

\* A step of a Stop that has closed stopCh.
StopStep(c, who) ==
    /\ call[c][who] \in Stopping \ {"close"}
    /\ UNCHANGED <<closed, watcher, updater, orphaned>>
    /\ SetActive(c, FALSE) \/ UNCHANGED active
    /\ \/ \E label \in {"suspend", "wait"} : Goto(c, who, label) /\ UNCHANGED leadership
       \/ StopReturns(c, who)

\* Every step of a call is one of a Start or one of a Stop.
LEMMA ProcessCallSteps ==
    ASSUME NEW c \in Controllers, NEW who \in Callers, ProcessCall(c, who)
    PROVE  StartStep(c, who) \/ Close(c, who) \/ StopStep(c, who)
<1>1. CASE ProcessRequest(c, who)
  <2>1. PICK to \in Answers :
           /\ Record(c, to)
           /\ IF to \in PodRequests THEN Goto(c, who, to) /\ UNCHANGED leadership
              ELSE StartReturns(c, who)
           /\ IF to = "done" THEN Spawn(c, who) ELSE UNCHANGED <<watcher, updater, orphaned>>
    BY <1>1, Zenon DEF ProcessRequest
  <2>2. call[c][who] \in PodRequests /\ UNCHANGED closed
    BY <1>1, Zenon DEF ProcessRequest
  <2> QED
    BY <2>1, <2>2 DEF StartStep, Record
<1>2. CASE ProcessDelete(c, who)
  BY <1>2 DEF ProcessDelete, StopStep, Stopping
<1>3. CASE ProcessWait(c, who)
  BY <1>3 DEF ProcessWait, StopStep, Stopping
<1> QED
  BY <1>1, <1>2, <1>3 DEF ProcessCall

\* The same of a deployment and of a stateful set.
LEMMA ServiceCallSteps ==
    ASSUME NEW c \in Controllers, NEW who \in Callers,
           ServiceCall(c, who) \/ PersistentCall(c, who)
    PROVE  StartStep(c, who) \/ Close(c, who) \/ StopStep(c, who)
<1> USE DEF StartStep, StopStep, Stopping, PodRequests
<1>1. CASE ServiceGet(c, who)
  BY <1>1 DEF ServiceGet
<1>2. CASE ServiceWrite(c, who)
  BY <1>2 DEF ServiceWrite
<1>3. CASE ServiceScale(c, who)
  BY <1>3 DEF ServiceScale
<1>4. CASE ServiceWait(c, who)
  BY <1>4 DEF ServiceWait
<1>5. CASE PersistentEndpoints(c, who)
  BY <1>5 DEF PersistentEndpoints
<1> QED
  BY <1>1, <1>2, <1>3, <1>4, <1>5
  DEF ServiceCall, PersistentCall, PersistentGet, PersistentWrite,
      PersistentScale, PersistentWait

\* The same of a cron job.
LEMMA CronJobCallSteps ==
    ASSUME NEW c \in Controllers, NEW who \in Callers, CronJobCall(c, who)
    PROVE  StartStep(c, who) \/ Close(c, who) \/ StopStep(c, who)
<1> USE DEF StartStep, StopStep, Stopping, PodRequests
<1>1. CASE CronJobGet(c, who)
  BY <1>1 DEF CronJobGet
<1>2. CASE CronJobResume(c, who)
  BY <1>2 DEF CronJobResume
<1>3. CASE CronJobSuspend(c, who)
  BY <1>3 DEF CronJobSuspend
<1>4. CASE CronJobCreateSuspended(c, who)
  BY <1>4 DEF CronJobCreateSuspended
<1>5. CASE CronJobWait(c, who)
  BY <1>5 DEF CronJobWait
<1> QED
  BY <1>1, <1>2, <1>3, <1>4, <1>5 DEF CronJobCall

\* A call begins, ends and goes on as the term does.
LEMMA CallKeepsOrder ==
    ASSUME TypeOK, Ordered, NEW c \in Controllers, NEW who \in Callers,
           StartStep(c, who) \/ Close(c, who) \/ StopStep(c, who)
    PROVE  Ordered'
<1> SUFFICES ASSUME NEW d \in Controllers
             PROVE  ClosedByStop(d)' /\ StopEndsTerm(d)'
  BY DEF Ordered
<1>1. ClosedByStop(d) /\ StopEndsTerm(d) /\ ClosedByStop(c) /\ StopEndsTerm(c)
  BY DEF Ordered
<1> USE DEF TypeOK, LeadershipTypeOK, ClosedByStop, StopEndsTerm
<1>2. CASE StartStep(c, who)
  BY <1>1, <1>2
  DEF StartStep, StartReturns, Started, Enter, Stopping, PodRequests
<1>3. CASE Close(c, who)
  <2>1. /\ UNCHANGED leadership
        /\ Goto(c, who, "off") /\ At(c, who, "close")
        /\ closed' = [closed EXCEPT ![c] = c \in Watchful]
    BY <1>3, Zenon DEF Close
  <2> QED
    BY <1>1, <2>1 DEF Stopping
<1>4. CASE StopStep(c, who)
  <2>1. CASE \E label \in {"suspend", "wait"} : Goto(c, who, label) /\ UNCHANGED leadership
    BY <1>1, <1>4, <2>1 DEF StopStep, Stopping
  <2>2. CASE StopReturns(c, who)
    <3>1. UNCHANGED closed
      BY <1>4 DEF StopStep
    <3>2. CASE who = "election"
      BY <1>1, <2>2, <3>1, <3>2 DEF StopReturns, Stopped, Enter, Stopping
    <3>3. CASE who # "election"
      <4>1. call'[d]["election"] = call[d]["election"] /\ UNCHANGED leadership
        BY <2>2, <3>3 DEF StopReturns
      <4> QED
        BY <1>1, <3>1, <4>1
    <3> QED
      BY <3>2, <3>3
  <2> QED
    BY <1>4, <2>1, <2>2 DEF StopStep
<1> QED
  BY <1>2, <1>3, <1>4

\* A call leaves a workload that is active with somebody to look after it.
LEMMA CallKeepsAttended ==
    ASSUME TypeOK, Ordered, AllAttended,
           NEW c \in Controllers, NEW who \in Callers,
           StartStep(c, who) \/ Close(c, who) \/ StopStep(c, who)
    PROVE  AllAttended'
<1> SUFFICES ASSUME NEW d \in Watchful
             PROVE  Attended(d)'
  BY DEF AllAttended
<1>1. Attended(d) /\ ClosedByStop(c) /\ StopEndsTerm(c)
  BY DEF Ordered, AllAttended
<1> USE DEF TypeOK, LeadershipTypeOK, Attended
<1>2. CASE StartStep(c, who)
  <2>1. UNCHANGED closed
    BY <1>2 DEF StartStep
  <2>2. term'[d] = "stopping" <=> term[d] = "stopping"
    BY <1>2 DEF StartStep, StartReturns, Started, Enter
  <2>3. CASE UNCHANGED <<active, watcher, updater, orphaned>>
    BY <1>1, <2>1, <2>2, <2>3
  <2>4. CASE SetActive(c, TRUE) /\ Spawn(c, who)
    BY <1>1, <2>1, <2>2, <2>4 DEF Spawn
  <2> QED
    BY <1>2, <2>3, <2>4 DEF StartStep
<1>3. CASE Close(c, who)
  BY <1>1, <1>3 DEF Close
<1>4. CASE StopStep(c, who)
  BY <1>1, <1>4
  DEF StopStep, StopReturns, Stopped, Enter, ClosedByStop
<1> QED
  BY <1>2, <1>3, <1>4

\* A step that neither moves a term nor calls Start or Stop.
LEMMA OthersKeepOrder ==
    ASSUME Ordered, UNCHANGED <<leadership, call, closed>>
    PROVE  Ordered'
  BY DEF Ordered, ClosedByStop, StopEndsTerm

\* A goroutine of c: none but the last to look after the workload makes it
\* active, and that one ends when stopCh is closed or the term ends.
GoroutineStep(c) ==
    /\ UNCHANGED <<leadership, call, closed>>
    /\ \/ /\ updater[c] # "none"
          /\ \/ \E l \in UpdaterPC \ {"none"} : updater' = [updater EXCEPT ![c] = l]
             \/ UNCHANGED updater
          /\ UNCHANGED <<watcher, orphaned>>
          /\ UNCHANGED active \/ \E b \in BOOLEAN : SetActive(c, b)
       \/ /\ watcher[c] # "none"
          /\ \E l \in WatcherPC : watcher' = [watcher EXCEPT ![c] = l]
          /\ UNCHANGED <<updater, orphaned>>
          /\ UNCHANGED active \/ SetActive(c, TRUE)
       \/ UpdaterEnds(c)

\* Every step of a goroutine, whatever the kind, is one of these.
LEMMA GoroutineSteps ==
    ASSUME NEW c \in Controllers,
           \/ ProcessWatch(c) \/ WatchBreaks(c)
           \/ ProcessUpdate(c) \/ ProcessUnready(c)
           \/ ServiceCheck(c) \/ PersistentCheck(c) \/ CronJobCheck(c)
           \/ UpdaterEnds(c)
    PROVE  GoroutineStep(c)
<1> USE DEF GoroutineStep, WatcherPC, UpdaterPC
<1>1. CASE WatchEvent(c)
  <2>1. UNCHANGED <<leadership, call, closed, active, updater, orphaned>>
    BY <1>1 DEF WatchEvent
  <2>2. watcher[c] # "none" /\ \E l \in WatcherPC : watcher' = [watcher EXCEPT ![c] = l]
    BY <1>1 DEF WatchEvent, PodRequests
  <2> QED
    BY <2>1, <2>2
<1>2. CASE WatchRequest(c)
  <2>1. PICK to \in Answers :
           /\ RecreatePod(c, watcher[c], to)
           /\ IF to \in PodRequests THEN watcher' = [watcher EXCEPT ![c] = to]
              ELSE WatchOn(c)
    BY <1>2, Zenon DEF WatchRequest
  <2>2. \E l \in WatcherPC : watcher' = [watcher EXCEPT ![c] = l]
    BY <2>1 DEF WatchOn, PodRequests
  <2>3. UNCHANGED active \/ SetActive(c, TRUE)
    BY <2>1 DEF RecreatePod, Record
  <2>4. UNCHANGED <<leadership, call, closed, updater, orphaned>> /\ watcher[c] # "none"
    BY <1>2 DEF WatchRequest, PodRequests
  <2> QED
    BY <2>2, <2>3, <2>4
<1>3. CASE WatchBreaks(c)
  BY <1>3 DEF WatchBreaks
<1>4. CASE WatchAgain(c)
  BY <1>4 DEF WatchAgain, WatchOn, PodRequests
<1>5. CASE ProcessCheck(c)
  <2>1. /\ UNCHANGED <<leadership, call, closed, active, watcher, orphaned>>
        /\ updater[c] # "none"
    BY <1>5 DEF ProcessCheck
  <2>2. \/ \E l \in UpdaterPC \ {"none"} : updater' = [updater EXCEPT ![c] = l]
        \/ UNCHANGED updater
    <3>1. \/ updater' = [updater EXCEPT ![c] = "get"]
          \/ updater' = [updater EXCEPT ![c] = updater[c]]
          \/ UNCHANGED updater
      BY <1>5 DEF ProcessCheck
    <3>2. updater[c] = "ticking"
      BY <1>5 DEF ProcessCheck
    <3> QED
      BY <3>1, <3>2 DEF PodRequests
  <2> QED
    BY <2>1, <2>2
<1>6. CASE ProcessUnready(c)
  BY <1>6 DEF ProcessUnready
<1>7. CASE UpdaterRequest(c)
  <2>1. PICK to \in Answers :
           /\ RecreatePod(c, updater[c], to)
           /\ updater' = [updater EXCEPT ![c] =
                             IF to \in PodRequests THEN to ELSE "ticking"]
    BY <1>7, Zenon DEF UpdaterRequest
  <2>2. \E l \in UpdaterPC \ {"none"} : updater' = [updater EXCEPT ![c] = l]
    BY <2>1 DEF PodRequests
  <2>3. UNCHANGED active \/ SetActive(c, TRUE)
    BY <2>1 DEF RecreatePod, Record
  <2>4. /\ UNCHANGED <<leadership, call, closed, watcher, orphaned>>
        /\ updater[c] # "none"
    BY <1>7 DEF UpdaterRequest, PodRequests
  <2> QED
    BY <2>2, <2>3, <2>4
<1>8. CASE ServiceCheck(c) \/ PersistentCheck(c)
  <2>1. ServiceCheck(c)
    BY <1>8 DEF PersistentCheck
  <2>2. UNCHANGED <<leadership, call, closed, goroutines>> /\ updater[c] # "none"
    BY <2>1 DEF ServiceCheck
  <2>3. UNCHANGED active \/ SetActive(c, object = "on")
    BY <2>1 DEF ServiceCheck
  <2>4. (object = "on") \in BOOLEAN
    OBVIOUS
  <2>5. UNCHANGED active \/ \E b \in BOOLEAN : SetActive(c, b)
    BY <2>3, <2>4, Zenon
  <2> QED
    BY <2>2, <2>5
<1>9. CASE CronJobCheck(c)
  <2>1. UNCHANGED <<leadership, call, closed, goroutines>> /\ updater[c] # "none"
    BY <1>9 DEF CronJobCheck
  <2>2. UNCHANGED active \/ SetActive(c, object = "on")
    BY <1>9 DEF CronJobCheck
  <2>3. (object = "on") \in BOOLEAN
    OBVIOUS
  <2>4. UNCHANGED active \/ \E b \in BOOLEAN : SetActive(c, b)
    BY <2>2, <2>3, Zenon
  <2> QED
    BY <2>1, <2>4
<1>10. CASE UpdaterEnds(c)
  BY <1>10 DEF UpdaterEnds
<1> QED
  BY <1>1, <1>2, <1>3, <1>4, <1>5, <1>6, <1>7, <1>8, <1>9, <1>10
  DEF ProcessWatch, ProcessUpdate

\* The last to look after an active workload stays.
LEMMA GoroutineKeepsAttended ==
    ASSUME TypeOK, AllAttended, NEW c \in Controllers, GoroutineStep(c)
    PROVE  AllAttended'
<1> SUFFICES ASSUME NEW d \in Watchful
             PROVE  Attended(d)'
  BY DEF AllAttended
<1>1. Attended(d)
  BY DEF AllAttended
<1> QED
  BY <1>1
  DEF TypeOK, LeadershipTypeOK, Attended, GoroutineStep, UpdaterEnds, Returns,
      UpdaterPC

\* What happens in the cluster is nothing that these two are about.
LEMMA ClusterKeeps ==
    ASSUME Ordered, AllAttended, PodEnds \/ PodGone \/ Meddle \/ CronJobMeddle
    PROVE  Ordered' /\ AllAttended'
<1>1. UNCHANGED <<leadership, call, closed, active, watcher, updater, orphaned>>
  BY DEF PodEnds, PodGone, Meddle, CronJobMeddle
<1> QED
  BY <1>1
  DEF Ordered, ClosedByStop, StopEndsTerm, AllAttended, Attended

\* The callers begin where nothing is under way; a process that has died has
\* no goroutines and nothing active.
LEMMA CallerKeeps ==
    ASSUME TypeOK, Ordered, AllAttended, NEW c \in Controllers, CallerNext(c)
    PROVE  Ordered' /\ AllAttended'
<1>1. ASSUME NEW d \in Controllers
      PROVE  ClosedByStop(d)' /\ StopEndsTerm(d)'
  <2>1. ClosedByStop(d) /\ StopEndsTerm(d) /\ StopEndsTerm(c)
    BY DEF Ordered
  <2> USE DEF TypeOK, LeadershipTypeOK, ClosedByStop, StopEndsTerm, Stopping
  <2>2. CASE ElectionStart(c)
    BY <2>1, <2>2 DEF ElectionStart, StartManager, Win, Enter, StartLabel
  <2>3. CASE ElectionStop(c)
    BY <2>1, <2>3 DEF ElectionStop, Lose, Enter
  <2>4. CASE ElectionReport(c)
    BY <2>1, <2>4 DEF ElectionReport, Announce, Degrade
  <2>5. CASE MonitorTick(c)
    BY <2>1, <2>5 DEF MonitorTick
  <2>6. CASE Crash(c)
    BY <2>1, <2>6 DEF Crash, Reboot, Enter, StartLabel
  <2>7. ASSUME NEW who \in Callers, EnterFailed(c, who)
        PROVE  ClosedByStop(d)' /\ StopEndsTerm(d)'
    BY <2>1, <2>7 DEF EnterFailed, Started, Enter
  <2>8. ASSUME NEW r \in Retriers, RetryStart(c, r) \/ ForgetFailed(c, r)
        PROVE  ClosedByStop(d)' /\ StopEndsTerm(d)'
    BY <2>1, <2>8 DEF RetryStart, StartManager, ForgetFailed
  <2> QED
    BY <2>2, <2>3, <2>4, <2>5, <2>6, <2>7, <2>8 DEF CallerNext
<1>2. ASSUME NEW d \in Watchful
      PROVE  Attended(d)'
  <2>1. Attended(d)
    BY DEF AllAttended
  <2> USE DEF TypeOK, LeadershipTypeOK, Attended
  <2>2. CASE ElectionStart(c)
    BY <2>1, <2>2 DEF ElectionStart, Win, Enter
  <2>3. CASE ElectionStop(c)
    BY <2>1, <2>3 DEF ElectionStop, Lose, Enter
  <2>4. CASE ElectionReport(c)
    BY <2>1, <2>4 DEF ElectionReport, Announce, Degrade
  <2>5. CASE MonitorTick(c)
    BY <2>1, <2>5 DEF MonitorTick
  <2>6. CASE Crash(c)
    BY <2>1, <2>6 DEF Crash, Reboot, Enter
  <2>7. ASSUME NEW who \in Callers, EnterFailed(c, who)
        PROVE  Attended(d)'
    BY <2>1, <2>7 DEF EnterFailed, Started, Enter
  <2>8. ASSUME NEW r \in Retriers, RetryStart(c, r) \/ ForgetFailed(c, r)
        PROVE  Attended(d)'
    BY <2>1, <2>8 DEF RetryStart, ForgetFailed
  <2> QED
    BY <2>2, <2>3, <2>4, <2>5, <2>6, <2>7, <2>8 DEF CallerNext
<1> QED
  BY <1>1, <1>2 DEF Ordered, AllAttended

-----------------------------------------------------------------------------
(* The headless service                                                    *)

\* No call writes a stateful set whose service does not exist.
LEMMA CallKeepsServiceFirst ==
    ASSUME TypeOK, ServiceFirst, kind = "persistent",
           NEW c \in Controllers, NEW who \in Callers, PersistentCall(c, who)
    PROVE  ServiceFirst'
<1> SUFFICES /\ object' = "on" => headless'
             /\ \A d \in Controllers, w \in Callers :
                    call'[d][w] \in {"get", "create", "update"} => headless'
  BY DEF ServiceFirst
<1> USE DEF TypeOK, ServiceFirst, StartReturns, StopReturns, StartLabel
<1>1. CASE PersistentEndpoints(c, who)
  BY <1>1 DEF PersistentEndpoints
<1>2. CASE ServiceGet(c, who)
  BY <1>2 DEF ServiceGet
<1>3. CASE ServiceWrite(c, who)
  BY <1>3 DEF ServiceWrite
<1>4. CASE Close(c, who)
  BY <1>4 DEF Close
<1>5. CASE ServiceScale(c, who)
  BY <1>5 DEF ServiceScale
<1>6. CASE ServiceWait(c, who)
  BY <1>6 DEF ServiceWait
<1> QED
  BY <1>1, <1>2, <1>3, <1>4, <1>5, <1>6
  DEF PersistentCall, PersistentGet, PersistentWrite, PersistentScale,
      PersistentWait

\* Nor does anything else of a stateful set.
LEMMA PersistentKeepsServiceFirst ==
    ASSUME TypeOK, ServiceFirst, PersistentNext
    PROVE  ServiceFirst'
<1>1. kind = "persistent"
  BY DEF PersistentNext
<1>2. ASSUME NEW c \in Controllers, PersistentCheck(c) \/ UpdaterEnds(c) \/ Meddle
      PROVE  ServiceFirst'
  BY <1>1, <1>2
  DEF ServiceFirst, PersistentCheck, ServiceCheck, UpdaterEnds, Meddle
<1>3. CASE Meddle
  BY <1>1, <1>3 DEF ServiceFirst, Meddle
<1> QED
  BY <1>1, <1>2, <1>3, CallKeepsServiceFirst DEF PersistentNext

\* The callers begin a Start with the service.
LEMMA CallerKeepsServiceFirst ==
    ASSUME TypeOK, ServiceFirst, NEW c \in Controllers, CallerNext(c)
    PROVE  ServiceFirst'
<1> SUFFICES ASSUME kind' = "persistent"
             PROVE  /\ object' = "on" => headless'
                    /\ \A d \in Controllers, who \in Callers :
                           call'[d][who] \in {"get", "create", "update"} => headless'
  BY DEF ServiceFirst
<1>1. UNCHANGED <<kind, object, headless>>
  BY DEF CallerNext, ElectionStart, ElectionStop, ElectionReport, MonitorTick,
         Crash, EnterFailed, RetryStart, ForgetFailed
<1> USE DEF TypeOK, ServiceFirst
<1>2. CASE ElectionStart(c)
  BY <1>1, <1>2 DEF ElectionStart, StartManager, StartLabel
<1>3. CASE ElectionStop(c)
  BY <1>1, <1>3 DEF ElectionStop
<1>4. CASE ElectionReport(c)
  BY <1>1, <1>4 DEF ElectionReport
<1>5. CASE MonitorTick(c)
  BY <1>1, <1>5 DEF MonitorTick
<1>6. CASE Crash(c)
  BY <1>1, <1>6 DEF Crash, StartLabel
<1>7. CASE \E who \in Callers : EnterFailed(c, who)
  BY <1>1, <1>7 DEF EnterFailed
<1>8. CASE \E r \in Retriers : RetryStart(c, r) \/ ForgetFailed(c, r)
  BY <1>1, <1>8 DEF RetryStart, StartManager, ForgetFailed, StartLabel
<1> QED
  BY <1>1, <1>2, <1>3, <1>4, <1>5, <1>6, <1>7, <1>8 DEF CallerNext

\* No workload changes its kind.
LEMMA KindStays ==
    ASSUME ProcessNext \/ ServiceNext \/ CronJobNext
    PROVE  kind' = kind
<1>1. CASE ProcessNext
  BY <1>1
  DEF ProcessNext, ProcessCall, ProcessRequest, Close, ProcessDelete,
      ProcessWait, ProcessWatch, WatchEvent, WatchRequest, WatchAgain,
      WatchBreaks, ProcessUpdate, ProcessCheck, ProcessUnready,
      UpdaterRequest, UpdaterEnds, PodEnds, PodGone
<1>2. CASE ServiceNext
  BY <1>2
  DEF ServiceNext, ServiceCall, ServiceGet, ServiceWrite, Close, ServiceScale,
      ServiceWait, ServiceCheck, UpdaterEnds, Meddle
<1>3. CASE CronJobNext
  BY <1>3
  DEF CronJobNext, CronJobCall, CronJobGet, CronJobResume, Close,
      CronJobSuspend, CronJobCreateSuspended, CronJobWait, CronJobCheck,
      UpdaterEnds, CronJobMeddle
<1> QED
  BY <1>1, <1>2, <1>3

-----------------------------------------------------------------------------
(* What runs in the cluster                                                *)

\* A request that has not failed makes the workload active with its object;
\* and no workload ceases to be active before its object is off or gone.
BookStep ==
    /\ kind' = kind
    /\ faults' = 0 => faults = 0
    /\ \/ object' # "on"
       \/ faults' # 0
       \/ \E c \in Controllers : active'[c]
       \/ /\ object = "on"
          /\ \A c \in Controllers : active[c] => active'[c]
          /\ \A c \in Controllers :
                kind = "process" /\ call[c]["election"] \in Stopping
                    => call'[c]["election"] \in Stopping
       \/ /\ kind = "process"
          /\ \E c \in Controllers : call'[c]["election"] \in Stopping

LEMMA BooksKept ==
    ASSUME OnTheBooks, BookStep
    PROVE  OnTheBooks'
  BY DEF OnTheBooks, BookStep

\* A fault is on record from then on.
LEMMA FaultCounts ==
    ASSUME TypeOK
    PROVE  /\ Fault => faults' # 0
           /\ NoFault => faults' = faults
  BY DEF TypeOK, Fault

\* A request of createOrUpdatePod that is answered leaves a pod that runs with
\* the workload active, or makes none.
LEMMA AnswerKeepsBooks ==
    ASSUME NEW c \in Controllers, NEW at, NEW to, Answer(c, at, to), Record(c, to)
    PROVE  object' # "on" \/ SetActive(c, TRUE) \/ UNCHANGED <<object, active>>
<1>1. ASSUME DeletePod
      PROVE  object' # "on"
  BY <1>1 DEF DeletePod, Vanish
<1> QED
  BY <1>1 DEF Answer, Record, UnchangedPod

\* A goroutine that creates the pod of a process.
LEMMA RecreateKeepsBooks ==
    ASSUME TypeOK, Ordered, kind = "process", kind' = kind,
           NEW c \in Controllers, NEW at, NEW to, RecreatePod(c, at, to),
           UNCHANGED <<call, leadership>>
    PROVE  BookStep
<1> USE FaultCounts DEF TypeOK, BookStep
<1>1. faults' = 0 => faults = 0
  BY DEF RecreatePod
<1>2. CASE Answer(c, at, to)
  <2>1. object' # "on" \/ SetActive(c, TRUE) \/ UNCHANGED <<object, active>>
    BY <1>2, AnswerKeepsBooks DEF RecreatePod
  <2> QED
    BY <1>1, <2>1
<1>3. CASE term[c] = "stopping"
  BY <1>1, <1>3 DEF Ordered, StopEndsTerm
<1>4. CASE to = "failed" /\ UnchangedPod
  <2>1. UNCHANGED <<object, active>>
    BY <1>4 DEF RecreatePod, Record, UnchangedPod
  <2> QED
    BY <1>1, <2>1
<1>5. CASE faults' # 0
  BY <1>1, <1>5
<1> QED
  BY <1>2, <1>3, <1>4, <1>5 DEF RecreatePod

\* Of a process, Stop alone ends what it has on its books.
LEMMA ProcessKeepsBooks ==
    ASSUME TypeOK, Ordered, ProcessNext
    PROVE  BookStep
<1> USE FaultCounts DEF TypeOK, BookStep
<1>1. kind = "process" /\ kind' = kind
  BY KindStays DEF ProcessNext
<1>2. ASSUME NEW c \in Controllers, NEW who \in Callers, ProcessCall(c, who)
      PROVE  BookStep
  <2>1. CASE ProcessRequest(c, who)
    <3>1. PICK to \in Answers :
             /\ \/ NoFault /\ Answer(c, call[c][who], to)
                \/ Fault
             /\ Record(c, to)
             /\ IF to \in PodRequests THEN Goto(c, who, to) /\ UNCHANGED leadership
                ELSE StartReturns(c, who)
      BY <2>1, Zenon DEF ProcessRequest
    <3>2. faults' # 0 \/ (NoFault /\ Answer(c, call[c][who], to))
      BY <3>1
    <3>3. \/ faults' # 0
          \/ /\ UNCHANGED faults
             /\ object' # "on" \/ SetActive(c, TRUE) \/ UNCHANGED <<object, active>>
      BY <3>1, <3>2, AnswerKeepsBooks
    <3>4. \A d \in Controllers :
             call[d]["election"] \in Stopping => call'[d]["election"] \in Stopping
      <4>1. call[c][who] \in PodRequests
        BY <2>1, Zenon DEF ProcessRequest
      <4> QED
        BY <3>1, <4>1 DEF StartReturns, Stopping, PodRequests
    <3> QED
      BY <1>1, <3>3, <3>4
  <2>2. CASE Close(c, who)
    BY <1>1, <2>2 DEF Close, Stopping
  <2>3. CASE ProcessDelete(c, who)
    BY <1>1, <2>3 DEF ProcessDelete, DeletePod, Vanish
  <2>4. CASE ProcessWait(c, who)
    BY <1>1, <2>4 DEF ProcessWait, Vanish
  <2> QED
    BY <1>2, <2>1, <2>2, <2>3, <2>4 DEF ProcessCall
<1>3. ASSUME NEW c \in Controllers, ProcessWatch(c) \/ WatchBreaks(c)
      PROVE  BookStep
  <2>1. CASE WatchRequest(c)
    <3>1. PICK to \in Answers : RecreatePod(c, watcher[c], to)
      BY <2>1, Zenon DEF WatchRequest
    <3>2. UNCHANGED <<call, leadership>>
      BY <2>1 DEF WatchRequest
    <3> QED
      BY <1>1, <3>1, <3>2, RecreateKeepsBooks
  <2>2. CASE WatchEvent(c) \/ WatchBreaks(c) \/ WatchAgain(c)
    BY <1>1, <2>2 DEF WatchEvent, WatchBreaks, WatchAgain
  <2> QED
    BY <1>3, <2>1, <2>2 DEF ProcessWatch
<1>4. ASSUME NEW c \in Controllers,
             ProcessUpdate(c) \/ ProcessUnready(c) \/ UpdaterEnds(c)
      PROVE  BookStep
  <2>1. CASE UpdaterRequest(c)
    <3>1. PICK to \in Answers : RecreatePod(c, updater[c], to)
      BY <2>1, Zenon DEF UpdaterRequest
    <3>2. UNCHANGED <<call, leadership>>
      BY <2>1 DEF UpdaterRequest
    <3> QED
      BY <1>1, <3>1, <3>2, RecreateKeepsBooks
  <2>2. CASE ProcessCheck(c) \/ ProcessUnready(c) \/ UpdaterEnds(c)
    <3>1. UNCHANGED <<object, active, call>> /\ (faults' = 0 => faults = 0)
      BY <2>2 DEF ProcessCheck, CheckFails, ProcessUnready, UpdaterEnds
    <3> QED
      BY <1>1, <3>1
  <2> QED
    BY <1>4, <2>1, <2>2 DEF ProcessUpdate
<1>5. CASE PodEnds \/ PodGone
  BY <1>1, <1>5 DEF PodEnds, PodGone, Vanish
<1> QED
  BY <1>2, <1>3, <1>4, <1>5 DEF ProcessNext

\* A deployment or stateful set that runs is active with whom has scaled it.
LEMMA ServiceKeepsBooks ==
    ASSUME TypeOK, ServiceNext \/ PersistentNext
    PROVE  BookStep
<1> USE FaultCounts DEF TypeOK, BookStep
<1>1. kind # "process"
  BY DEF ServiceNext, PersistentNext
<1>2. ASSUME NEW c \in Controllers, NEW who \in Callers,
             ServiceCall(c, who) \/ PersistentCall(c, who)
      PROVE  BookStep
  <2> USE <1>1
  <2>1. CASE ServiceGet(c, who)
    BY <2>1 DEF ServiceGet
  <2>2. CASE ServiceWrite(c, who)
    BY <2>2 DEF ServiceWrite
  <2>3. CASE Close(c, who)
    BY <2>3 DEF Close
  <2>4. CASE ServiceScale(c, who)
    BY <2>4 DEF ServiceScale
  <2>5. CASE ServiceWait(c, who)
    BY <2>5 DEF ServiceWait
  <2>6. CASE PersistentEndpoints(c, who)
    BY <2>6 DEF PersistentEndpoints
  <2> QED
    BY <1>2, <2>1, <2>2, <2>3, <2>4, <2>5, <2>6
    DEF ServiceCall, PersistentCall, PersistentGet, PersistentWrite,
        PersistentScale, PersistentWait
<1>3. ASSUME NEW c \in Controllers,
             ServiceCheck(c) \/ PersistentCheck(c) \/ UpdaterEnds(c)
      PROVE  BookStep
  BY <1>1, <1>3 DEF ServiceCheck, CheckFails, PersistentCheck, UpdaterEnds
<1>4. CASE Meddle
  BY <1>1, <1>4 DEF Meddle
<1> QED
  BY <1>2, <1>3, <1>4 DEF ServiceNext, PersistentNext

\* The same of a cron job.
LEMMA CronJobKeepsBooks ==
    ASSUME TypeOK, CronJobNext
    PROVE  BookStep
<1> USE FaultCounts DEF TypeOK, BookStep
<1>1. kind # "process"
  BY DEF CronJobNext
<1>2. ASSUME NEW c \in Controllers, NEW who \in Callers, CronJobCall(c, who)
      PROVE  BookStep
  <2> USE <1>1
  <2>1. CASE CronJobGet(c, who)
    BY <2>1 DEF CronJobGet
  <2>2. CASE CronJobResume(c, who)
    BY <2>2 DEF CronJobResume
  <2>3. CASE Close(c, who)
    BY <2>3 DEF Close
  <2>4. CASE CronJobSuspend(c, who)
    BY <2>4 DEF CronJobSuspend
  <2>5. CASE CronJobCreateSuspended(c, who)
    BY <2>5 DEF CronJobCreateSuspended
  <2>6. CASE CronJobWait(c, who)
    BY <2>6 DEF CronJobWait
  <2> QED
    BY <1>2, <2>1, <2>2, <2>3, <2>4, <2>5, <2>6 DEF CronJobCall
<1>3. ASSUME NEW c \in Controllers, CronJobCheck(c) \/ UpdaterEnds(c)
      PROVE  BookStep
  BY <1>1, <1>3 DEF CronJobCheck, CheckFails, UpdaterEnds
<1>4. CASE CronJobMeddle
  BY <1>1, <1>4 DEF CronJobMeddle
<1> QED
  BY <1>2, <1>3, <1>4 DEF CronJobNext

\* The callers touch neither the cluster nor what others have on their books.
LEMMA CallerKeepsBooks ==
    ASSUME TypeOK, NEW c \in Controllers, CallerNext(c)
    PROVE  BookStep
<1> USE FaultCounts DEF TypeOK, BookStep, Stopping
<1>1. CASE ElectionStart(c)
  BY <1>1 DEF ElectionStart, StartManager
<1>2. CASE ElectionStop(c)
  BY <1>2 DEF ElectionStop
<1>3. CASE ElectionReport(c)
  BY <1>3 DEF ElectionReport
<1>4. CASE MonitorTick(c)
  BY <1>4 DEF MonitorTick
<1>5. CASE Crash(c)
  BY <1>5 DEF Crash
<1>6. CASE \E who \in Callers : EnterFailed(c, who)
  BY <1>6 DEF EnterFailed
<1>7. CASE \E r \in Retriers : RetryStart(c, r) \/ ForgetFailed(c, r)
  <2>1. PICK r \in Retriers : RetryStart(c, r) \/ ForgetFailed(c, r)
    BY <1>7
  <2>2. UNCHANGED <<kind, object, active>> /\ (faults' # 0 \/ UNCHANGED faults)
    BY <2>1 DEF RetryStart, StartManager, ForgetFailed
  <2>3. \A d \in Controllers : call'[d]["election"] = call[d]["election"]
    BY <2>1 DEF RetryStart, StartManager, ForgetFailed
  <2> QED
    BY <2>2, <2>3
<1> QED
  BY <1>1, <1>2, <1>3, <1>4, <1>5, <1>6, <1>7 DEF CallerNext

-----------------------------------------------------------------------------
(* The invariant                                                           *)

\* The invariant holds initially.
LEMMA InitInvariant ==
    ASSUME Init
    PROVE  IInv
<1> USE DEF Init
<1>1. LeadershipTypeOK
  BY DEF LeadershipInit, LeadershipTypeOK, Terms
<1>2. object \in Objects
  BY DEF Objects
<1>3. call \in [Controllers -> [Callers -> Labels]]
  BY DEF StartLabel, Labels
<1>4. faults \in 0..MaxFaults /\ restarts \in 0..MaxFaults
  OBVIOUS
<1>5. TypeOK
  BY <1>1, <1>2, <1>3, <1>4 DEF TypeOK, WatcherPC, UpdaterPC
<1>6. Ordered
  BY DEF Ordered, ClosedByStop, StopEndsTerm, StartLabel, LeadershipInit, Stopping
<1>7. AllAttended
  BY DEF AllAttended, Attended
<1>8. ServiceFirst
  BY DEF ServiceFirst, StartLabel
<1>9. OnTheBooks
  BY DEF OnTheBooks
<1> QED
  BY <1>5, <1>6, <1>7, <1>8, <1>9 DEF IInv

\* Every step keeps the invariant.
LEMMA NextKeeps ==
    ASSUME IInv, [Next]_vars
    PROVE  IInv'
<1>1. TypeOK /\ Ordered /\ AllAttended /\ ServiceFirst /\ OnTheBooks
  BY DEF IInv
<1>2. TypeOK'
  BY <1>1, NextTypes
<1>3. ASSUME NEW c \in Controllers, NEW who \in Callers,
             \/ ProcessCall(c, who) \/ ServiceCall(c, who)
             \/ PersistentCall(c, who) \/ CronJobCall(c, who)
      PROVE  Ordered' /\ AllAttended'
  BY <1>1, <1>3, ProcessCallSteps, ServiceCallSteps, CronJobCallSteps,
     CallKeepsOrder, CallKeepsAttended
<1>4. ASSUME NEW c \in Controllers,
             \/ ProcessWatch(c) \/ WatchBreaks(c)
             \/ ProcessUpdate(c) \/ ProcessUnready(c)
             \/ ServiceCheck(c) \/ PersistentCheck(c) \/ CronJobCheck(c)
             \/ UpdaterEnds(c)
      PROVE  Ordered' /\ AllAttended'
  <2>1. GoroutineStep(c)
    BY <1>4, GoroutineSteps
  <2>2. UNCHANGED <<leadership, call, closed>>
    BY <2>1 DEF GoroutineStep, UpdaterEnds
  <2> QED
    BY <1>1, <2>1, <2>2, OthersKeepOrder, GoroutineKeepsAttended
<1>5. Ordered' /\ AllAttended'
  <2>1. CASE UNCHANGED vars
    BY <1>1, <2>1
    DEF vars, Ordered, ClosedByStop, StopEndsTerm, AllAttended, Attended
  <2>2. CASE \E c \in Controllers : CallerNext(c)
    BY <1>1, <2>2, CallerKeeps
  <2>3. CASE ProcessNext \/ ServiceNext \/ PersistentNext \/ CronJobNext
    BY <1>1, <1>3, <1>4, <2>3, ClusterKeeps
    DEF ProcessNext, ServiceNext, PersistentNext, CronJobNext
  <2> QED
    BY <2>1, <2>2, <2>3 DEF Next
<1>6. ServiceFirst'
  <2>1. CASE UNCHANGED vars
    BY <1>1, <2>1 DEF vars, ServiceFirst
  <2>2. CASE \E c \in Controllers : CallerNext(c)
    BY <1>1, <2>2, CallerKeepsServiceFirst
  <2>3. CASE ProcessNext \/ ServiceNext \/ CronJobNext
    <3>1. kind # "persistent"
      BY <2>3 DEF ProcessNext, ServiceNext, CronJobNext
    <3>2. kind' = kind
      BY <2>3, KindStays
    <3> QED
      BY <3>1, <3>2 DEF ServiceFirst
  <2>4. CASE PersistentNext
    BY <1>1, <2>4, PersistentKeepsServiceFirst
  <2> QED
    BY <2>1, <2>2, <2>3, <2>4 DEF Next
<1>7. OnTheBooks'
  <2>1. CASE UNCHANGED vars
    BY <1>1, <2>1 DEF vars, OnTheBooks
  <2> QED
    BY <1>1, <2>1, BooksKept, ProcessKeepsBooks, ServiceKeepsBooks,
       CronJobKeepsBooks, CallerKeepsBooks
    DEF Next
<1> QED
  BY <1>2, <1>5, <1>6, <1>7 DEF IInv

\* The inductive invariant.
THEOREM Invariant == Spec => []IInv
<1>1. Init => IInv
  BY InitInvariant
<1>2. IInv /\ [Next]_vars => IInv'
  BY NextKeeps
<1> QED
  BY <1>1, <1>2, PTL DEF Spec

-----------------------------------------------------------------------------
(* Theorems                                                                *)

\* Every variable has its type: a caller of Start or Stop is where the code
\* can be, and an object is in a state its kind knows.
THEOREM TypeCorrect == Spec => []TypeOK
<1>1. IInv => TypeOK
  BY DEF IInv
<1> QED
  BY <1>1, Invariant, PTL

\* A workload that is active, that not only a retry has started and that has
\* not been stopped is one that somebody looks after, however its Starts,
\* Stops, restarts, retries and failures interleave (the goroutines of Start,
\* in process.go, service.go, persistent.go and cronjob.go; manager.go,
\* retryFailedWorkloads).
THEOREM Monitored == Spec => []MonitoredUntilStopped
<1>1. IInv => MonitoredUntilStopped
  BY DEF IInv, AllAttended, Attended, MonitoredUntilStopped
<1> QED
  BY <1>1, Invariant, PTL

\* Stop leaves nothing running that nobody knows of, as long as nothing has
\* failed (Stop and the goroutines of Start, in the four kinds).
THEOREM NothingForgotten == Spec => []Accounted
<1>1. IInv => Accounted
  BY DEF IInv, TypeOK, OnTheBooks, Accounted, Busy, Stopping
<1> QED
  BY <1>1, Invariant, PTL

\* The replicas of a stateful set have their headless service (Start in
\* persistent.go), whoever has started it and whatever has failed.
THEOREM EndpointsComeFirst == Spec => []EndpointsFirst
<1>1. IInv => EndpointsFirst
  BY DEF IInv, ServiceFirst, EndpointsFirst
<1> QED
  BY <1>1, Invariant, PTL

=============================================================================
