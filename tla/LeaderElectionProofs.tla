------------------------ MODULE LeaderElectionProofs ------------------------
(***************************************************************************)
(* Type correctness and the safety of the leader election, for any set of  *)
(* controllers, any threshold and any number of faults.                    *)
(*                                                                         *)
(* The inductive invariant has two parts: TypeOK, and Own(c) for each      *)
(* controller c.  An action of c keeps Own(c), the action of any other     *)
(* controller changes none of c's variables and takes no lock from c, and  *)
(* so keeps it too; each of the two is a lemma about one goroutine.        *)
(***************************************************************************)
EXTENDS LeaderElection, TLAPS

\* Who holds the mutex is where its program counter says it does.
MutexDiscipline(c) ==
    /\ mutex[c] = "loop" <=> loop[c] \notin {"idle", "lock", "ended"}
    /\ mutex[c] = "monitor" <=> monitor[c] = "stopping"
    /\ mutex[c] = "health" <=> health[c] = "stopping"
    /\ mutex[c] = "stop" <=> stop[c] \in {"release", "stopping"}

\* Whoever ends the leadership is about to stop the workloads, and whoever
\* wins it has announced it.
Follows(c) ==
    /\ boot[c] = "done"
    /\ loop[c] = "start" => leader[c]
    /\ loop[c] \in {"read", "acquire", "won"} => ~leader[c]
    /\ loop[c] \in {"won", "start"} => Reports(c)
    /\ loop[c] = "stopping" => ~leader[c]
    /\ monitor[c] = "stopping" => ~leader[c]
    /\ workloads[c] = "loop" =>
          leader[c] \/ loop[c] = "stopping" \/ monitor[c] = "stopping"
    /\ leader[c] => ctx[c] = "live"

\* A leader holds the lock, or whoever released it is about to end the
\* leadership.
HoldsLock(c) ==
    /\ loop[c] = "won" => lock = c
    /\ leader[c] => lock = c \/ health[c] = "stopping" \/ stop[c] = "stopping"

Own(c) ==
    /\ MutexDiscipline(c)
    /\ c \notin Booting => Follows(c) /\ (c \notin Expiring => HoldsLock(c))

IInv == TypeOK /\ \A c \in Controllers : Own(c)

\* The assumptions, and the abbreviations that every action is written in.
USE ControllersAssumption, ReentrantAssumption, BoundsAssumption
    DEF flags, procs, Goto, Lock, Unlock, Report, SetLeader, StopWorkloads,
        NoFault

-----------------------------------------------------------------------------
(* The types that the storage calls return                                 *)

LEMMA NoteType ==
    ASSUME TypeOK, NEW c \in Controllers, NoteFailure(c) \/ NoteSuccess(c)
    PROVE  /\ failures' \in [Controllers -> 0..MaxDBFailures]
           /\ degraded' \in [Controllers -> BOOLEAN]
<1>1. CASE NoteFailure(c)
  <2>1. ASSUME NEW d \in Controllers PROVE failures'[d] \in 0..MaxDBFailures
    BY <1>1 DEF TypeOK, NoteFailure
  <2> QED
    BY <1>1, <2>1 DEF TypeOK, NoteFailure
<1>2. CASE NoteSuccess(c)
  BY <1>2 DEF TypeOK, NoteSuccess
<1> QED
  BY <1>1, <1>2

LEMMA FaultType ==
    ASSUME TypeOK, Fault \/ NoFault
    PROVE  faults' \in 0..MaxFaults
  BY DEF TypeOK, Fault

LEMMA ReadLeaderType ==
    ASSUME TypeOK, NEW c \in Controllers, ReadLeader(c)
    PROVE  /\ failures' \in [Controllers -> 0..MaxDBFailures]
           /\ degraded' \in [Controllers -> BOOLEAN]
           /\ faults' \in 0..MaxFaults
<1>1. CASE NoFault /\ UNCHANGED <<failures, degraded>>
  BY <1>1 DEF TypeOK
<1>2. CASE Fault /\ NoteFailure(c)
  BY <1>2, NoteType, FaultType
<1> QED
  BY <1>1, <1>2 DEF ReadLeader

LEMMA RenewFailsType ==
    ASSUME TypeOK, NEW c \in Controllers, RenewFails(c)
    PROVE  /\ failures' \in [Controllers -> 0..MaxDBFailures]
           /\ degraded' \in [Controllers -> BOOLEAN]
           /\ faults' \in 0..MaxFaults
           /\ mutex' \in [Controllers -> {"free", "loop", "monitor", "health", "stop"}]
           /\ loop' \in [Controllers -> LoopPC]
<1>1. faults' \in 0..MaxFaults
  BY FaultType DEF RenewFails
<1>2. /\ failures' \in [Controllers -> 0..MaxDBFailures]
      /\ degraded' \in [Controllers -> BOOLEAN]
  BY NoteType DEF RenewFails, TypeOK
<1>3. /\ mutex' \in [Controllers -> {"free", "loop", "monitor", "health", "stop"}]
      /\ loop' \in [Controllers -> LoopPC]
  BY DEF RenewFails, TypeOK, LoopPC
<1> QED
  BY <1>1, <1>2, <1>3

LEMMA AcquireType ==
    ASSUME TypeOK, NEW c \in Controllers, Acquired(c) \/ NotAcquired(c)
    PROVE  /\ lock' \in Controllers \union {NoLeader}
           /\ reported' \in [Controllers -> BOOLEAN]
           /\ failures' \in [Controllers -> 0..MaxDBFailures]
           /\ degraded' \in [Controllers -> BOOLEAN]
           /\ faults' \in 0..MaxFaults
<1>1. faults' \in 0..MaxFaults
  BY FaultType DEF Acquired, NotAcquired
<1>2. /\ failures' \in [Controllers -> 0..MaxDBFailures]
      /\ degraded' \in [Controllers -> BOOLEAN]
  BY NoteType DEF Acquired, NotAcquired, TypeOK
<1>3. /\ lock' \in Controllers \union {NoLeader}
      /\ reported' \in [Controllers -> BOOLEAN]
  BY DEF Acquired, NotAcquired, TypeOK
<1> QED
  BY <1>1, <1>2, <1>3

LEMMA ReleaseType ==
    ASSUME TypeOK, NEW c \in Controllers, ReleaseLeadership(c)
    PROVE  /\ lock' \in Controllers \union {NoLeader}
           /\ reported' \in [Controllers -> BOOLEAN]
           /\ faults' \in 0..MaxFaults
<1>1. faults' \in 0..MaxFaults
  BY FaultType DEF ReleaseLeadership
<1> QED
  BY <1>1 DEF ReleaseLeadership, TypeOK

-----------------------------------------------------------------------------
(* Type correctness, goroutine by goroutine                                *)

LEMMA InitType == Init => TypeOK
  BY DEF Init, TypeOK, LoopPC, MonitorPC, HealthPC, RestartPC, BootPC, StopPC

LEMMA LoopType ==
    ASSUME TypeOK, NEW c \in Controllers, LoopNext(c)
    PROVE  TypeOK'
<1> USE DEF LoopPC
<1>1. CASE LoopTick(c) \/ LoopEnds(c)
  BY <1>1 DEF TypeOK, LoopTick, LoopEnds
<1>2. CASE LoopLock(c)
  BY <1>2 DEF TypeOK, LoopLock
<1>3. CASE LoopCheck(c)
  <2>1. CASE RenewFails(c)
    BY <1>3, <2>1, RenewFailsType DEF TypeOK, LoopCheck
  <2>2. CASE NoFault /\ NoteSuccess(c)
    <3>1. /\ mutex' \in [Controllers -> {"free", "loop", "monitor", "health", "stop"}]
          /\ loop' \in [Controllers -> LoopPC]
      BY <1>3, <2>2, <2>1 DEF TypeOK, LoopCheck
    <3> QED
      BY <1>3, <2>2, <3>1, NoteType DEF TypeOK, LoopCheck
  <2> QED
    BY <1>3, <2>1, <2>2 DEF LoopCheck
<1>4. CASE LoopRenew(c)
  <2>1. CASE RenewFails(c)
    BY <1>4, <2>1, RenewFailsType DEF TypeOK, LoopRenew
  <2>2. CASE NoFault /\ NoteSuccess(c)
    <3>1. /\ mutex' \in [Controllers -> {"free", "loop", "monitor", "health", "stop"}]
          /\ loop' \in [Controllers -> LoopPC]
      BY <1>4, <2>2, <2>1 DEF TypeOK, LoopRenew
    <3> QED
      BY <1>4, <2>2, <3>1, NoteType DEF TypeOK, LoopRenew
  <2> QED
    BY <1>4, <2>1, <2>2 DEF LoopRenew
<1>5. CASE LoopRead(c)
  BY <1>5, ReadLeaderType DEF TypeOK, LoopRead
<1>6. CASE LoopAcquire(c)
  <2>1. Acquired(c) \/ NotAcquired(c)
    BY <1>6 DEF LoopAcquire
  <2>2. /\ mutex' \in [Controllers -> {"free", "loop", "monitor", "health", "stop"}]
        /\ loop' \in [Controllers -> LoopPC]
    BY <1>6 DEF TypeOK, LoopAcquire
  <2> QED
    BY <1>6, <2>1, <2>2, AcquireType DEF TypeOK, LoopAcquire
<1>7. CASE LoopReacquire(c)
  <2>1. Acquired(c) \/ NotAcquired(c)
    BY <1>7 DEF LoopReacquire
  <2>2. /\ mutex' \in [Controllers -> {"free", "loop", "monitor", "health", "stop"}]
        /\ loop' \in [Controllers -> LoopPC]
    BY <1>7 DEF TypeOK, LoopReacquire
  <2> QED
    BY <1>7, <2>1, <2>2, AcquireType DEF TypeOK, LoopReacquire
<1>8. CASE LoopWon(c)
  BY <1>8 DEF TypeOK, LoopWon
<1>9. CASE LoopStart(c)
  BY <1>9 DEF TypeOK, LoopStart, StartWorkloads
<1>10. CASE LoopLose(c)
  BY <1>10, FaultType DEF TypeOK, LoopLose
<1>11. CASE LoopStopWorkloads(c)
  BY <1>11 DEF TypeOK, LoopStopWorkloads
<1> QED
  BY <1>1, <1>2, <1>3, <1>4, <1>5, <1>6, <1>7, <1>8, <1>9, <1>10, <1>11 DEF LoopNext, LoopStep

LEMMA MonitorType ==
    ASSUME TypeOK, NEW c \in Controllers, MonitorNext(c)
    PROVE  TypeOK'
<1> USE DEF MonitorPC
<1>1. CASE MonitorTick(c)
  BY <1>1 DEF TypeOK, MonitorTick
<1>2. CASE MonitorLock(c)
  BY <1>2 DEF TypeOK, MonitorLock
<1>3. CASE MonitorPass(c)
  BY <1>3 DEF TypeOK, MonitorPass
<1>4. CASE MonitorStopWorkloads(c)
  BY <1>4 DEF TypeOK, MonitorStopWorkloads
<1> QED
  BY <1>1, <1>2, <1>3, <1>4 DEF MonitorNext

LEMMA HealthType ==
    ASSUME TypeOK, NEW c \in Controllers, HealthNext(c)
    PROVE  TypeOK'
<1> USE DEF HealthPC
<1>1. CASE HealthTick(c)
  BY <1>1 DEF TypeOK, HealthTick
<1>2. CASE HealthRelease(c)
  BY <1>2, ReleaseType DEF TypeOK, HealthRelease
<1>3. CASE HealthStopWorkloads(c)
  BY <1>3 DEF TypeOK, HealthStopWorkloads
<1> QED
  BY <1>1, <1>2, <1>3 DEF HealthNext

LEMMA RestartType ==
    ASSUME TypeOK, NEW c \in Controllers, RestartNext(c)
    PROVE  TypeOK'
<1> USE DEF RestartPC
<1>1. CASE RestartTick(c)
  BY <1>1 DEF TypeOK, RestartTick
<1>2. CASE RestartStop(c)
  BY <1>2 DEF TypeOK, RestartStop
<1>3. CASE RestartStart(c)
  BY <1>3 DEF TypeOK, RestartStart, StartWorkloads
<1> QED
  BY <1>1, <1>2, <1>3 DEF RestartNext

LEMMA BootType ==
    ASSUME TypeOK, NEW c \in Controllers, BootStep(c)
    PROVE  TypeOK'
<1> USE DEF BootPC
<1>1. CASE BootInit(c)
  BY <1>1 DEF TypeOK, BootInit, StartWorkloads
<1>2. CASE BootRead(c)
  BY <1>2, ReadLeaderType DEF TypeOK, BootRead
<1>3. CASE BootAcquire(c)
  BY <1>3, AcquireType DEF TypeOK, BootAcquire
<1>4. CASE BootWon(c)
  BY <1>4 DEF TypeOK, BootWon
<1>5. CASE BootStart(c)
  BY <1>5 DEF TypeOK, BootStart
<1>6. CASE BootStarting(c)
  BY <1>6 DEF TypeOK, BootStarting, StartWorkloads
<1>7. CASE BootRelease(c)
  BY <1>7, ReleaseType DEF TypeOK, BootRelease
<1>8. CASE BootUnset(c)
  BY <1>8 DEF TypeOK, BootUnset
<1> QED
  BY <1>1, <1>2, <1>3, <1>4, <1>5, <1>6, <1>7, <1>8 DEF BootStep

LEMMA StopType ==
    ASSUME TypeOK, NEW c \in Controllers, StopNext(c)
    PROVE  TypeOK'
<1> USE DEF StopPC
<1>1. CASE StopCall(c)
  BY <1>1 DEF TypeOK, StopCall
<1>2. CASE StopLock(c)
  BY <1>2 DEF TypeOK, StopLock
<1>3. CASE StopRelease(c)
  BY <1>3, ReleaseType DEF TypeOK, StopRelease
<1>4. CASE StopWorkloadsAndCleanup(c)
  BY <1>4 DEF TypeOK, StopWorkloadsAndCleanup
<1> QED
  BY <1>1, <1>2, <1>3, <1>4 DEF StopNext

LEMMA CrashType ==
    ASSUME TypeOK, NEW c \in Controllers, Crash(c)
    PROVE  TypeOK'
  BY FaultType DEF TypeOK, Crash, LoopPC, MonitorPC, HealthPC, RestartPC, BootPC, StopPC

LEMMA ExpireType == TypeOK /\ Expire => TypeOK'
  BY DEF TypeOK, Expire

LEMMA NextType == TypeOK /\ [Next]_vars => TypeOK'
<1>1. CASE UNCHANGED vars
  BY <1>1 DEF vars, TypeOK
<1> QED
  BY <1>1, LoopType, MonitorType, HealthType, RestartType, BootType, StopType,
     CrashType, ExpireType DEF Next

\* Every variable keeps its type.
THEOREM TypeCorrect == Spec => []TypeOK
  BY InitType, NextType, PTL DEF Spec

-----------------------------------------------------------------------------
(* What an action of c does to Own(c) and to Own(d)                        *)

LEMMA InitOwn == Init => \A c \in Controllers : Own(c)
<1> SUFFICES ASSUME Init, NEW c \in Controllers PROVE Own(c)
  OBVIOUS
<1>1. MutexDiscipline(c)
  BY DEF Init, MutexDiscipline
<1>2. ASSUME c \notin Booting PROVE Follows(c) /\ HoldsLock(c)
  BY <1>2 DEF Init, Follows, HoldsLock
<1> QED
  BY <1>1, <1>2 DEF Own

\* No storage call of c takes the lock from d.
LEMMA LockStays ==
    ASSUME NEW c \in Controllers, NEW d \in Controllers \ {c},
           Acquired(c) \/ NotAcquired(c) \/ ReleaseLeadership(c),
           lock = d
    PROVE  lock' = d
  BY DEF Acquired, NotAcquired, ReleaseLeadership, CanAcquire

LEMMA LoopOwn ==
    ASSUME TypeOK, NEW c \in Controllers, NEW d \in Controllers, Own(d), LoopNext(c)
    PROVE  Own(d)'
<1> USE DEF TypeOK, Own, MutexDiscipline, Follows, HoldsLock, Reports
<1>1. CASE LoopTick(c) \/ LoopEnds(c)
  BY <1>1 DEF LoopTick, LoopEnds
<1>2. CASE LoopLock(c)
  BY <1>2 DEF LoopLock
<1>3. CASE LoopCheck(c)
  BY <1>3 DEF LoopCheck, RenewFails, NoteSuccess, NoteFailure
<1>4. CASE LoopRenew(c)
  BY <1>4 DEF LoopRenew, RenewFails, NoteSuccess, NoteFailure
<1>5. CASE LoopRead(c)
  BY <1>5 DEF LoopRead, ReadLeader, NoteFailure
<1>6. CASE LoopAcquire(c)
  <2>1. CASE d = c
    BY <1>6, <2>1 DEF LoopAcquire, Acquired, NotAcquired, CanAcquire, NoteSuccess
  <2>2. CASE d # c
    BY <1>6, <2>2, LockStays DEF LoopAcquire, Acquired, NotAcquired, NoteSuccess
  <2> QED
    BY <2>1, <2>2
<1>7. CASE LoopReacquire(c)
  <2>1. CASE d = c
    BY <1>7, <2>1 DEF LoopReacquire, Acquired, NotAcquired, CanAcquire, NoteSuccess
  <2>2. CASE d # c
    BY <1>7, <2>2, LockStays DEF LoopReacquire, Acquired, NotAcquired, NoteSuccess
  <2> QED
    BY <2>1, <2>2
<1>8. CASE LoopWon(c)
  BY <1>8 DEF LoopWon
<1>9. CASE LoopStart(c)
  BY <1>9 DEF LoopStart, StartWorkloads
<1>10. CASE LoopLose(c)
  BY <1>10 DEF LoopLose
<1>11. CASE LoopStopWorkloads(c)
  BY <1>11 DEF LoopStopWorkloads
<1> QED
  BY <1>1, <1>2, <1>3, <1>4, <1>5, <1>6, <1>7, <1>8, <1>9, <1>10, <1>11 DEF LoopNext, LoopStep

LEMMA MonitorOwn ==
    ASSUME TypeOK, NEW c \in Controllers, NEW d \in Controllers, Own(d), MonitorNext(c)
    PROVE  Own(d)'
<1> USE DEF TypeOK, Own, MutexDiscipline, Follows, HoldsLock, Reports
<1>1. CASE MonitorTick(c)
  BY <1>1 DEF MonitorTick
<1>2. CASE MonitorLock(c)
  BY <1>2 DEF MonitorLock
<1>3. CASE MonitorPass(c)
  BY <1>3 DEF MonitorPass
<1>4. CASE MonitorStopWorkloads(c)
  BY <1>4 DEF MonitorStopWorkloads
<1> QED
  BY <1>1, <1>2, <1>3, <1>4 DEF MonitorNext

LEMMA HealthOwn ==
    ASSUME TypeOK, NEW c \in Controllers, NEW d \in Controllers, Own(d), HealthNext(c)
    PROVE  Own(d)'
<1> USE DEF TypeOK, Own, MutexDiscipline, Follows, HoldsLock, Reports
<1>1. CASE HealthTick(c)
  BY <1>1 DEF HealthTick
<1>2. CASE HealthRelease(c)
  <2>1. CASE d = c
    BY <1>2, <2>1 DEF HealthRelease, ReleaseLeadership, CanAcquire
  <2>2. CASE d # c
    BY <1>2, <2>2, LockStays DEF HealthRelease, ReleaseLeadership
  <2> QED
    BY <2>1, <2>2
<1>3. CASE HealthStopWorkloads(c)
  BY <1>3 DEF HealthStopWorkloads
<1> QED
  BY <1>1, <1>2, <1>3 DEF HealthNext

LEMMA RestartOwn ==
    ASSUME TypeOK, NEW c \in Controllers, NEW d \in Controllers, Own(d), RestartNext(c)
    PROVE  Own(d)'
<1> USE DEF TypeOK, Own, MutexDiscipline, Follows, HoldsLock, Reports
<1>1. CASE RestartTick(c)
  BY <1>1 DEF RestartTick
<1>2. CASE RestartStop(c)
  BY <1>2 DEF RestartStop
<1>3. CASE RestartStart(c)
  BY <1>3 DEF RestartStart, StartWorkloads
<1> QED
  BY <1>1, <1>2, <1>3 DEF RestartNext

LEMMA BootOwn ==
    ASSUME TypeOK, NEW c \in Controllers, NEW d \in Controllers, Own(d), BootStep(c)
    PROVE  Own(d)'
<1> USE DEF TypeOK, Own, MutexDiscipline, Follows, HoldsLock, Reports
<1>1. CASE BootInit(c)
  BY <1>1 DEF BootInit, StartWorkloads
<1>2. CASE BootRead(c)
  BY <1>2 DEF BootRead, ReadLeader, NoteFailure
<1>3. CASE BootAcquire(c)
  <2>1. CASE d = c
    BY <1>3, <2>1 DEF BootAcquire, Acquired, NotAcquired, CanAcquire, NoteSuccess
  <2>2. CASE d # c
    BY <1>3, <2>2, LockStays DEF BootAcquire, Acquired, NotAcquired, NoteSuccess
  <2> QED
    BY <2>1, <2>2
<1>4. CASE BootWon(c)
  BY <1>4 DEF BootWon
<1>5. CASE BootStart(c)
  BY <1>5 DEF BootStart
<1>6. CASE BootStarting(c)
  BY <1>6 DEF BootStarting, StartWorkloads
<1>7. CASE BootRelease(c)
  <2>1. CASE d = c
    BY <1>7, <2>1 DEF BootRelease, ReleaseLeadership, CanAcquire
  <2>2. CASE d # c
    BY <1>7, <2>2, LockStays DEF BootRelease, ReleaseLeadership
  <2> QED
    BY <2>1, <2>2
<1>8. CASE BootUnset(c)
  BY <1>8 DEF BootUnset
<1> QED
  BY <1>1, <1>2, <1>3, <1>4, <1>5, <1>6, <1>7, <1>8 DEF BootStep

LEMMA StopOwn ==
    ASSUME TypeOK, NEW c \in Controllers, NEW d \in Controllers, Own(d), StopNext(c)
    PROVE  Own(d)'
<1> USE DEF TypeOK, Own, MutexDiscipline, Follows, HoldsLock, Reports
<1>1. CASE StopCall(c)
  BY <1>1 DEF StopCall
<1>2. CASE StopLock(c)
  BY <1>2 DEF StopLock
<1>3. CASE StopRelease(c)
  <2>1. CASE d = c
    BY <1>3, <2>1 DEF StopRelease, ReleaseLeadership, CanAcquire
  <2>2. CASE d # c
    BY <1>3, <2>2, LockStays DEF StopRelease, ReleaseLeadership
  <2> QED
    BY <2>1, <2>2
<1>4. CASE StopWorkloadsAndCleanup(c)
  BY <1>4 DEF StopWorkloadsAndCleanup
<1> QED
  BY <1>1, <1>2, <1>3, <1>4 DEF StopNext

LEMMA CrashOwn ==
    ASSUME TypeOK, NEW c \in Controllers, NEW d \in Controllers, Own(d), Crash(c)
    PROVE  Own(d)'
  BY DEF TypeOK, Own, MutexDiscipline, Follows, HoldsLock, Reports, Crash

LEMMA ExpireOwn ==
    ASSUME TypeOK, NEW d \in Controllers, Own(d), Expire
    PROVE  Own(d)'
  BY DEF TypeOK, Own, MutexDiscipline, Follows, HoldsLock, Reports, Expire, Abandoned

LEMMA NextIInv == IInv /\ [Next]_vars => IInv'
<1> SUFFICES ASSUME IInv, [Next]_vars PROVE IInv'
  OBVIOUS
<1>1. TypeOK'
  BY NextType DEF IInv
<1>2. ASSUME NEW d \in Controllers PROVE Own(d)'
  <2>1. TypeOK /\ Own(d)
    BY DEF IInv
  <2>2. CASE UNCHANGED vars
    BY <2>1, <2>2 DEF vars, Own, MutexDiscipline, Follows, HoldsLock, Reports
  <2>3. CASE Expire
    BY <2>1, <2>3, ExpireOwn
  <2>4. ASSUME NEW c \in Controllers,
               \/ LoopNext(c) \/ MonitorNext(c) \/ HealthNext(c)
               \/ RestartNext(c) \/ BootStep(c) \/ StopNext(c) \/ Crash(c)
        PROVE  Own(d)'
    BY <2>1, <2>4, LoopOwn, MonitorOwn, HealthOwn, RestartOwn, BootOwn,
       StopOwn, CrashOwn
  <2> QED
    BY <2>2, <2>3, <2>4 DEF Next
<1> QED
  BY <1>1, <1>2 DEF IInv

\* The inductive invariant.
THEOREM Invariance == Spec => []IInv
<1>1. Init => IInv
  BY InitType, InitOwn DEF IInv
<1> QED
  BY <1>1, NextIInv, PTL DEF Spec

-----------------------------------------------------------------------------

\* The workloads that the loop started run only while the controller leads.
THEOREM WorkloadsFollow == Spec => []LoopWorkloadsFollowLeadership
<1>1. IInv => LoopWorkloadsFollowLeadership
  BY DEF IInv, Own, MutexDiscipline, Follows, LoopWorkloadsFollowLeadership
<1> QED
  BY <1>1, Invariance, PTL

\* A leader's workload context is live.
THEOREM LiveContext == Spec => []LeaderHasLiveContext
<1>1. IInv => LeaderHasLiveContext
  BY DEF IInv, Own, Follows, LeaderHasLiveContext
<1> QED
  BY <1>1, Invariance, PTL

\* A leader holds the lock, unless that may expire while the controller leads.
THEOREM LeadersHoldTheLock == Spec => []LeaderHoldsLock
<1>1. IInv => LeaderHoldsLock
  BY DEF IInv, Own, MutexDiscipline, HoldsLock, LeaderHoldsLock
<1> QED
  BY <1>1, Invariance, PTL

\* Where no lock expires while its holder leads, there is one leader at most:
\* that abandoned ones expire does no harm.
THEOREM OneLeader ==
    ASSUME Booting = {}, Expiring = {}
    PROVE  Spec => [](\A c, d \in Controllers :
                        /\ leader[c] /\ mutex[c] = "free"
                        /\ leader[d] /\ mutex[d] = "free"
                        => c = d)
<1>1. LeaderHoldsLock =>
         \A c, d \in Controllers :
            /\ leader[c] /\ mutex[c] = "free"
            /\ leader[d] /\ mutex[d] = "free"
            => c = d
  BY DEF LeaderHoldsLock
<1> QED
  BY <1>1, LeadersHoldTheLock, PTL

-----------------------------------------------------------------------------
(* A controller that has retired                                           *)

\* What of a retired controller stays as it is, and the lock: nobody acquires
\* it but for himself.
Resting(c) == Retired(c)' /\ (lock # c => lock' # c)

\* Nobody else does anything to a controller.
LEMMA OthersRest ==
    ASSUME TypeOK, NEW c \in Controllers, Retired(c), NEW d \in Controllers \ {c},
           \/ LoopNext(d) \/ MonitorNext(d) \/ HealthNext(d)
           \/ RestartNext(d) \/ BootStep(d) \/ StopNext(d) \/ Crash(d)
    PROVE  Resting(c)
<1> USE DEF TypeOK, Retired, Resting
<1>1. CASE LoopNext(d)
  BY <1>1 DEF LoopNext, LoopTick, LoopEnds, LoopLock, LoopStep, LoopCheck, LoopRenew, RenewFails,
     LoopRead, LoopAcquire, LoopReacquire, LoopWon, LoopStart, LoopLose,
     LoopStopWorkloads, Acquired, NotAcquired, StartWorkloads
<1>2. CASE MonitorNext(d)
  BY <1>2 DEF MonitorNext, MonitorTick, MonitorLock, MonitorPass, MonitorStopWorkloads
<1>3. CASE HealthNext(d)
  BY <1>3 DEF HealthNext, HealthTick, HealthRelease, HealthStopWorkloads, ReleaseLeadership
<1>4. CASE RestartNext(d)
  BY <1>4 DEF RestartNext, RestartTick, RestartStop, RestartStart, StartWorkloads
<1>5. CASE BootStep(d)
  BY <1>5 DEF BootStep, BootInit, BootRead, BootAcquire, BootWon, BootStart,
     BootStarting, BootRelease, BootUnset, Acquired, NotAcquired, ReleaseLeadership,
     StartWorkloads
<1>6. CASE StopNext(d)
  BY <1>6 DEF StopNext, StopCall, StopLock, StopRelease, StopWorkloadsAndCleanup,
     ReleaseLeadership
<1>7. CASE Crash(d)
  BY <1>7 DEF Crash
<1> QED
  BY <1>1, <1>2, <1>3, <1>4, <1>5, <1>6, <1>7

\* What it has still to do itself leads to nothing: the loop and the restarts
\* do not begin anew, and the others can only stop and release.
LEMMA RetiredRests ==
    ASSUME TypeOK, NEW c \in Controllers, Retired(c),
           \/ LoopNext(c) \/ MonitorNext(c) \/ HealthNext(c)
           \/ RestartNext(c) \/ BootStep(c) \/ StopNext(c)
    PROVE  Resting(c)
<1> USE DEF TypeOK, Retired, Resting
<1>1. ~LoopNext(c) /\ ~RestartNext(c) /\ ~BootStep(c)
  BY DEF LoopNext, LoopTick, LoopEnds, LoopLock, LoopStep, LoopCheck, LoopRenew, LoopRead,
     LoopAcquire, LoopReacquire, LoopWon, LoopStart, LoopLose, LoopStopWorkloads,
     RestartNext, RestartTick, RestartStop, RestartStart,
     BootStep, BootInit, BootRead, BootAcquire, BootWon, BootStart, BootStarting,
     BootRelease, BootUnset
<1>2. CASE MonitorNext(c)
  BY <1>2 DEF MonitorNext, MonitorTick, MonitorLock, MonitorPass, MonitorStopWorkloads
<1>3. CASE HealthNext(c)
  BY <1>3 DEF HealthNext, HealthTick, HealthRelease, HealthStopWorkloads, ReleaseLeadership
<1>4. CASE StopNext(c)
  BY <1>4 DEF StopNext, StopCall, StopLock, StopRelease, StopWorkloadsAndCleanup,
     ReleaseLeadership
<1> QED
  BY <1>1, <1>2, <1>3, <1>4

\* Stopping is for good, but for the turn of the loop and the restart that were
\* under way (leader.go, Stop): any controllers, however they are configured.
THEOREM RetirementIsForGood == Spec => RetiredForGood
<1>1. IInv /\ [Next]_vars =>
        [\A c \in Controllers :
            Retired(c) => \/ Retired(c)' /\ (lock # c => lock' # c)
                          \/ boot'[c] = "init"]_vars
  <2> SUFFICES ASSUME TypeOK, Next, NEW c \in Controllers, Retired(c)
               PROVE  Resting(c) \/ boot'[c] = "init"
    BY DEF IInv, Resting
  <2>1. CASE Expire
    BY <2>1 DEF Expire, Retired, Resting, TypeOK
  <2>2. CASE Crash(c)
    BY <2>2 DEF Crash, TypeOK
  <2> QED
    BY <2>1, <2>2, OthersRest, RetiredRests DEF Next
<1> QED
  BY <1>1, Invariance, PTL DEF Spec, RetiredForGood

-----------------------------------------------------------------------------
(* The election goes the round of Leadership                               *)

Committed == Controllers \ Booting

\* A step of c's round, as one of the actions of Leadership.
Round(c) ==
    \/ /\ Phase(c) \in {"follower", "leading"}
       /\ Phase(c)' = Phase(c)
    \/ /\ Phase(c)' = Phase(c) /\ Reports(c)' = Reports(c)
    \/ /\ Phase(c) = "follower" /\ Phase(c)' = "starting"
       /\ loop[c] = "won" /\ Reports(c) /\ Reports(c)' = Reports(c)
    \/ /\ Phase(c) = "starting" /\ Phase(c)' = "leading"
       /\ Reports(c)' = Reports(c)
    \/ /\ Phase(c) \in {"follower", "leading"} /\ Phase(c)' = "stopping"
       /\ Reports(c)' \in {FALSE, Reports(c)}
    \/ /\ Phase(c) = "stopping" /\ Phase(c)' = "follower"
       /\ Reports(c)' \in {FALSE, Reports(c)}

\* A step that none of c's variables is part of.
Still(c) == Phase(c)' = Phase(c) /\ Reports(c)' = Reports(c)

LEMMA LoopRound ==
    ASSUME TypeOK, NEW c \in Controllers \ Booting, Own(c), LoopNext(c)
    PROVE  Round(c)
<1> USE DEF TypeOK, Own, MutexDiscipline, Follows, Phase, Reports, Round
<1>1. CASE LoopTick(c) \/ LoopEnds(c)
  <2>1. CASE LoopTick(c)
    BY <2>1 DEF LoopTick
  <2>2. CASE LoopEnds(c)
    BY <2>2 DEF LoopEnds
  <2> QED
    BY <1>1, <2>1, <2>2
<1>2. CASE LoopLock(c)
  BY <1>2 DEF LoopLock
<1>3. CASE LoopCheck(c)
  BY <1>3 DEF LoopCheck, RenewFails, NoteSuccess, NoteFailure
<1>4. CASE LoopRenew(c)
  <2>1. CASE NoFault /\ NoteSuccess(c)
    BY <1>4, <2>1 DEF LoopRenew, RenewFails, NoteSuccess, NoteFailure
  <2>2. CASE RenewFails(c)
    BY <1>4, <2>2 DEF LoopRenew, RenewFails, NoteFailure
  <2> QED
    BY <1>4, <2>1, <2>2 DEF LoopRenew
<1>5. CASE LoopRead(c)
  BY <1>5 DEF LoopRead, ReadLeader, NoteFailure
<1>6. CASE LoopAcquire(c)
  BY <1>6 DEF LoopAcquire, Acquired, NotAcquired, NoteSuccess
<1>7. CASE LoopReacquire(c)
  BY <1>7 DEF LoopReacquire, Acquired, NotAcquired, NoteSuccess
<1>8. CASE LoopWon(c)
  BY <1>8 DEF LoopWon
<1>9. CASE LoopStart(c)
  BY <1>9 DEF LoopStart, StartWorkloads
<1>10. CASE LoopLose(c)
  BY <1>10 DEF LoopLose
<1>11. CASE LoopStopWorkloads(c)
  BY <1>11 DEF LoopStopWorkloads
<1> QED
  BY <1>1, <1>2, <1>3, <1>4, <1>5, <1>6, <1>7, <1>8, <1>9, <1>10, <1>11 DEF LoopNext, LoopStep

LEMMA OtherRound ==
    ASSUME TypeOK, NEW c \in Controllers \ Booting, Own(c),
           \/ MonitorNext(c) \/ HealthNext(c) \/ RestartNext(c)
           \/ BootStep(c) \/ StopNext(c) \/ Crash(c)
    PROVE  Round(c)
<1> USE DEF TypeOK, Own, MutexDiscipline, Follows, Phase, Reports, Round
<1>1. CASE MonitorNext(c)
  <2>1. CASE MonitorTick(c)
    BY <2>1 DEF MonitorTick
  <2>2. CASE MonitorLock(c)
    BY <2>2 DEF MonitorLock
  <2>3. CASE MonitorPass(c)
    BY <2>3 DEF MonitorPass
  <2>4. CASE MonitorStopWorkloads(c)
    BY <2>4 DEF MonitorStopWorkloads
  <2> QED
    BY <1>1, <2>1, <2>2, <2>3, <2>4 DEF MonitorNext
<1>2. CASE HealthNext(c)
  <2>1. CASE HealthTick(c)
    BY <2>1 DEF HealthTick
  <2>2. CASE HealthRelease(c)
    BY <2>2 DEF HealthRelease, ReleaseLeadership
  <2>3. CASE HealthStopWorkloads(c)
    BY <2>3 DEF HealthStopWorkloads
  <2> QED
    BY <1>2, <2>1, <2>2, <2>3 DEF HealthNext
<1>3. CASE RestartNext(c)
  <2>1. CASE RestartTick(c)
    BY <2>1 DEF RestartTick
  <2>2. CASE RestartStop(c)
    BY <2>2 DEF RestartStop
  <2>3. CASE RestartStart(c)
    BY <2>3 DEF RestartStart
  <2> QED
    BY <1>3, <2>1, <2>2, <2>3 DEF RestartNext
<1>4. CASE BootStep(c)
  BY <1>4 DEF BootStep, BootInit, BootRead, BootAcquire, BootWon, BootStart,
     BootStarting, BootRelease, BootUnset
<1>5. CASE StopNext(c)
  <2>1. CASE StopCall(c)
    BY <2>1 DEF StopCall
  <2>2. CASE StopLock(c)
    BY <2>2 DEF StopLock
  <2>3. CASE StopRelease(c)
    BY <2>3 DEF StopRelease, ReleaseLeadership
  <2>4. CASE StopWorkloadsAndCleanup(c)
    BY <2>4 DEF StopWorkloadsAndCleanup
  <2> QED
    BY <1>5, <2>1, <2>2, <2>3, <2>4 DEF StopNext
<1>6. CASE Crash(c)
  BY <1>6 DEF Crash
<1> QED
  BY <1>1, <1>2, <1>3, <1>4, <1>5, <1>6

LEMMA OthersStill ==
    ASSUME TypeOK, NEW c \in Controllers, NEW d \in Controllers \ {c},
           \/ LoopNext(c) \/ MonitorNext(c) \/ HealthNext(c)
           \/ RestartNext(c) \/ BootStep(c) \/ StopNext(c) \/ Crash(c)
    PROVE  Still(d)
<1> USE DEF TypeOK, Still, Phase, Reports
<1>1. CASE LoopNext(c)
  <2>1. CASE LoopTick(c) \/ LoopEnds(c) \/ LoopLock(c) \/ LoopWon(c) \/ LoopStart(c)
    BY <2>1 DEF LoopTick, LoopEnds, LoopLock, LoopWon, LoopStart
  <2>2. CASE LoopCheck(c) \/ LoopRenew(c)
    BY <2>2 DEF LoopCheck, LoopRenew, RenewFails, NoteSuccess, NoteFailure
  <2>3. CASE LoopRead(c)
    BY <2>3 DEF LoopRead, ReadLeader, NoteFailure
  <2>4. CASE LoopAcquire(c) \/ LoopReacquire(c)
    BY <2>4 DEF LoopAcquire, LoopReacquire, Acquired, NotAcquired, NoteSuccess
  <2>5. CASE LoopLose(c) \/ LoopStopWorkloads(c)
    BY <2>5 DEF LoopLose, LoopStopWorkloads
  <2> QED
    BY <1>1, <2>1, <2>2, <2>3, <2>4, <2>5 DEF LoopNext, LoopStep
<1>2. CASE MonitorNext(c)
  BY <1>2 DEF MonitorNext, MonitorTick, MonitorLock, MonitorPass, MonitorStopWorkloads
<1>3. CASE HealthNext(c)
  BY <1>3 DEF HealthNext, HealthTick, HealthRelease, HealthStopWorkloads, ReleaseLeadership
<1>4. CASE RestartNext(c)
  BY <1>4 DEF RestartNext, RestartTick, RestartStop, RestartStart
<1>5. CASE BootStep(c)
  <2>1. CASE BootInit(c) \/ BootWon(c) \/ BootStart(c) \/ BootStarting(c) \/ BootUnset(c)
    BY <2>1 DEF BootInit, BootWon, BootStart, BootStarting, BootUnset
  <2>2. CASE BootRead(c)
    BY <2>2 DEF BootRead, ReadLeader, NoteFailure
  <2>3. CASE BootAcquire(c)
    BY <2>3 DEF BootAcquire, Acquired, NotAcquired, NoteSuccess
  <2>4. CASE BootRelease(c)
    BY <2>4 DEF BootRelease, ReleaseLeadership
  <2> QED
    BY <1>5, <2>1, <2>2, <2>3, <2>4 DEF BootStep
<1>6. CASE StopNext(c)
  BY <1>6 DEF StopNext, StopCall, StopLock, StopRelease, StopWorkloadsAndCleanup, ReleaseLeadership
<1>7. CASE Crash(c)
  BY <1>7 DEF Crash
<1> QED
  BY <1>1, <1>2, <1>3, <1>4, <1>5, <1>6, <1>7

\* Who wins has the lock, and who leads has it or is about to stop, so that
\* of two whose locks do not expire only one does either.
LEMMA WinnerIsAlone ==
    ASSUME IInv, NEW c \in Committed \ Expiring, loop[c] = "won"
    PROVE  \A d \in Committed \ {c} :
              Phase(d) \in {"starting", "leading"} => d \in Expiring
<1> SUFFICES ASSUME NEW d \in Committed \ {c}, d \notin Expiring,
                    Phase(d) \in {"starting", "leading"}
             PROVE  FALSE
  OBVIOUS
<1>1. Own(c) /\ Own(d)
  BY DEF IInv, Committed
<1>2. lock = c
  BY <1>1 DEF Own, HoldsLock, Committed
<1>3. leader[d]
  BY <1>1 DEF Own, Follows, Phase, Committed
<1>4. lock = d
  BY <1>1, <1>3 DEF Own, HoldsLock, Phase, Committed
<1> QED
  BY <1>2, <1>4

LEMMA InitRound == Init => L!LeadershipInit
<1> SUFFICES ASSUME Init PROVE L!LeadershipInit
  OBVIOUS
<1>1. \A c \in Committed : Phase(c) = "follower"
  BY DEF Init, Phase, Committed
<1>2. \A c \in Committed : Reports(c) = FALSE
  BY DEF Init, Reports, Committed
<1> QED
  BY <1>1, <1>2 DEF L!LeadershipInit, Committed

LEMMA NextRound == IInv /\ [Next]_vars => [L!LeadershipNext]_L!leadership
<1> SUFFICES ASSUME IInv, [Next]_vars
             PROVE  L!LeadershipNext \/ UNCHANGED L!leadership
  OBVIOUS
<1>1. ASSUME \A d \in Committed : Still(d)
      PROVE  UNCHANGED L!leadership
  BY <1>1 DEF Still, Committed, L!leadership
<1>2. CASE UNCHANGED vars
  BY <1>1, <1>2 DEF vars, Still, Phase, Reports
<1>3. CASE Expire
  BY <1>1, <1>3 DEF Expire, Still, Phase, Reports
<1>4. ASSUME NEW c \in Controllers,
             \/ LoopNext(c) \/ MonitorNext(c) \/ HealthNext(c)
             \/ RestartNext(c) \/ BootStep(c) \/ StopNext(c) \/ Crash(c)
      PROVE  L!LeadershipNext \/ UNCHANGED L!leadership
  <2>1. \A d \in Committed \ {c} : Still(d)
    BY <1>4, OthersStill DEF IInv, Committed
  <2>2. CASE c \in Booting
    BY <1>1, <2>1, <2>2 DEF Committed
  <2>3. CASE c \notin Booting
    <3> DEFINE T == [d \in Committed |-> Phase(d)]
               R == [d \in Committed |-> Reports(d)]
    <3>0. c \in Committed
      BY <2>3 DEF Committed
    <3>1. Round(c)
      BY <1>4, <2>3, LoopRound, OtherRound DEF IInv
    <3>2. T' = [T EXCEPT ![c] = Phase(c)']
      BY <2>1, <3>0 DEF Still, Committed
    <3>3. R' = [R EXCEPT ![c] = Reports(c)']
      BY <2>1, <3>0 DEF Still, Committed
    <3>4. Reports(c)' \in BOOLEAN
      BY DEF Reports
    <3>5. CASE Still(c)
      BY <1>1, <2>1, <3>5
    <3>6. CASE Phase(c) = "follower" /\ Phase(c)' = Phase(c)
      <4>1. L!Announce(c)
        BY <3>0, <3>2, <3>3, <3>4, <3>6 DEF L!Announce, L!Tell, Committed
      <4> QED
        BY <3>0, <4>1 DEF L!LeadershipNext, Committed
    <3>7. CASE Phase(c) = "leading" /\ Phase(c)' = Phase(c)
      <4>1. L!Degrade(c)
        BY <3>0, <3>2, <3>3, <3>4, <3>7 DEF L!Degrade, L!Tell, Committed
      <4> QED
        BY <3>0, <4>1 DEF L!LeadershipNext, Committed
    <3>8. CASE /\ Phase(c) = "follower" /\ Phase(c)' = "starting"
               /\ loop[c] = "won" /\ Reports(c) /\ Reports(c)' = Reports(c)
      <4>1. c \in Expiring \/ \A d \in Committed \ {c} : L!Leads(d) => d \in Expiring
        BY <3>0, <3>8, WinnerIsAlone DEF L!Leads, Committed
      <4>2. L!Win(c)
        BY <3>0, <3>2, <3>3, <3>8, <4>1 DEF L!Win, L!Enter, Committed
      <4> QED
        BY <3>0, <4>2 DEF L!LeadershipNext, Committed
    <3>9. CASE /\ Phase(c) = "starting" /\ Phase(c)' = "leading"
               /\ Reports(c)' = Reports(c)
      <4>1. L!Started(c)
        BY <3>0, <3>2, <3>3, <3>9 DEF L!Started, L!Enter, Committed
      <4> QED
        BY <3>0, <4>1 DEF L!LeadershipNext, Committed
    <3>10. CASE /\ Phase(c) \in {"follower", "leading"} /\ Phase(c)' = "stopping"
                /\ Reports(c)' \in {FALSE, Reports(c)}
      <4>1. L!Lose(c)
        BY <3>0, <3>2, <3>3, <3>10 DEF L!Lose, L!Enter, L!Tell, Committed
      <4> QED
        BY <3>0, <4>1 DEF L!LeadershipNext, Committed
    <3>11. CASE /\ Phase(c) = "stopping" /\ Phase(c)' = "follower"
                /\ Reports(c)' \in {FALSE, Reports(c)}
      <4>1. L!Stopped(c)
        BY <3>0, <3>2, <3>3, <3>11 DEF L!Stopped, L!Enter, L!Tell, Committed
      <4> QED
        BY <3>0, <4>1 DEF L!LeadershipNext, Committed
    <3> QED
      BY <3>1, <3>5, <3>6, <3>7, <3>8, <3>9, <3>10, <3>11 DEF Round, Still
  <2> QED
    BY <2>2, <2>3
<1> QED
  BY <1>2, <1>3, <1>4 DEF Next

\* The election goes the round that Leadership promises to the workloads.
THEOREM ElectionIsLeadership == Spec => ImplementsLeadership
  BY InitRound, Invariance, NextRound, PTL
     DEF Spec, ImplementsLeadership, L!LeadershipSpec

=============================================================================
