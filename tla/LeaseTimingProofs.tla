-------------------------- MODULE LeaseTimingProofs --------------------------
(***************************************************************************)
(* There is at most one leader, for any number of controllers and any      *)
(* timing that satisfies TTLAssumption, among the controllers for which a  *)
(* storage that answers reads also takes writes; and two leaders coexist   *)
(* for a short time only, whoever's writes fail.                           *)
(***************************************************************************)
EXTENDS LeaseTiming, TLAPS

IInv == TypeOK /\ LockOutlastsTolerance

\* A leader's tolerance shrinks by one gap with each failure.
LEMMA Tolerance ==
    ASSUME NEW n \in Nat, NEW g \in Nat
    PROVE  /\ n * g \in Nat
           /\ (n + 1) * g = g + n * g
  OBVIOUS

\* Initially nobody leads.
LEMMA InitIInv == Init => IInv
  BY TimingAssumption DEF Init, IInv, TypeOK, LockOutlastsTolerance, Leads

\* Time passes for the lock as it does for its holder.
LEMMA TickIInv == IInv /\ Tick => IInv'
<1> SUFFICES ASSUME IInv, Tick PROVE IInv'
  OBVIOUS
<1> USE TimingAssumption, ControllersAssumption
<1>1. TypeOK'
  <2>1. holder' \in Controllers \union {NoLeader} /\ remaining' \in 0..TTL
    BY DEF IInv, TypeOK, Tick
  <2>2. gap' \in [Controllers -> 0..MaxStart]
    BY DEF IInv, TypeOK, Tick, Awaited
  <2>3. overlap' \in Nat /\ vacant' \in Nat
    BY DEF IInv, TypeOK, Tick
  <2> QED
    BY <2>1, <2>2, <2>3 DEF IInv, TypeOK, Tick
<1>2. ASSUME NEW c \in Controllers \ WritesFail, Leads(c)'
      PROVE  holder' = c /\ Deadline(c)' < remaining'
  <2>1. Leads(c) /\ gap[c] > 0
    BY <1>2 DEF Leads, Awaited, Tick
  <2>2. holder = c /\ Deadline(c) < remaining
    BY <2>1 DEF IInv, LockOutlastsTolerance
  <2> DEFINE left == MaxDBFailures - 1 - failures[c]
  <2>3. left \in Nat /\ left * MaxGap \in Nat
    BY Tolerance DEF IInv, TypeOK
  <2> HIDE DEF left
  <2>4. gap[c] \in Nat /\ remaining \in Nat
    BY DEF IInv, TypeOK
  <2>5. gap[c] + left * MaxGap < remaining
    BY <2>2 DEF Deadline, left
  <2>6. gap'[c] = gap[c] - 1 /\ failures' = failures
    BY <2>1 DEF Tick, Awaited
  <2>7. remaining' = remaining - 1 /\ remaining' > 0
    BY <2>1, <2>3, <2>4, <2>5 DEF Tick
  <2>8. holder' = c
    BY <2>2, <2>7 DEF Tick
  <2>9. Deadline(c)' = gap'[c] + left * MaxGap
    BY <2>6 DEF Deadline, left
  <2> QED
    BY <2>3, <2>4, <2>5, <2>6, <2>7, <2>8, <2>9
<1> QED
  BY <1>1, <1>2 DEF IInv, LockOutlastsTolerance

\* A step that gives c the whole TTL, with a next turn within the time that
\* TTLAssumption allows, keeps the invariant: nobody else leads, but for
\* those whose writes fail.
LEMMA RenewedIInv ==
    ASSUME IInv, NEW c \in Controllers, NEW time \in 0..MaxStart,
           SetLock(c), NextTurn(c, time),
           role' = role \/ Become(c, "leader"),
           SetFailures(c, 0) \/ (UNCHANGED failures /\ ~Leads(c)'),
           \A d \in Controllers \ (WritesFail \union {c}) : ~Leads(d),
           UNCHANGED overlap, vacant' \in {vacant, 0}
    PROVE  IInv'
<1> USE TimingAssumption DEF SetLock, SetFailures, NextTurn, Become, Leads
<1>1. TypeOK'
  BY DEF IInv, TypeOK
<1>2. ASSUME NEW d \in Controllers \ WritesFail, Leads(d)'
      PROVE  holder' = d /\ Deadline(d)' < remaining'
  <2>1. d = c
    BY <1>2 DEF IInv, TypeOK
  <2>2. Deadline(c)' = time + (MaxDBFailures - 1) * MaxGap
    BY <1>2, <2>1 DEF Deadline, IInv, TypeOK
  <2>3. (MaxDBFailures - 1) * MaxGap \in Nat
    BY Tolerance
  <2> QED
    BY <2>1, <2>2, <2>3, TTLAssumption
<1> QED
  BY <1>1, <1>2 DEF IInv, LockOutlastsTolerance

\* A step in which nobody starts to lead, and which changes neither the
\* lock nor the remaining tolerance of those that go on leading.
LEMMA SteppedDownIInv ==
    ASSUME IInv, NEW c \in Controllers, NEW r \in {"follower", "resigning"},
           Become(c, r), failures' = failures \/ SetFailures(c, 0),
           gap' = gap \/ \E time \in 0..MaxStart : NextTurn(c, time),
           KeepLock \/ (holder = c /\ holder' = NoLeader /\ remaining' = 0),
           UNCHANGED overlap, vacant' \in {vacant, 0}
    PROVE  IInv'
<1> USE TimingAssumption DEF Become, SetFailures, NextTurn, KeepLock, Leads
<1>1. TypeOK'
  <2>1. holder' \in Controllers \union {NoLeader} /\ remaining' \in 0..TTL
    BY DEF IInv, TypeOK
  <2>2. role' \in [Controllers -> {"follower", "leader", "resigning"}]
    BY DEF IInv, TypeOK
  <2>3. failures' \in [Controllers -> 0..(MaxDBFailures - 1)]
    BY DEF IInv, TypeOK
  <2>4. gap' \in [Controllers -> 0..MaxStart]
    BY DEF IInv, TypeOK
  <2> QED
    BY <2>1, <2>2, <2>3, <2>4 DEF IInv, TypeOK
<1>2. ASSUME NEW d \in Controllers \ WritesFail, Leads(d)'
      PROVE  holder' = d /\ Deadline(d)' < remaining'
  <2>1. d # c /\ Leads(d)
    BY <1>2 DEF IInv, TypeOK
  <2>2. holder = d /\ Deadline(d) < remaining
    BY <2>1 DEF IInv, LockOutlastsTolerance
  <2>3. failures'[d] = failures[d] /\ gap'[d] = gap[d]
    BY <2>1 DEF IInv, TypeOK
  <2>4. Deadline(d)' = Deadline(d)
    BY <2>3 DEF Deadline
  <2> QED
    BY <2>1, <2>2, <2>4
<1> QED
  BY <1>1, <1>2 DEF IInv, LockOutlastsTolerance

LEMMA TriesAreTurns ==
    ASSUME NEW c \in Controllers, NEW time \in 0..MaxStart, NextTry(c, time)
    PROVE  \E t \in 0..MaxStart : NextTurn(c, t)
  BY TimingAssumption DEF NextTry

LEMMA StepDownIInv ==
    ASSUME IInv, NEW c \in Controllers, StepDown(c), KeepLock, UNCHANGED waits
    PROVE  IInv'
<1>1. \E time \in 0..MaxStart : NextTurn(c, time)
  BY TriesAreTurns, TimingAssumption DEF StepDown
<1> QED
  BY <1>1, SteppedDownIInv DEF StepDown, waits

\* Nor does an error that a leader tolerates touch the other leaders.
LEMMA ToleratedIInv ==
    ASSUME IInv, NEW c \in Controllers, NEW n \in 1..(MaxDBFailures - 1),
           StayLeader(c, n), Leads(c), UNCHANGED waits,
           \/ KeepLock /\ n = failures[c] + 1
           \/ c \in WritesFail /\ holder = c /\ (KeepLock \/ SetLock(c))
    PROVE  IInv'
<1> USE TimingAssumption
<1>1. TypeOK'
  <2>1. holder' \in Controllers \union {NoLeader} /\ remaining' \in 0..TTL
    BY DEF IInv, TypeOK, KeepLock, SetLock
  <2> QED
    BY <2>1 DEF IInv, TypeOK, StayLeader, SetFailures, NextTurn, waits
<1>2. ASSUME NEW d \in Controllers \ WritesFail, Leads(d)'
      PROVE  holder' = d /\ Deadline(d)' < remaining'
  <2>1. Leads(d) /\ holder = d /\ Deadline(d) < remaining
    BY <1>2 DEF StayLeader, Leads, IInv, LockOutlastsTolerance
  <2>2. KeepLock /\ n = failures[c] + 1
    <3>1. CASE c \in WritesFail /\ holder = c
      BY <3>1, <2>1
    <3> QED
      BY <3>1
  <2>3. holder' = holder /\ remaining' = remaining
    BY <2>2 DEF KeepLock
  <2>4. CASE d # c
    <3>1. failures'[d] = failures[d] /\ gap'[d] = gap[d]
      BY <2>4 DEF IInv, TypeOK, StayLeader, SetFailures, NextTurn
    <3>2. Deadline(d)' = Deadline(d)
      BY <3>1 DEF Deadline
    <3> QED
      BY <2>1, <2>3, <3>2
  <2>5. CASE d = c
    <3> DEFINE left == MaxDBFailures - 1 - n
    <3>1. left \in Nat /\ left + 1 = MaxDBFailures - 1 - failures[c]
      BY <2>2 DEF IInv, TypeOK
    <3> HIDE DEF left
    <3>2. left * MaxGap \in Nat /\ (left + 1) * MaxGap = MaxGap + left * MaxGap
      BY <3>1, Tolerance
    <3>3. Deadline(c) = gap[c] + (left + 1) * MaxGap
      BY <3>1 DEF Deadline
    <3>4. gap'[c] = MaxGap /\ failures'[c] = n
      BY DEF IInv, TypeOK, StayLeader, SetFailures, NextTurn
    <3>5. Deadline(c)' = MaxGap + left * MaxGap
      BY <3>4 DEF Deadline, left
    <3>6. gap[c] \in Nat /\ remaining \in Nat
      BY DEF IInv, TypeOK
    <3> QED
      BY <2>1, <2>3, <2>5, <3>2, <3>3, <3>5, <3>6
  <2> QED
    BY <2>4, <2>5
<1> QED
  BY <1>1, <1>2 DEF IInv, LockOutlastsTolerance

\* A failure that is tolerated spends a gap of the tolerance.
LEMMA ReadFailsIInv ==
    ASSUME IInv, NEW c \in Controllers, ReadFails(c)
    PROVE  IInv'
<1> USE TimingAssumption
<1> DEFINE n == failures[c] + 1
<1>1. n \in 1..MaxDBFailures
  BY DEF IInv, TypeOK
<1>2. CASE n >= MaxDBFailures
  <2>1. StepDown(c) /\ KeepLock /\ UNCHANGED waits
    BY <1>2 DEF ReadFails, ConnectionError
  <2> QED
    BY <2>1, StepDownIInv
<1>3. CASE ~(n >= MaxDBFailures)
  <2>1. n \in 1..(MaxDBFailures - 1)
    BY <1>1, <1>3
  <2>2. StayLeader(c, n) /\ Leads(c) /\ KeepLock /\ UNCHANGED waits
    BY <1>3 DEF ReadFails, ConnectionError
  <2> QED
    BY <2>1, <2>2, ToleratedIInv
<1> QED
  BY <1>2, <1>3

\* Of the controllers whose writes fail nothing is claimed.
LEMMA WriteFailsIInv ==
    ASSUME IInv, NEW c \in Controllers, WriteFails(c)
    PROVE  IInv'
<1> USE TimingAssumption
<1>1. c \in WritesFail /\ Leads(c) /\ holder = c /\ UNCHANGED waits
  BY DEF WriteFails
<1>2. KeepLock \/ SetLock(c)
  BY DEF WriteFails
<1>3. CASE 1 >= MaxDBFailures
  <2>1. StepDown(c)
    BY <1>3 DEF WriteFails, ConnectionError
  <2>2. TypeOK'
    <3>1. holder' \in Controllers \union {NoLeader} /\ remaining' \in 0..TTL
      BY <1>2 DEF IInv, TypeOK, KeepLock, SetLock
    <3> QED
      BY <1>1, <2>1, <3>1 DEF IInv, TypeOK, StepDown, Become, SetFailures, NextTry, NextTurn, waits
  <2>3. ASSUME NEW d \in Controllers \ WritesFail PROVE ~Leads(d)'
    BY <1>1, <2>1 DEF IInv, TypeOK, LockOutlastsTolerance, StepDown, Become, Leads
  <2> QED
    BY <2>2, <2>3 DEF IInv, LockOutlastsTolerance
<1>4. CASE ~(1 >= MaxDBFailures)
  <2>1. 1 \in 1..(MaxDBFailures - 1)
    BY <1>4
  <2>2. StayLeader(c, 1)
    BY <1>4 DEF WriteFails, ConnectionError
  <2> QED
    BY <1>1, <1>2, <2>1, <2>2, ToleratedIInv
<1> QED
  BY <1>3, <1>4

\* Every step keeps the invariant.
LEMMA NextIInv == IInv /\ [Next]_vars => IInv'
<1> SUFFICES ASSUME IInv, [Next]_vars PROVE IInv'
  OBVIOUS
<1>1. CASE Tick
  BY <1>1, TickIInv
<1>2. ASSUME NEW c \in Controllers, Renew(c) PROVE IInv'
  <2>1. \A d \in Controllers \ (WritesFail \union {c}) : ~Leads(d)
    BY <1>2 DEF Renew, IInv, LockOutlastsTolerance
  <2>2. SetLock(c) /\ SetFailures(c, 0) /\ NextTurn(c, MaxGap) /\ role' = role
    BY <1>2 DEF Renew, StayLeader
  <2>3. MaxGap \in 0..MaxStart
    BY TimingAssumption
  <2>4. UNCHANGED waits
    BY <1>2 DEF Renew
  <2> QED
    BY <2>1, <2>2, <2>3, <2>4, RenewedIInv DEF waits
<1>3. ASSUME NEW c \in Controllers, ReadFails(c) PROVE IInv'
  BY <1>3, ReadFailsIInv
<1>4. ASSUME NEW c \in Controllers, WriteFails(c) PROVE IInv'
  BY <1>4, WriteFailsIInv
<1>5. ASSUME NEW c \in Controllers, Reacquire(c) PROVE IInv'
  <2>1. \A d \in Controllers \ (WritesFail \union {c}) : ~Leads(d)
    BY <1>5, ControllersAssumption DEF Reacquire, IInv, LockOutlastsTolerance
  <2>2. SetLock(c) /\ SetFailures(c, 0) /\ NextTurn(c, MaxGap) /\ role' = role
    BY <1>5 DEF Reacquire, StayLeader
  <2>3. MaxGap \in 0..MaxStart
    BY TimingAssumption
  <2>4. UNCHANGED waits
    BY <1>5 DEF Reacquire
  <2> QED
    BY <2>1, <2>2, <2>3, <2>4, RenewedIInv DEF waits
<1>6. ASSUME NEW c \in Controllers, Lose(c) PROVE IInv'
  BY <1>6, StepDownIInv DEF Lose
<1>7. ASSUME NEW c \in Controllers, Acquire(c) PROVE IInv'
  <2>1. \A d \in Controllers \ (WritesFail \union {c}) : ~Leads(d)
    BY <1>7, ControllersAssumption DEF Acquire, IInv, LockOutlastsTolerance
  <2>2. SetLock(c) /\ SetFailures(c, 0) /\ NextTurn(c, MaxStart) /\ Become(c, "leader")
    BY <1>7 DEF Acquire
  <2>3. MaxStart \in 0..MaxStart
    BY TimingAssumption
  <2>4. UNCHANGED overlap /\ vacant' = 0
    BY <1>7 DEF Acquire
  <2> QED
    BY <2>1, <2>2, <2>3, <2>4, RenewedIInv DEF waits
<1>8. ASSUME NEW c \in Controllers, Resign(c) PROVE IInv'
  <2>1. Become(c, "resigning") /\ failures' = failures /\ gap' = gap
    BY <1>8 DEF Resign
  <2>2. KeepLock \/ (holder = c /\ holder' = NoLeader /\ remaining' = 0)
    BY <1>8 DEF Resign
  <2>3. UNCHANGED waits
    BY <1>8 DEF Resign
  <2> QED
    BY <2>1, <2>2, <2>3, SteppedDownIInv DEF waits
<1>9. ASSUME NEW c \in Controllers, Resigned(c) PROVE IInv'
  <2>1. Become(c, "follower") /\ failures' = failures /\ gap' = gap
    BY <1>9 DEF Resigned
  <2>2. KeepLock /\ UNCHANGED waits
    BY <1>9 DEF Resigned, KeepLock
  <2> QED
    BY <2>1, <2>2, SteppedDownIInv DEF waits
<1>10. ASSUME NEW c \in Controllers, Crash(c) PROVE IInv'
  <2>1. Become(c, "follower") /\ SetFailures(c, 0) /\ NextTurn(c, 0) /\ 0 \in 0..MaxStart
    BY <1>10, TimingAssumption DEF Crash
  <2>2. KeepLock /\ UNCHANGED waits
    BY <1>10 DEF Crash, KeepLock
  <2> QED
    BY <2>1, <2>2, SteppedDownIInv DEF waits
<1>11. ASSUME NEW c \in Controllers, Refused(c) PROVE IInv'
  <2>1. Become(c, "follower") /\ failures' = failures /\ KeepLock /\ UNCHANGED waits
    BY <1>11 DEF Refused, Become, KeepLock, IInv, TypeOK
  <2>2. \E time \in 0..MaxStart : NextTurn(c, time)
    BY <1>11, TriesAreTurns, TimingAssumption DEF Refused
  <2> QED
    BY <2>1, <2>2, SteppedDownIInv DEF waits
<1>12. ASSUME NEW c \in Controllers, AcquireFails(c) PROVE IInv'
  <2>1. /\ Become(c, "follower") /\ role' = role /\ failures' = failures /\ ~Leads(c)'
        /\ UNCHANGED overlap /\ vacant' = 0
    BY <1>12 DEF AcquireFails, Become, Leads, IInv, TypeOK
  <2>2. PICK time \in 0..MaxStart : NextTurn(c, time)
    BY <1>12, TriesAreTurns, TimingAssumption DEF AcquireFails
  <2>3. CASE KeepLock
    BY <2>1, <2>2, <2>3, SteppedDownIInv
  <2>4. CASE holder \in {NoLeader, c} /\ SetLock(c)
    <3>1. \A d \in Controllers \ (WritesFail \union {c}) : ~Leads(d)
      BY <2>4, ControllersAssumption DEF IInv, LockOutlastsTolerance
    <3> QED
      BY <2>1, <2>2, <2>4, <3>1, RenewedIInv
  <2> QED
    BY <1>12, <2>3, <2>4 DEF AcquireFails
<1>13. CASE UNCHANGED vars
  BY <1>13 DEF vars, waits, IInv, TypeOK, LockOutlastsTolerance, Leads, Deadline
<1> QED
  BY <1>1, <1>2, <1>3, <1>4, <1>5, <1>6, <1>7, <1>8, <1>9, <1>10, <1>11, <1>12, <1>13 DEF Next

\* The inductive invariant.
LEMMA Invariance == Spec => []IInv
  BY InitIInv, NextIInv, PTL DEF Spec

\* A leader holds the lock for longer than it tolerates failures.
THEOREM ToleranceIsSafe == Spec => []LockOutlastsTolerance
<1>1. IInv => LockOutlastsTolerance
  BY DEF IInv
<1> QED
  BY <1>1, Invariance, PTL

\* There is one leader at most.
THEOREM OneLeader == Spec => []AtMostOneLeader
<1>1. LockOutlastsTolerance => AtMostOneLeader
  BY DEF LockOutlastsTolerance, AtMostOneLeader
<1> QED
  BY <1>1, ToleranceIsSafe, PTL

\* Types: a clock never passes its bound, and no failure goes uncounted.
THEOREM TypeCorrect == Spec => []TypeOK
<1>1. IInv => TypeOK
  BY DEF IInv
<1> QED
  BY <1>1, Invariance, PTL

-----------------------------------------------------------------------------
(* How long two leaders coexist, whoever's writes fail                     *)

\* The time for which failures are tolerated after a renewal.
Tolerated == (MaxDBFailures - 1) * MaxGap

\* A leader that has the lock will not lead for long once it has lost it.
HasLock(c) ==
    Leads(c) /\ holder = c => Deadline(c) <= Tolerated \/ Deadline(c) < remaining

\* A leader that has lost the lock stops in time, and before anybody else can
\* lose the lock in turn; so there is one such leader at most.
Lockless(c) ==
    Leads(c) /\ holder # c =>
        /\ overlap + Deadline(c) <= Tolerated
        /\ holder # NoLeader => Deadline(c) < remaining
        /\ \A d \in Controllers \ {c} : Leads(d) => holder = d

SInv ==
    /\ overlap <= Tolerated
    /\ \A c \in Controllers : HasLock(c) /\ Lockless(c)

\* Initially nobody leads.
LEMMA InitSInv == Init => SInv
  BY TimingAssumption, Tolerance DEF Init, SInv, Tolerated, HasLock, Lockless, Leads

AreTimes ==
    /\ Tolerated \in Nat /\ TTL \in Nat /\ Tolerated < TTL
    /\ overlap \in Nat /\ remaining \in Nat
    /\ \A c \in Controllers : Deadline(c) \in Nat /\ gap[c] \in Nat /\ gap[c] <= Deadline(c)

\* What is left of the tolerance is a time.
LEMMA Times == TypeOK => AreTimes
<1> SUFFICES ASSUME TypeOK PROVE AreTimes
  OBVIOUS
<1> USE TimingAssumption DEF TypeOK
<1>1. Tolerated \in Nat
  BY Tolerance DEF Tolerated
<1>2. Tolerated < TTL
  BY <1>1, TTLAssumption DEF Tolerated
<1>3. ASSUME NEW c \in Controllers
      PROVE  Deadline(c) \in Nat /\ gap[c] \in Nat /\ gap[c] <= Deadline(c)
  <2> DEFINE left == MaxDBFailures - 1 - failures[c]
  <2>1. left \in Nat
    OBVIOUS
  <2> HIDE DEF left
  <2>2. left * MaxGap \in Nat
    BY <2>1, Tolerance
  <2>3. Deadline(c) = gap[c] + left * MaxGap
    BY DEF Deadline, left
  <2>4. gap[c] \in Nat
    OBVIOUS
  <2> QED
    BY <2>2, <2>3, <2>4
<1> QED
  BY <1>1, <1>2, <1>3 DEF AreTimes

\* The same of the next state.
LEMMA NextTimes == TypeOK' => AreTimes'
  BY Times, PTL

\* A step that is no tick and gives c the lock for the whole TTL.
LEMMA LockedSInv ==
    ASSUME TypeOK, TypeOK', SInv, NEW c \in Controllers, SetLock(c),
           holder \in {NoLeader, c}, UNCHANGED overlap,
           ~Leads(c)' \/ Deadline(c)' <= Tolerated \/ Deadline(c)' < TTL,
           \A d \in Controllers \ {c} :
               (Leads(d)' => Leads(d)) /\ Deadline(d)' = Deadline(d)
    PROVE  SInv'
<1> USE ControllersAssumption, Times, NextTimes DEF AreTimes
<1>1. Tolerated' = Tolerated
  BY DEF Tolerated
<1>2. ASSUME NEW d \in Controllers
      PROVE  HasLock(d)' /\ Lockless(d)'
  <2>1. CASE d = c
    BY <1>1, <2>1 DEF HasLock, Lockless, SetLock
  <2>2. CASE d # c /\ Leads(d)'
    <3>1. Leads(d) /\ holder # d /\ Deadline(d)' = Deadline(d)
      BY <2>2
    <3>2. overlap + Deadline(d) <= Tolerated /\ \A e \in Controllers \ {d} : Leads(e) => holder = e
      BY <3>1 DEF SInv, Lockless
    <3>3. Deadline(d) < TTL
      BY <3>2
    <3>4. ASSUME NEW e \in Controllers \ {d}, Leads(e)', e # c
          PROVE  FALSE
      <4>1. Leads(e)
        BY <3>4
      <4>2. holder = e
        BY <3>2, <4>1
      <4> QED
        BY <3>4, <4>2
    <3> QED
      BY <1>1, <2>2, <3>1, <3>2, <3>3, <3>4 DEF HasLock, Lockless, SetLock
  <2> QED
    BY <2>1, <2>2 DEF HasLock, Lockless
<1> QED
  BY <1>1, <1>2 DEF SInv

\* A step in which c fails or stops, and nobody gets the lock.
LEMMA UnlockedSInv ==
    ASSUME TypeOK, TypeOK', SInv, NEW c \in Controllers, UNCHANGED overlap,
           \/ KeepLock
           \/ holder = c /\ holder' = NoLeader /\ remaining' = 0 /\ ~Leads(c)',
           \/ ~Leads(c)'
           \/ Leads(c) /\ Deadline(c)' <= Deadline(c)
           \/ holder = c /\ Leads(c) /\ Deadline(c)' <= Tolerated,
           \A d \in Controllers \ {c} :
               (Leads(d)' => Leads(d)) /\ Deadline(d)' = Deadline(d)
    PROVE  SInv'
<1> USE ControllersAssumption, Times, NextTimes DEF AreTimes
<1>1. Tolerated' = Tolerated
  BY DEF Tolerated
<1>2. ASSUME NEW d \in Controllers, Leads(d)'
      PROVE  HasLock(d)' /\ Lockless(d)'
  <2>1. Leads(d) /\ HasLock(d) /\ Lockless(d)
    BY <1>2 DEF SInv
  <2>2. Deadline(d)' <= Deadline(d) \/ (holder = d /\ KeepLock /\ Deadline(d)' <= Tolerated)
    BY <1>2
  <2>3. \A e \in Controllers : Leads(e)' => Leads(e)
    OBVIOUS
  <2>4. CASE KeepLock
    BY <1>1, <2>1, <2>2, <2>3, <2>4 DEF HasLock, Lockless, KeepLock
  <2>5. CASE holder = c /\ holder' = NoLeader /\ remaining' = 0 /\ ~Leads(c)'
    <3>1. d # c /\ holder # d /\ Deadline(d)' = Deadline(d)
      BY <1>2, <2>5
    <3> QED
      BY <1>1, <2>1, <2>3, <2>5, <3>1 DEF HasLock, Lockless
  <2> QED
    BY <2>4, <2>5
<1> QED
  BY <1>1, <1>2 DEF SInv, HasLock, Lockless

\* Of the others, a turn of c changes nothing.
LEMMA OthersStay ==
    ASSUME TypeOK, NEW c \in Controllers, NEW r, NEW n,
           Become(c, r) \/ UNCHANGED role,
           SetFailures(c, n) \/ UNCHANGED failures,
           (\E time : NextTurn(c, time)) \/ UNCHANGED gap
    PROVE  \A d \in Controllers \ {c} :
               (Leads(d)' => Leads(d)) /\ Deadline(d)' = Deadline(d)
  BY DEF TypeOK, Become, SetFailures, NextTurn, Leads, Deadline

\* With a failure, a leader comes a gap closer to its deadline.
LEMMA FailureSpends ==
    ASSUME TypeOK, NEW c \in Controllers, NEW n \in 1..(MaxDBFailures - 1),
           StayLeader(c, n)
    PROVE  /\ Deadline(c)' <= Tolerated
           /\ n = failures[c] + 1 => Deadline(c)' <= Deadline(c)
<1> USE TimingAssumption DEF TypeOK
<1>1. failures'[c] = n /\ gap'[c] = MaxGap
  BY DEF StayLeader, SetFailures, NextTurn
<1> DEFINE left == MaxDBFailures - 1 - n
<1>2. left \in Nat /\ left * MaxGap \in Nat
  BY Tolerance
<1>3. Deadline(c)' = MaxGap + left * MaxGap
  BY <1>1 DEF Deadline
<1>4. Deadline(c)' = (left + 1) * MaxGap
  BY <1>2, <1>3, Tolerance
<1>5. Deadline(c)' <= Tolerated
  <2>1. PICK k \in Nat : MaxDBFailures - 1 = (left + 1) + k
    OBVIOUS
  <2>2. k * MaxGap \in Nat /\ (left + 1) * MaxGap \in Nat
    BY <1>2, Tolerance
  <2> HIDE DEF left
  <2>3. (left + 1 + k) * MaxGap = (left + 1) * MaxGap + k * MaxGap
    BY <1>2
  <2> QED
    BY <1>4, <2>1, <2>2, <2>3 DEF Tolerated
<1>6. ASSUME n = failures[c] + 1
      PROVE  Deadline(c)' <= Deadline(c)
  <2>1. left + 1 = MaxDBFailures - 1 - failures[c]
    BY <1>6
  <2>2. Deadline(c) = gap[c] + (left + 1) * MaxGap
    BY <2>1 DEF Deadline
  <2>3. gap[c] \in Nat /\ (left + 1) * MaxGap \in Nat
    BY <1>2, Tolerance
  <2> QED
    BY <1>4, <2>2, <2>3
<1> QED
  BY <1>5, <1>6

\* A renewal restores the tolerance, and the lock outlasts it.
LEMMA RenewalRestores ==
    ASSUME TypeOK, NEW c \in Controllers, NEW time \in 0..MaxStart,
           SetFailures(c, 0), NextTurn(c, time)
    PROVE  Deadline(c)' < TTL
<1> USE TimingAssumption DEF TypeOK
<1>1. Deadline(c)' = time + Tolerated
  BY DEF SetFailures, NextTurn, Deadline, Tolerated
<1>2. Tolerated \in Nat /\ MaxStart + Tolerated < TTL
  BY Times, TTLAssumption DEF AreTimes, Tolerated
<1> QED
  BY <1>1, <1>2

\* Two leaders at a tick: one of them has lost the lock, and has its next
\* turn still to come.
LEMMA TickSInv ==
    ASSUME TypeOK, TypeOK', SInv, Tick
    PROVE  SInv'
<1> USE ControllersAssumption, Times, NextTimes DEF AreTimes
<1>1. Tolerated' = Tolerated
  BY DEF Tolerated
<1>2. ASSUME NEW d \in Controllers, Leads(d)
      PROVE  Leads(d)' /\ gap[d] > 0 /\ Deadline(d)' = Deadline(d) - 1
  <2>1. gap[d] > 0 /\ gap'[d] = gap[d] - 1 /\ UNCHANGED <<role, failures>>
    BY <1>2 DEF Tick, Awaited, TypeOK
  <2> DEFINE spent == (MaxDBFailures - 1 - failures[d]) * MaxGap
  <2>2. spent \in Nat
    BY TimingAssumption, Tolerance DEF TypeOK
  <2>3. Deadline(d) = gap[d] + spent /\ Deadline(d)' = gap'[d] + spent
    BY <2>1 DEF Deadline
  <2> HIDE DEF spent
  <2> QED
    BY <1>2, <2>1, <2>2, <2>3 DEF Leads
<1>3. ASSUME NEW d \in Controllers
      PROVE  Leads(d)' <=> Leads(d)
  BY DEF Tick, Leads
<1>4. ASSUME NEW c \in Controllers, NEW d \in Controllers,
             c # d, Leads(c), Leads(d), holder # c
      PROVE  holder = d /\ overlap + Deadline(c) <= Tolerated /\ Deadline(c) < remaining
  BY <1>4 DEF SInv, Lockless
<1>5. overlap' <= Tolerated
  <2>1. CASE SplitBrain
    <3>1. PICK c \in Controllers, d \in Controllers :
               c # d /\ Leads(c) /\ Leads(d) /\ holder # c
      BY <2>1 DEF SplitBrain
    <3>2. overlap + Deadline(c) <= Tolerated /\ Deadline(c) \in Nat /\ Deadline(c) >= 1
      BY <1>2, <1>4, <3>1
    <3> QED
      BY <2>1, <3>2 DEF Tick
  <2>2. CASE ~SplitBrain
    BY <2>2 DEF Tick
  <2> QED
    BY <2>1, <2>2
<1>6. ASSUME NEW d \in Controllers, Leads(d)
      PROVE  HasLock(d)' /\ Lockless(d)'
  <2>1. HasLock(d) /\ Lockless(d) /\ Deadline(d)' = Deadline(d) - 1 /\ Deadline(d) >= 1
    BY <1>2, <1>6 DEF SInv
  <2>2. /\ remaining' = IF remaining > 0 THEN remaining - 1 ELSE 0
        /\ holder' = IF remaining' = 0 THEN NoLeader ELSE holder
        /\ overlap' = IF SplitBrain THEN overlap + 1 ELSE 0
    BY DEF Tick
  <2>3. CASE holder # d
    <3>1. overlap + Deadline(d) <= Tolerated /\ (holder # NoLeader => Deadline(d) < remaining)
      BY <1>6, <2>1, <2>3 DEF Lockless
    <3>2. overlap' + Deadline(d)' <= Tolerated
      BY <2>1, <2>2, <3>1
    <3>3. holder' # d /\ (holder' # NoLeader => Deadline(d)' < remaining')
      BY <2>1, <2>2, <2>3, <3>1
    <3>4. ASSUME NEW e \in Controllers \ {d}, Leads(e)'
          PROVE  holder' = e
      <4>1. holder = e
        BY <1>3, <1>6, <2>3, <3>4, <1>4
      <4>2. Deadline(d) < remaining
        BY <3>1, <4>1
      <4> QED
        BY <2>1, <2>2, <4>1, <4>2
    <3> QED
      BY <1>1, <3>2, <3>3, <3>4 DEF HasLock, Lockless
  <2>4. CASE holder = d /\ remaining > 1
    <3>1. holder' = d /\ remaining' = remaining - 1
      BY <2>2, <2>4
    <3>2. Deadline(d) <= Tolerated \/ Deadline(d) < remaining
      BY <1>6, <2>1, <2>4 DEF HasLock
    <3> QED
      BY <1>1, <2>1, <3>1, <3>2 DEF HasLock, Lockless
  <2>5. CASE holder = d /\ remaining <= 1
    <3>1. holder' = NoLeader
      BY <2>2, <2>5
    <3>2. ASSUME NEW e \in Controllers \ {d}, Leads(e)
          PROVE  FALSE
      <4>1. Deadline(e) < remaining
        BY <1>4, <1>6, <2>5, <3>2
      <4>2. Deadline(e) >= 1
        BY <1>2, <3>2
      <4> QED
        BY <2>5, <4>1, <4>2
    <3>3. overlap' = 0
      BY <2>2, <3>2 DEF SplitBrain
    <3>4. Deadline(d) <= Tolerated
      BY <1>6, <2>1, <2>5 DEF HasLock
    <3>5. overlap' + Deadline(d)' <= Tolerated
      BY <2>1, <3>3, <3>4
    <3> QED
      BY <1>1, <1>3, <3>1, <3>2, <3>5 DEF HasLock, Lockless
  <2> QED
    BY <2>3, <2>4, <2>5
<1> QED
  BY <1>1, <1>3, <1>5, <1>6 DEF SInv, HasLock, Lockless

\* No turn, release or crash prolongs the time with two leaders.
LEMMA NextSInv ==
    ASSUME TypeOK, TypeOK', SInv, [Next]_vars
    PROVE  SInv'
<1> USE TimingAssumption
<1>1. CASE Tick
  BY <1>1, TickSInv
<1>2. ASSUME NEW c \in Controllers, Renew(c) \/ Reacquire(c)
      PROVE  SInv'
  <2>1. /\ SetLock(c) /\ SetFailures(c, 0) /\ NextTurn(c, MaxGap) /\ UNCHANGED role
        /\ holder \in {NoLeader, c} /\ UNCHANGED overlap
    BY <1>2 DEF Renew, Reacquire, StayLeader, waits
  <2> QED
    BY <2>1, RenewalRestores, OthersStay, LockedSInv
<1>3. ASSUME NEW c \in Controllers, Acquire(c)
      PROVE  SInv'
  <2>1. /\ SetLock(c) /\ SetFailures(c, 0) /\ NextTurn(c, MaxStart) /\ Become(c, "leader")
        /\ holder \in {NoLeader, c} /\ UNCHANGED overlap
    BY <1>3 DEF Acquire
  <2> QED
    BY <2>1, RenewalRestores, OthersStay, LockedSInv
<1>4. ASSUME NEW c \in Controllers, StepDown(c), KeepLock, UNCHANGED overlap
      PROVE  SInv'
  <2>1. ~Leads(c)'
    BY <1>4 DEF StepDown, Become, TypeOK, Leads
  <2>2. Become(c, "follower") /\ SetFailures(c, 0) /\ \E time : NextTurn(c, time)
    BY <1>4 DEF StepDown, NextTry
  <2> QED
    BY <1>4, <2>1, <2>2, OthersStay, UnlockedSInv
<1>5. ASSUME NEW c \in Controllers, ReadFails(c)
      PROVE  SInv'
  <2>1. CASE failures[c] + 1 >= MaxDBFailures
    BY <1>4, <1>5, <2>1 DEF ReadFails, ConnectionError, waits
  <2>2. CASE failures[c] + 1 < MaxDBFailures
    <3>1. StayLeader(c, failures[c] + 1) /\ Leads(c) /\ KeepLock /\ UNCHANGED overlap
      BY <1>5, <2>2 DEF ReadFails, ConnectionError, TypeOK, waits
    <3>2. failures[c] + 1 \in 1..(MaxDBFailures - 1)
      BY <2>2 DEF TypeOK
    <3>3. Deadline(c)' <= Deadline(c)
      BY <3>1, <3>2, FailureSpends
    <3> QED
      BY <3>1, <3>3, OthersStay, UnlockedSInv DEF StayLeader
  <2> QED
    BY <2>1, <2>2 DEF TypeOK
<1>6. ASSUME NEW c \in Controllers, WriteFails(c)
      PROVE  SInv'
  <2>1. Leads(c) /\ holder = c /\ ConnectionError(c, 1) /\ UNCHANGED overlap
    BY <1>6 DEF WriteFails, waits
  <2>2. CASE MaxDBFailures = 1
    <3>1. StepDown(c)
      BY <2>1, <2>2 DEF ConnectionError
    <3>2. CASE KeepLock
      BY <1>4, <2>1, <3>1, <3>2
    <3>3. CASE SetLock(c)
      <4>1. Become(c, "follower") /\ SetFailures(c, 0) /\ \E time : NextTurn(c, time)
        BY <3>1 DEF StepDown, NextTry
      <4>2. ~Leads(c)'
        BY <4>1 DEF Become, TypeOK, Leads
      <4> QED
        BY <2>1, <3>3, <4>1, <4>2, OthersStay, LockedSInv
    <3> QED
      BY <1>6, <3>2, <3>3 DEF WriteFails
  <2>3. CASE MaxDBFailures > 1
    <3>1. StayLeader(c, 1) /\ 1 \in 1..(MaxDBFailures - 1)
      BY <2>1, <2>3 DEF ConnectionError
    <3>2. Deadline(c)' <= Tolerated
      BY <3>1, FailureSpends
    <3>3. CASE KeepLock
      BY <2>1, <3>1, <3>2, <3>3, OthersStay, UnlockedSInv DEF StayLeader
    <3>4. CASE SetLock(c)
      BY <2>1, <3>1, <3>2, <3>4, OthersStay, LockedSInv DEF StayLeader
    <3> QED
      BY <1>6, <3>3, <3>4 DEF WriteFails
  <2> QED
    BY <2>2, <2>3
<1>7. ASSUME NEW c \in Controllers, Lose(c)
      PROVE  SInv'
  BY <1>4, <1>7 DEF Lose, waits
<1>8. ASSUME NEW c \in Controllers, Resign(c)
      PROVE  SInv'
  <2>1. ~Leads(c)' /\ Become(c, "resigning") /\ UNCHANGED <<failures, gap, overlap>>
    BY <1>8 DEF Resign, Become, TypeOK, Leads, waits
  <2>2. KeepLock \/ (holder = c /\ holder' = NoLeader /\ remaining' = 0)
    BY <1>8 DEF Resign
  <2> QED
    BY <2>1, <2>2, OthersStay, UnlockedSInv
<1>9. ASSUME NEW c \in Controllers, Resigned(c) \/ Crash(c)
      PROVE  SInv'
  <2>1. ~Leads(c)' /\ Become(c, "follower") /\ KeepLock /\ UNCHANGED overlap
    BY <1>9 DEF Resigned, Crash, Become, TypeOK, Leads, KeepLock, waits
  <2>2. /\ SetFailures(c, 0) \/ UNCHANGED failures
        /\ NextTurn(c, 0) \/ UNCHANGED gap
    BY <1>9 DEF Resigned, Crash
  <2> QED
    BY <2>1, <2>2, OthersStay, UnlockedSInv
<1>10. ASSUME NEW c \in Controllers, Refused(c) \/ AcquireFails(c)
       PROVE  SInv'
  <2>1. /\ ~Leads(c)' /\ UNCHANGED <<role, failures, overlap>>
        /\ \E time : NextTurn(c, time)
        /\ KeepLock \/ (SetLock(c) /\ holder \in {NoLeader, c})
    BY <1>10 DEF Refused, AcquireFails, NextTry, Leads, KeepLock, waits
  <2> QED
    BY <2>1, OthersStay, LockedSInv, UnlockedSInv
<1>11. CASE UNCHANGED vars
  BY <1>11 DEF vars, waits, SInv, HasLock, Lockless, Leads, Deadline, Tolerated
<1> QED
  BY <1>1, <1>2, <1>3, <1>5, <1>6, <1>7, <1>8, <1>9, <1>10, <1>11 DEF Next

\* Two leaders coexist for no longer than a leader tolerates failures, even
\* where the writes of all of them fail (leader.go, MaxDBFailures).
THEOREM SplitBrainEnds == Spec => []SplitBrainIsShort
<1>1. SInv => SplitBrainIsShort
  BY DEF SInv, SplitBrainIsShort, Tolerated
<1>2. Spec => []SInv
  BY InitSInv, NextSInv, TypeCorrect, PTL DEF Spec
<1> QED
  BY <1>1, <1>2, PTL

-----------------------------------------------------------------------------
(* How long there is no leader, if somebody stands by                      *)

\* While there is a leader nothing has been waited for.  Otherwise the lock,
\* if it still exists, was last set before that; and a follower that stands
\* by has its next turn in time.
FInv ==
    /\ (\E c \in Controllers : Leads(c)) => vacant = 0
    /\ holder # NoLeader => remaining > 0 /\ vacant + remaining <= TTL
    /\ \A s \in Standby : /\ role[s] \in {"leader", "follower"}
                          /\ ~Leads(s) => vacant + gap[s] < TTL + MaxGap

LEMMA Bounds ==
    TTL \in Nat /\ MaxGap \in Nat \ {0} /\ MaxStart \in Nat /\ MaxStart < TTL
  BY TimingAssumption, TTLAssumption, Tolerance

LEMMA InitFInv == Init => FInv
  BY Bounds, StandbyAssumption DEF Init, FInv, Leads

\* With every tick the lock comes as much closer to its expiry, and whoever
\* stands by to its turn.
LEMMA TickFInv ==
    ASSUME TypeOK, FInv, Tick
    PROVE  FInv'
<1> USE Bounds, StandbyAssumption DEF TypeOK
<1>1. \A c \in Controllers : Leads(c)' <=> Leads(c)
  BY DEF Tick, Leads
<1>2. (\E c \in Controllers : Leads(c))' => vacant' = 0
  BY <1>1 DEF Tick
<1>3. vacant' \in {0, vacant + 1}
  BY DEF Tick
<1>4. ASSUME holder' # NoLeader
      PROVE  remaining' > 0 /\ vacant' + remaining' <= TTL
  <2>1. holder # NoLeader /\ remaining' = remaining - 1 /\ remaining' > 0
    BY <1>4 DEF Tick
  <2>2. vacant + remaining <= TTL
    BY <2>1 DEF FInv
  <2>3. CASE vacant' = 0
    BY <2>1, <2>3
  <2>4. CASE vacant' = vacant + 1
    BY <2>1, <2>2, <2>4
  <2> QED
    BY <1>3, <2>3, <2>4
<1>5. ASSUME NEW s \in Standby, ~Leads(s)'
      PROVE  vacant' + gap'[s] < TTL + MaxGap
  <2>1. ~Leads(s) /\ gap[s] > 0 /\ gap'[s] = gap[s] - 1
    BY <1>1, <1>5 DEF Tick, Awaited
  <2> QED
    BY <1>3, <2>1 DEF FInv
<1>6. UNCHANGED role
  BY DEF Tick
<1> QED
  BY <1>2, <1>4, <1>5, <1>6 DEF FInv

LEMMA LockInTime ==
    ASSUME TypeOK, FInv, vacant' = 0,
           KeepLock \/ holder' = NoLeader \/ \E c \in Controllers : SetLock(c)
    PROVE  holder' # NoLeader => remaining' > 0 /\ vacant' + remaining' <= TTL
<1>1. remaining \in Nat /\ remaining <= TTL
  BY Bounds DEF TypeOK
<1>2. CASE KeepLock
  BY <1>1, <1>2 DEF FInv, KeepLock
<1>3. CASE \E c \in Controllers : SetLock(c)
  BY <1>3, Bounds DEF SetLock
<1> QED
  BY <1>2, <1>3

\* A turn of a leader's, and what ends a leadership otherwise.
LEMMA LeaderFInv ==
    ASSUME TypeOK, TypeOK', FInv, NEW c \in Controllers, Leads(c), UNCHANGED vacant,
           KeepLock \/ SetLock(c) \/ (holder' = NoLeader),
           \A d \in Controllers \ {c} : role'[d] = role[d] /\ gap'[d] = gap[d],
           role'[c] \in {"leader", "follower"} \/ c \notin Standby
    PROVE  FInv'
<1> USE Bounds, StandbyAssumption DEF TypeOK
<1>1. vacant = 0
  BY DEF FInv
<1>2. holder' # NoLeader => remaining' > 0 /\ vacant' + remaining' <= TTL
  BY <1>1, LockInTime
<1>3. ASSUME NEW s \in Standby
      PROVE  role'[s] \in {"leader", "follower"} /\ vacant' + gap'[s] < TTL + MaxGap
  <2>1. gap'[s] \in 0..MaxStart
    OBVIOUS
  <2> QED
    BY <1>1, <2>1 DEF FInv
<1> QED
  BY <1>1, <1>2, <1>3 DEF FInv

\* A turn of a follower's: it gets the lock, or is kept from it by an error,
\* or the lock has not expired.
LEMMA FollowerFInv ==
    ASSUME TypeOK, TypeOK', FInv, NEW c \in Controllers,
           \/ vacant' = 0 /\ (KeepLock \/ SetLock(c))
           \/ /\ UNCHANGED vacant /\ KeepLock /\ UNCHANGED role
              /\ holder # NoLeader /\ (c \in Standby => gap'[c] = MaxGap),
           \A d \in Controllers \ {c} : role'[d] = role[d] /\ gap'[d] = gap[d],
           role'[c] \in {"leader", "follower"}
    PROVE  FInv'
<1> USE Bounds, StandbyAssumption DEF TypeOK
<1>1. CASE vacant' = 0 /\ (KeepLock \/ SetLock(c))
  <2>1. holder' # NoLeader => remaining' > 0 /\ vacant' + remaining' <= TTL
    BY <1>1, LockInTime
  <2>2. ASSUME NEW s \in Standby
        PROVE  role'[s] \in {"leader", "follower"} /\ vacant' + gap'[s] < TTL + MaxGap
    <3>1. gap'[s] \in 0..MaxStart
      OBVIOUS
    <3> QED
      BY <1>1, <3>1 DEF FInv
  <2> QED
    BY <1>1, <2>1, <2>2 DEF FInv
<1>2. CASE /\ UNCHANGED vacant /\ KeepLock /\ UNCHANGED role
           /\ holder # NoLeader /\ (c \in Standby => gap'[c] = MaxGap)
  <2>1. vacant < TTL
    BY <1>2 DEF FInv
  <2>2. \A d \in Controllers : Leads(d)' <=> Leads(d)
    BY <1>2 DEF Leads
  <2>3. ASSUME NEW s \in Standby, ~Leads(s)'
        PROVE  vacant' + gap'[s] < TTL + MaxGap
    BY <1>2, <2>1, <2>2, <2>3 DEF FInv
  <2> QED
    BY <1>2, <2>2, <2>3 DEF FInv, KeepLock
<1> QED
  BY <1>1, <1>2

LEMMA NextFInv ==
    ASSUME TypeOK, TypeOK', FInv, [Next]_vars
    PROVE  FInv'
<1> USE DEF StayLeader, StepDown, NextTry, Become, NextTurn, SetFailures, waits
<1>1. CASE Tick
  BY <1>1, TickFInv
<1>2. ASSUME NEW c \in Controllers,
             Renew(c) \/ ReadFails(c) \/ WriteFails(c) \/ Reacquire(c) \/ Lose(c)
      PROVE  FInv'
  <2>1. Leads(c) /\ (KeepLock \/ SetLock(c)) /\ UNCHANGED vacant
    BY <1>2 DEF Renew, ReadFails, WriteFails, Reacquire, Lose
  <2>2. StepDown(c) \/ \E n : StayLeader(c, n)
    BY <1>2 DEF Renew, ReadFails, WriteFails, Reacquire, Lose, ConnectionError
  <2>3. /\ \A d \in Controllers \ {c} : role'[d] = role[d] /\ gap'[d] = gap[d]
        /\ role'[c] \in {"leader", "follower"}
    BY <2>1, <2>2 DEF Leads, TypeOK
  <2> QED
    BY <2>1, <2>3, LeaderFInv
<1>3. ASSUME NEW c \in Controllers, Resign(c)
      PROVE  FInv'
  BY <1>3, LeaderFInv DEF Resign, TypeOK
<1>4. ASSUME NEW c \in Controllers, Acquire(c) \/ AcquireFails(c)
      PROVE  FInv'
  BY <1>4, FollowerFInv DEF Acquire, AcquireFails, TypeOK
<1>5. ASSUME NEW c \in Controllers, Refused(c)
      PROVE  FInv'
  BY <1>5, FollowerFInv DEF Refused, KeepLock, TypeOK
<1>6. ASSUME NEW c \in Controllers, Resigned(c) \/ Crash(c)
      PROVE  FInv'
  <2>1. c \notin Standby
    BY <1>6 DEF Resigned, Crash, FInv
  <2>2. UNCHANGED <<holder, remaining, vacant>>
    BY <1>6 DEF Resigned, Crash
  <2>3. /\ \A d \in Controllers \ {c} : role'[d] = role[d] /\ gap'[d] = gap[d]
        /\ ~Leads(c)'
    BY <1>6 DEF Resigned, Crash, Leads, TypeOK
  <2> QED
    BY <2>1, <2>2, <2>3, StandbyAssumption DEF FInv, Leads
<1>7. CASE UNCHANGED vars
  BY <1>7 DEF vars, FInv, Leads
<1> QED
  BY <1>1, <1>2, <1>3, <1>4, <1>5, <1>6, <1>7 DEF Next

\* Where somebody stands by, there is a leader again before the TTL and the
\* time between two turns have passed.
THEOREM FailoverInTime == Spec => []FailoverIsBounded
<1>1. TypeOK /\ FInv => FailoverIsBounded
  <2> SUFFICES ASSUME TypeOK, FInv, NEW s \in Standby PROVE vacant < TTL + MaxGap
    BY DEF FailoverIsBounded
  <2>1. CASE Leads(s)
    BY <2>1, Bounds, StandbyAssumption DEF FInv
  <2>2. CASE ~Leads(s)
    BY <2>2, Bounds, StandbyAssumption DEF FInv, TypeOK
  <2> QED
    BY <2>1, <2>2
<1>2. Spec => []FInv
  BY InitFInv, NextFInv, TypeCorrect, PTL DEF Spec
<1> QED
  BY <1>1, <1>2, TypeCorrect, PTL

=============================================================================
