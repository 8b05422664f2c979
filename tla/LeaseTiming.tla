----------------------------- MODULE LeaseTiming -----------------------------
(***************************************************************************)
(* Whether the TTL of the lock, the period of the election loop and the    *)
(* number of storage failures a leader tolerates fit together              *)
(* (pkg/leader/leader.go): a leader that cannot reach the storage keeps    *)
(* leading, and must have stopped when its lock expires; and when nobody   *)
(* leads, whoever stands by must soon.                                     *)
(*                                                                         *)
(* A tick is RenewInterval.  One turn of the loop is a step; gap[c] is the *)
(* time in which c's next turn must come.  Turns may come earlier.         *)
(***************************************************************************)
EXTENDS Integers, FiniteSets

CONSTANTS
    Controllers,
    NoLeader,       \* the lock does not exist
    TTL,            \* LockTTL
    MaxGap,         \* the most time between two turns of the loop
    MaxStart,       \* the same after an acquisition, when the loop waits for
                    \* the previous workloads and starts its own, and after a
                    \* leadership, when it stops them
    MaxDBFailures,  \* maxConsecutiveDBFailures
    WritesFail,     \* the controllers whose RenewLock may fail where GetLockValue
                    \* has just answered
    Standby         \* the controllers that stay up, in a healthy cluster, with no
                    \* remainFollower, so that they take their turns as followers

ASSUME ControllersAssumption == NoLeader \notin Controllers
ASSUME StandbyAssumption == Standby \subseteq Controllers
ASSUME TimingAssumption ==
    /\ TTL \in Nat /\ MaxGap \in Nat \ {0} /\ MaxStart \in Nat
    /\ MaxDBFailures \in Nat \ {0}
    /\ MaxGap <= MaxStart

\* LockTTL outlasts the start of the workloads and all the failures a leader
\* tolerates: 60 seconds for the wait, 10 for the failures, 100 for the TTL.
ASSUME TTLAssumption == MaxStart + (MaxDBFailures - 1) * MaxGap < TTL

VARIABLES
    holder,     \* who the storage takes for the holder of the lock
    remaining,  \* the time until the lock expires
    role,       \* follower, leader, or leader about to step down
    failures,   \* lc.dbFailureCount
    gap,        \* the time in which c's next turn must come, if it is awaited
    overlap,    \* for how long there have been two leaders
    vacant      \* for how long there has been none, and no error has kept a
                \* follower from taking the lock

waits == <<overlap, vacant>>
vars == <<holder, remaining, role, failures, gap, waits>>

TypeOK ==
    /\ holder \in Controllers \union {NoLeader}
    /\ remaining \in 0..TTL
    /\ role \in [Controllers -> {"follower", "leader", "resigning"}]
    /\ failures \in [Controllers -> 0..(MaxDBFailures - 1)]
    /\ gap \in [Controllers -> 0..MaxStart]
    /\ overlap \in Nat /\ vacant \in Nat

Init ==
    /\ holder = NoLeader
    /\ remaining = 0
    /\ role = [c \in Controllers |-> "follower"]
    /\ failures = [c \in Controllers |-> 0]
    /\ gap = [c \in Controllers |-> 0]
    /\ overlap = 0 /\ vacant = 0

Leads(c) == role[c] = "leader"
SplitBrain == \E c, d \in Controllers : c # d /\ Leads(c) /\ Leads(d)

Become(c, r) == role' = [role EXCEPT ![c] = r]
NextTurn(c, time) == gap' = [gap EXCEPT ![c] = time]
SetFailures(c, n) == failures' = [failures EXCEPT ![c] = n]
SetLock(c) == holder' = c /\ remaining' = TTL
KeepLock == UNCHANGED <<holder, remaining>>

\* Whose turns come in time: a leader's, and a follower's that stands by.
Awaited(c) == Leads(c) \/ c \in Standby
NextTry(c, time) == NextTurn(c, IF c \in Standby THEN time ELSE 0)

\* A tick passes, unless a turn is due.
Tick ==
    /\ \A c \in Controllers : Awaited(c) => gap[c] > 0
    /\ gap' = [c \in Controllers |-> IF Awaited(c) THEN gap[c] - 1 ELSE gap[c]]
    /\ remaining' = IF remaining > 0 THEN remaining - 1 ELSE 0
    /\ holder' = IF remaining' = 0 THEN NoLeader ELSE holder
    /\ overlap' = IF SplitBrain THEN overlap + 1 ELSE 0
    /\ vacant' = IF \E c \in Controllers : Leads(c) THEN 0 ELSE vacant + 1
    /\ UNCHANGED <<role, failures>>

-----------------------------------------------------------------------------
(* A turn of the loop, in a leader: RenewLeadership                        *)

\* The count of a follower is of no interest: every acquisition resets it.
StepDown(c) == Become(c, "follower") /\ SetFailures(c, 0) /\ NextTry(c, MaxStart)
StayLeader(c, n) == SetFailures(c, n) /\ NextTurn(c, MaxGap) /\ UNCHANGED role

\* Mutants of ConnectionError: the leader never gives up, it does not count,
\* or it tolerates one failure more.
MutNoThreshold(c, n) == StayLeader(c, n)
MutNoCount(c, n) ==
    IF n >= MaxDBFailures THEN StepDown(c) ELSE StayLeader(c, failures[c])
MutOffByOne(c, n) ==
    IF n > MaxDBFailures THEN StepDown(c) ELSE StayLeader(c, n)

\* A connection error, the n-th in a row: tolerated below the threshold.
ConnectionError(c, n) ==
    IF n >= MaxDBFailures THEN StepDown(c) ELSE StayLeader(c, n)

\* Mutant of Renew: the lock is checked, but its TTL not renewed.
MutRenew(c) ==
    /\ Leads(c) /\ holder = c
    /\ KeepLock
    /\ StayLeader(c, 0)
    /\ UNCHANGED waits

Renew(c) ==
    /\ Leads(c) /\ holder = c
    /\ SetLock(c)
    /\ StayLeader(c, 0)
    /\ UNCHANGED waits

\* GetLockValue cannot reach the storage.
ReadFails(c) ==
    /\ Leads(c)
    /\ ConnectionError(c, failures[c] + 1)
    /\ KeepLock
    /\ UNCHANGED waits

\* GetLockValue answers, which resets the count; RenewLock does not.
WriteFails(c) ==
    /\ c \in WritesFail
    /\ Leads(c) /\ holder = c
    /\ KeepLock \/ SetLock(c)
    /\ ConnectionError(c, 1)
    /\ UNCHANGED waits

\* The lock is gone and TryAcquireLeadership gets it back, or somebody else
\* has it, or the storage returns some other error.
Reacquire(c) ==
    /\ Leads(c) /\ holder = NoLeader
    /\ SetLock(c)
    /\ StayLeader(c, 0)
    /\ UNCHANGED waits

Lose(c) ==
    /\ Leads(c)
    /\ StepDown(c)
    /\ KeepLock
    /\ UNCHANGED waits

\* In a follower: TryAcquireLeadership, on a back-end that also renews the
\* caller's own lock, or on Redis, which does not.
Acquire(c) ==
    /\ role[c] = "follower" /\ holder \in {NoLeader, c}
    /\ SetLock(c)
    /\ Become(c, "leader")
    /\ SetFailures(c, 0)
    /\ NextTurn(c, MaxStart)
    /\ vacant' = 0
    /\ UNCHANGED overlap

\* Mutant of Refused: the follower does not see that the lock has expired.
MutRefused(c) ==
    /\ role[c] = "follower"
    /\ NextTry(c, MaxGap)
    /\ UNCHANGED <<holder, remaining, role, failures, waits>>

\* The lock exists; on Redis its holder is refused too.
Refused(c) ==
    /\ role[c] = "follower" /\ holder # NoLeader
    /\ NextTry(c, MaxGap)
    /\ UNCHANGED <<holder, remaining, role, failures, waits>>

\* The storage returns an error, whether it has set the lock or not.
AcquireFails(c) ==
    /\ role[c] = "follower"
    /\ KeepLock \/ (holder \in {NoLeader, c} /\ SetLock(c))
    /\ NextTry(c, MaxGap)
    /\ vacant' = 0
    /\ UNCHANGED <<role, failures, overlap>>

-----------------------------------------------------------------------------
(* The rest of the controller                                              *)

\* The health check and Stop release the lock, and then stop leading; the
\* release may fail.
Resign(c) ==
    /\ Leads(c) /\ c \notin Standby
    /\ \/ holder = c /\ holder' = NoLeader /\ remaining' = 0
       \/ KeepLock
    /\ Become(c, "resigning")
    /\ UNCHANGED <<failures, gap, waits>>

\* SetLeader(false); or the process, in whatever role, dies and restarts.
Resigned(c) ==
    /\ role[c] = "resigning"
    /\ Become(c, "follower")
    /\ UNCHANGED <<holder, remaining, failures, gap, waits>>

Crash(c) ==
    /\ c \notin Standby
    /\ Become(c, "follower")
    /\ SetFailures(c, 0)
    /\ NextTurn(c, 0)
    /\ UNCHANGED <<holder, remaining, waits>>

Next ==
    \/ Tick
    \/ \E c \in Controllers :
          \/ Renew(c) \/ ReadFails(c) \/ WriteFails(c) \/ Reacquire(c)
          \/ Lose(c) \/ Acquire(c) \/ Refused(c) \/ AcquireFails(c) \/ Resign(c) \/ Resigned(c) \/ Crash(c)

Spec == Init /\ [][Next]_vars

-----------------------------------------------------------------------------

\* What is left of the tolerance of a leader: the time in which it will have
\* stopped at the latest if it never reaches the storage again.
Deadline(c) == gap[c] + (MaxDBFailures - 1 - failures[c]) * MaxGap

\* A leader holds the lock, and its lock outlasts its tolerance, unless its
\* writes fail where its reads answer.
LockOutlastsTolerance ==
    \A c \in Controllers \ WritesFail :
        Leads(c) => holder = c /\ Deadline(c) < remaining

\* There is one leader at most, however the storage fails: a leader that
\* cannot reach it steps down before its lock expires.  What happens to the
\* others whose writes fail makes no difference.
AtMostOneLeader ==
    \A c, d \in Controllers \ WritesFail : Leads(c) /\ Leads(d) => c = d

\* Where writes fail and reads answer, the count starts again with every
\* read and a leader may lose the lock while it leads; but then two leaders
\* coexist for no longer than a leader tolerates failures.
SplitBrainIsShort == overlap <= (MaxDBFailures - 1) * MaxGap

\* However a leadership ends, with or without a release of the lock, by a
\* crash or by failures, the next one begins as soon as the lock has expired
\* and a follower that stands by has had its turn ("Failover Process",
\* docs/architecture.md), unless an error keeps the followers from the lock.
FailoverIsBounded == Standby # {} => vacant < TTL + MaxGap

\* "preventing split-brain scenarios where multiple leaders could be active
\* simultaneously" (leader.go), whatever fails.
NoSplitBrain == ~SplitBrain

=============================================================================
