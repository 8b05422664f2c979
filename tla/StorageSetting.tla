--------------------------- MODULE StorageSetting ---------------------------
(***************************************************************************)
(* What the storage back-ends of pkg/storage have in common: the clients,  *)
(* the clocks, one lock with a holder and an expiry, and what the clients  *)
(* have been told about it.  The metadata of a lock (the version, the      *)
(* timestamps, the name of the cluster) decides nothing and is left out.   *)
(***************************************************************************)
EXTENDS Integers

CONSTANTS
    Clients,     \* the controllers that share the storage
    Nobody,      \* there is no key, no row, no entry
    TTL,         \* the ttl of every call (LockTTL in leader.go)
    Skew,        \* Skew[c]: how far c's clock is ahead of the true time
    ServerSkew,  \* how far the clock of the database server is ahead
    MaxSkew,     \* the most that a clock may be ahead
    MaxClock     \* bound on the time

ASSUME ClientsAssumption == Nobody \notin Clients
ASSUME TimeAssumption == TTL \in Nat \ {0} /\ MaxClock \in Nat
ASSUME SkewAssumption ==
    /\ MaxSkew \in 0..TTL
    /\ Skew \in [Clients -> 0..MaxSkew]
    /\ ServerSkew \in 0..MaxSkew

VARIABLES
    clock,   \* the true time, in ticks
    holder,  \* the Value stored under the key, or Nobody
    expires, \* its ExpiresAt
    until,   \* until[c]: what c has been promised by the answers it got
    robbed   \* whose lock another's DELETE has taken, with no answer since

lockVars == <<clock, holder, expires, until, robbed>>

InitLock ==
    /\ clock = 0
    /\ holder = Nobody
    /\ expires = 0
    /\ until = [c \in Clients |-> 0]
    /\ robbed = {}

\* time.Now() in c.
Now(c) == clock + Skew[c]

\* Mutant of SetLock: the TTL in the wrong unit.
MutSetLock(c, time) == holder' = c /\ expires' = time + 1000 * TTL

\* c's lock, from the given time on; or the lock as it is.
SetLock(c, time) == holder' = c /\ expires' = time + TTL
KeepLock == UNCHANGED <<holder, expires>>

\* The answer to c's call: it holds the lock to the given time, or not at all.
\* The same call may have taken the lock from others, who are not told.
Answer(c, time, others) ==
    /\ until' = [until EXCEPT ![c] = time]
    /\ robbed' = (robbed \ {c}) \cup others
Promise(c, time) == Answer(c, time, {})
Refuse(c) == Promise(c, 0)

\* No answer to anybody, though others may have lost their lock.
Rob(others) == robbed' = robbed \cup others /\ UNCHANGED until
NoAnswer == Rob({})

\* What a client may count on once its lock expires at time + TTL on its own
\* clock: the clock by which another judges that may be MaxSkew ahead of it.
Promised(time) == time + TTL - MaxSkew

\* The promises that still stand: those of the clients not robbed.
due == [c \in Clients |-> IF c \in robbed THEN 0 ELSE until[c]]

Lease == INSTANCE LeaderLease WITH until <- due

=============================================================================
