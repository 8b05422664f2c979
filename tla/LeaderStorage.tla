---------------------------- MODULE LeaderStorage ----------------------------
(***************************************************************************)
(* The LeaderStorage interface (pkg/storage/storage.go) and its factory,   *)
(* NewLeaderStorage (factory.go): one of four back-ends, by the type in    *)
(* the configuration, does the controllers' calls.  All of them have to be *)
(* the lease of LeaderLease.  The db back-end counts twice: what it does   *)
(* depends on the database being SQLite.                                   *)
(***************************************************************************)
EXTENDS StorageSetting

CONSTANT Types   \* the types of storage that are configured somewhere

\* "sqlite" is the db type with a database of that dialect.
ASSUME TypesAssumption == Types \subseteq {"memory", "redis", "db", "sqlite", "spanner"}

VARIABLES
    type,        \* the configured type, which does not change
    pc,          \* where each client is in a call of several steps
    now          \* the time that a call to DBStorage works with

vars == <<lockVars, type, pc, now>>

Memory == INSTANCE MemoryStorage
Redis == INSTANCE RedisStorage
DB == INSTANCE DBStorage WITH dialect <- type
Spanner == INSTANCE SpannerStorage

\* NewLeaderStorage
Init ==
    /\ type \in Types
    /\ InitLock
    /\ pc = [c \in Clients |-> "idle"]
    /\ now = [c \in Clients |-> 0]

UseMemory == type = "memory" /\ Memory!Next /\ UNCHANGED <<pc, now>>
UseRedis == type = "redis" /\ Redis!Next /\ UNCHANGED now
UseDB == type \in {"db", "sqlite"} /\ DB!Next
UseSpanner == type = "spanner" /\ Spanner!Next /\ UNCHANGED <<pc, now>>

Next ==
    /\ UseMemory \/ UseRedis \/ UseDB \/ UseSpanner
    /\ UNCHANGED type

Spec == Init /\ [][Next]_vars

\* Who d finds to hold the lock.
GetLockValue(d) ==
    CASE type = "memory" -> Memory!GetLockValue
      [] type = "redis" -> Redis!GetLockValue
      [] type \in {"db", "sqlite"} -> DB!GetLockValue(d)
      [] type = "spanner" -> Spanner!GetLockValue

-----------------------------------------------------------------------------

TypeOK ==
    /\ type \in Types
    /\ clock \in 0..MaxClock
    /\ holder \in Clients \cup {Nobody}
    /\ expires \in 0..(MaxClock + MaxSkew + TTL)
    /\ until \in [Clients -> 0..(MaxClock + MaxSkew + TTL)]
    /\ pc \in [Clients -> Redis!PCs \cup DB!PCs]
    /\ now \in [Clients -> 0..(MaxClock + MaxSkew)]
    /\ robbed \subseteq Clients

\* A controller that may count on the lock is the one that every controller
\* reads from the storage: getCurrentLeader cannot take a live leader for
\* gone, or somebody else for the leader, whatever the clocks and the other
\* calls under way.  (A robbed client is what breaks it: the DEL at the end of
\* RedisStorage.ReleaseLock and the DELETE for SQLite rob.)
EntitledIsSeen ==
    \A c \in Clients \ robbed : clock < until[c] =>
        \A d \in Clients : GetLockValue(d) = c

\* A robbed client finds out at its next renewal: it never finds the lock its
\* own again until it has acquired it anew, at the earliest with the row that
\* DBStorage.TryAcquireLock has created and is about to read back.
RobbedIsRefused == \A c \in robbed : holder = c => type # "redis" /\ pc[c] = "verify"

\* Every step of every back-end is one of the lease: the lock is granted only
\* while nobody else may count on it, and never for longer than the TTL.  A
\* call that robs is a Drop of the robbed client's promise, and of no other.
ImplementsLease == Lease!Spec

=============================================================================
