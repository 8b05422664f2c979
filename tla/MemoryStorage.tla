---------------------------- MODULE MemoryStorage ----------------------------
(***************************************************************************)
(* InMemoryStorage (pkg/storage/memory_storage.go), for one lock key: a    *)
(* map entry under one mutex, so that every call is one step, and one      *)
(* clock for all.  An entry outlives its expiry and is overwritten by the  *)
(* next TryAcquireLock.                                                    *)
(***************************************************************************)
EXTENDS StorageSetting

Init == InitLock

\* now.After(ExpiresAt)
Expired == clock > expires

Tick ==
    /\ clock < MaxClock
    /\ clock' = clock + 1
    /\ NoAnswer
    /\ KeepLock

\* The entry is written with an expiry of ttl from now, and c is told so.
Write(c) ==
    /\ SetLock(c, clock)
    /\ Promise(c, clock + TTL)
    /\ UNCHANGED clock

Deny(c) == KeepLock /\ Refuse(c) /\ UNCHANGED clock

TryAcquireLock(c) ==
    IF holder = Nobody \/ Expired \/ holder = c THEN Write(c) ELSE Deny(c)

RenewLock(c) ==
    IF holder = c /\ ~Expired THEN Write(c) ELSE Deny(c)

\* Also of an expired lock, if it is still the caller's.
ReleaseLock(c) ==
    /\ holder' = IF holder = c THEN Nobody ELSE holder
    /\ Refuse(c)
    /\ UNCHANGED <<clock, expires>>

Next ==
    \/ Tick
    \/ \E c \in Clients : TryAcquireLock(c) \/ RenewLock(c) \/ ReleaseLock(c)

Spec == Init /\ [][Next]_lockVars

\* GetLockInfo and GetLockValue.
GetLockValue == IF Expired THEN Nobody ELSE holder

=============================================================================
