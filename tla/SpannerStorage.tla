--------------------------- MODULE SpannerStorage ---------------------------
(***************************************************************************)
(* SpannerStorage (pkg/storage/spanner_storage.go), for one key of the     *)
(* table.  Every call is one read-write transaction, which Spanner         *)
(* serialises, and so one step.  The client's clock says when its row      *)
(* expires, and the server's CURRENT_TIMESTAMP() whether a row has.  A     *)
(* transaction may fail, with or without its effect.                       *)
(***************************************************************************)
EXTENDS StorageSetting

Init == InitLock

Tick ==
    /\ clock < MaxClock
    /\ clock' = clock + 1
    /\ NoAnswer
    /\ KeepLock

\* A row that CURRENT_TIMESTAMP() has not passed.
ServerNow == clock + ServerSkew
Live == holder # Nobody /\ expires > ServerNow

Take(c) == SetLock(c, Now(c)) /\ Promise(c, Promised(Now(c)))

\* The row is replaced when it has expired, and renewed when it is the
\* caller's own.
Available(c) == ~Live \/ holder = c

TryAcquireLock(c) ==
    /\ \/ Available(c) /\ Take(c)
       \/ ~Available(c) /\ KeepLock /\ Refuse(c)
       \/ (KeepLock \/ (Available(c) /\ SetLock(c, Now(c)))) /\ Refuse(c)  \* an error
    /\ UNCHANGED clock

\* Only of a live row.  After an error c goes by the promise it has.
RenewLock(c) ==
    /\ \/ Live /\ holder = c /\ Take(c)
       \/ ~(Live /\ holder = c) /\ KeepLock /\ Refuse(c)
       \/ Live /\ holder = c /\ SetLock(c, Now(c)) /\ NoAnswer  \* an error
    /\ UNCHANGED clock

\* Also of an expired row, if it is still the caller's.
ReleaseLock(c) ==
    /\ holder' \in {holder, IF holder = c THEN Nobody ELSE holder}   \* unchanged on an error
    /\ Refuse(c)
    /\ UNCHANGED <<clock, expires>>

\* cleanupExpiredLocks, every five minutes in every controller.
CleanupExpiredLocks ==
    /\ holder # Nobody /\ expires < ServerNow
    /\ holder' = Nobody
    /\ NoAnswer
    /\ UNCHANGED <<clock, expires>>

\* The controller dies and comes back with the same ID.
Crash(c) == KeepLock /\ Refuse(c) /\ UNCHANGED clock

Next ==
    \/ Tick
    \/ CleanupExpiredLocks
    \/ \E c \in Clients :
          TryAcquireLock(c) \/ RenewLock(c) \/ ReleaseLock(c) \/ Crash(c)

Spec == Init /\ [][Next]_lockVars

\* GetLockInfo and GetLockValue.
GetLockValue == IF Live THEN holder ELSE Nobody

=============================================================================
