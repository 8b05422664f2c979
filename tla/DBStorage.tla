------------------------------ MODULE DBStorage ------------------------------
(***************************************************************************)
(* DBStorage (pkg/storage/db_storage.go), for one key of leader_locks.  A  *)
(* statement outside a transaction is a step, and so is a transaction; the *)
(* clients' clocks decide whether a row has expired.  A statement may      *)
(* fail, with or without its effect; a database lock error makes the call  *)
(* start again, and which errors are taken for one is left open.           *)
(*                                                                         *)
(* The one statement that tests the version is in the transaction that has *)
(* just read it.  For the same reason the row count after a renewal and    *)
(* the second DELETE of a release (of a key that is the table's primary    *)
(* key) find nothing.                                                      *)
(***************************************************************************)
EXTENDS StorageSetting

VARIABLES
    dialect,   \* the database, which does not change
    pc,        \* what c does next within its call
    now        \* now[c]: the local variable of that name in TryAcquireLock

vars == <<lockVars, dialect, pc, now>>

PCs == {"idle", "retry", "update", "create", "verify"}

Init ==
    /\ InitLock
    /\ pc = [c \in Clients |-> "idle"]
    /\ now = [c \in Clients |-> 0]

Tick ==
    /\ clock < MaxClock
    /\ clock' = clock + 1
    /\ NoAnswer
    /\ KeepLock
    /\ UNCHANGED <<dialect, pc, now>>

\* The rows that a client takes for unexpired at a given time.
Live(time) == holder # Nobody /\ expires > time

Goto(c, label) == pc' = [pc EXCEPT ![c] = label]

\* TryAcquireLock: an unexpired row decides, or there is none.  The time of
\* the new expiry is taken here, and used in the statements to come.
TryCheck(c) ==
    /\ pc[c] \in {"idle", "retry"}
    /\ \/ Live(Now(c)) /\ holder # c /\ Goto(c, "idle") /\ Refuse(c) /\ UNCHANGED now
       \/ /\ Live(Now(c)) /\ holder = c
          /\ now' = [now EXCEPT ![c] = Now(c)]
          /\ Goto(c, "update")
          /\ NoAnswer
       \/ /\ ~Live(Now(c))
          /\ now' = [now EXCEPT ![c] = Now(c)]
          /\ Goto(c, "create")
          /\ NoAnswer
       \/ Goto(c, "idle") /\ Refuse(c) /\ UNCHANGED now   \* an error
    /\ KeepLock
    /\ UNCHANGED <<clock, dialect>>

\* A database lock error: nothing was done, and the call starts again.
Retry(c) ==
    /\ pc[c] \in {"update", "create"}
    /\ Goto(c, "retry")
    /\ NoAnswer
    /\ UNCHANGED <<clock, holder, expires, dialect, now>>

\* The UPDATE that renews the caller's own row.
TryUpdate(c) ==
    /\ pc[c] = "update"
    /\ \/ holder = c /\ SetLock(c, now[c]) /\ Promise(c, Promised(now[c]))
       \/ holder # c /\ KeepLock /\ Refuse(c)
       \/ (KeepLock \/ (holder = c /\ SetLock(c, now[c]))) /\ Refuse(c)  \* an error
    /\ Goto(c, "idle")
    /\ UNCHANGED <<clock, dialect, now>>

\* The transaction deletes the expired row and creates its own, unless a
\* live row is there; on SQLite it deletes the row whatever it is, and so
\* may take the lock from a client that has acquired it since TryCheck.
Replaceable(c) == dialect = "sqlite" \/ ~Live(now[c])
Robbed(c) == IF Live(now[c]) THEN {holder} \ {c} ELSE {}

TryCreate(c) ==
    /\ pc[c] = "create"
    /\ \/ Replaceable(c) /\ SetLock(c, now[c]) /\ Goto(c, "verify") /\ Rob(Robbed(c))
       \/ /\ Goto(c, "idle")
          /\ \/ ~Replaceable(c) /\ KeepLock /\ Refuse(c)
             \/ KeepLock /\ Refuse(c)   \* an error
             \/ Replaceable(c) /\ SetLock(c, now[c]) /\ Answer(c, 0, Robbed(c))
    /\ UNCHANGED <<clock, dialect, now>>

\* The row is read back, whether it has expired by now or not.
TryVerify(c) ==
    /\ pc[c] = "verify"
    /\ \/ holder = c /\ Promise(c, Promised(now[c]))
       \/ Refuse(c)   \* it is not c's row, or the SELECT failed
    /\ Goto(c, "idle")
    /\ UNCHANGED <<clock, holder, expires, dialect, now>>

\* Mutant of RenewLock: the transaction reads the row by its key only.
MutRenewLock(c) ==
    /\ pc[c] = "idle"
    /\ \/ SetLock(c, Now(c)) /\ (Promise(c, Promised(Now(c))) \/ NoAnswer)
       \/ holder = Nobody /\ KeepLock /\ Refuse(c)
    /\ UNCHANGED <<clock, dialect, pc, now>>

\* RenewLock: one transaction, which does not ask whether the row is live.
\* After an error c goes by the promise it has.
RenewLock(c) ==
    /\ pc[c] = "idle"
    /\ \/ holder = c /\ SetLock(c, Now(c)) /\ Promise(c, Promised(Now(c)))
       \/ holder # c /\ KeepLock /\ Refuse(c)
       \/ holder = c /\ SetLock(c, Now(c)) /\ NoAnswer   \* an error
    /\ UNCHANGED <<clock, dialect, pc, now>>

\* ReleaseLock: one transaction, of the caller's row only.
ReleaseLock(c) ==
    /\ pc[c] = "idle"
    /\ holder' \in {holder, IF holder = c THEN Nobody ELSE holder}   \* unchanged on an error
    /\ Refuse(c)
    /\ UNCHANGED <<clock, expires, dialect, pc, now>>

\* Mutant of CleanupExpiredLocks: the DELETE has lost its condition.
MutCleanupExpiredLocks(c) ==
    /\ holder # Nobody
    /\ holder' = Nobody
    /\ NoAnswer
    /\ UNCHANGED <<clock, expires, dialect, pc, now>>

\* cleanupExpiredLocks, every minute in every controller.
CleanupExpiredLocks(c) ==
    /\ holder # Nobody /\ expires < Now(c)
    /\ holder' = Nobody
    /\ NoAnswer
    /\ UNCHANGED <<clock, expires, dialect, pc, now>>

\* The controller dies and comes back with the same ID.
Crash(c) ==
    /\ Goto(c, "idle")
    /\ Refuse(c)
    /\ UNCHANGED <<clock, holder, expires, dialect, now>>

Next ==
    \/ Tick
    \/ \E c \in Clients :
          \/ TryCheck(c) \/ Retry(c) \/ TryUpdate(c) \/ TryCreate(c)
          \/ TryVerify(c) \/ RenewLock(c) \/ ReleaseLock(c)
          \/ CleanupExpiredLocks(c) \/ Crash(c)

Spec == Init /\ [][Next]_vars

\* GetLockValue, as d sees the row.
GetLockValue(d) == IF Live(Now(d)) THEN holder ELSE Nobody

=============================================================================
