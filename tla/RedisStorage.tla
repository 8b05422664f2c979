---------------------------- MODULE RedisStorage ----------------------------
(***************************************************************************)
(* RedisStorage (pkg/storage/redis_storage.go), for one lock key.  Each    *)
(* command or Lua script is one step of the server; RenewLock and          *)
(* ReleaseLock are several of them, between which other clients' commands  *)
(* and the passing of time fall.  A command may fail, with or without its  *)
(* effect on the server.  The server's clock is the only one that counts,  *)
(* and a client makes one call at a time.                                  *)
(***************************************************************************)
EXTENDS StorageSetting

VARIABLE pc   \* what c does next within its call

vars == <<lockVars, pc>>

PCs == {"idle", "eval", "verify", "delete"}

Init ==
    /\ InitLock
    /\ pc = [c \in Clients |-> "idle"]

\* The server drops the key the moment its time is up.
Tick ==
    /\ clock < MaxClock
    /\ clock' = clock + 1
    /\ holder' = IF expires <= clock' THEN Nobody ELSE holder
    /\ NoAnswer
    /\ UNCHANGED <<expires, pc>>

Goto(c, label) == pc' = [pc EXCEPT ![c] = label]

\* SETNX with an expiry: refused whenever the key exists, the caller's own
\* included.
TryAcquireLock(c) ==
    /\ pc[c] = "idle"
    /\ \/ holder = Nobody /\ SetLock(c, clock) /\ Promise(c, clock + TTL)
       \/ holder # Nobody /\ KeepLock /\ Refuse(c)
       \/ (KeepLock \/ (holder = Nobody /\ SetLock(c, clock))) /\ Refuse(c)  \* an error
    /\ UNCHANGED <<clock, pc>>

\* RenewLock first reads the key; an error leaves c as it was, which makes
\* it a stutter ...
RenewGet(c) ==
    /\ pc[c] = "idle"
    /\ \/ holder = c /\ Goto(c, "eval") /\ NoAnswer
       \/ holder # c /\ Refuse(c) /\ UNCHANGED pc
    /\ KeepLock
    /\ UNCHANGED clock

\* Mutant of RenewEval: the script does not check the owner.
MutRenewEval(c) ==
    /\ pc[c] = "eval"
    /\ \/ SetLock(c, clock) /\ Promise(c, clock + TTL)
       \/ (KeepLock \/ SetLock(c, clock)) /\ NoAnswer
    /\ Goto(c, "idle")
    /\ UNCHANGED clock

\* ... then its script checks the owner once more and sets the key.  After
\* an error c goes by the promise it has.
RenewEval(c) ==
    /\ pc[c] = "eval"
    /\ \/ holder = c /\ SetLock(c, clock) /\ Promise(c, clock + TTL)
       \/ holder # c /\ KeepLock /\ Refuse(c)
       \/ (KeepLock \/ (holder = c /\ SetLock(c, clock))) /\ NoAnswer  \* an error
    /\ Goto(c, "idle")
    /\ UNCHANGED clock

\* ReleaseLock: the script deletes the key if the caller owns it ...
ReleaseEval(c) ==
    /\ pc[c] = "idle"
    /\ \/ holder = c /\ holder' = Nobody /\ Goto(c, "verify")
       \/ holder # c /\ UNCHANGED <<holder, pc>>
       \/ holder' \in {holder, IF holder = c THEN Nobody ELSE holder} /\ UNCHANGED pc  \* an error
    /\ Refuse(c)
    /\ UNCHANGED <<clock, expires>>

\* ... the client then reads the key, to see that it is gone ...
ReleaseVerify(c) ==
    /\ pc[c] = "verify"
    /\ \/ holder # Nobody /\ Goto(c, "delete")
       \/ Goto(c, "idle")   \* it is gone, or the GET failed
    /\ UNCHANGED lockVars

\* ... and deletes it if it is there, whoever owns it by
\* then: a client that has just acquired the lock is not told.
ForceDelete(c) ==
    /\ pc[c] = "delete"
    /\ \/ holder' = Nobody /\ Rob({holder} \ {Nobody})
       \/ UNCHANGED holder /\ NoAnswer   \* the DEL failed, which is ignored
    /\ Goto(c, "idle")
    /\ UNCHANGED <<clock, expires>>

\* The controller dies and comes back with the same ID.
Crash(c) ==
    /\ Goto(c, "idle")
    /\ Refuse(c)
    /\ KeepLock
    /\ UNCHANGED clock

Next ==
    \/ Tick
    \/ \E c \in Clients :
          \/ TryAcquireLock(c) \/ RenewGet(c) \/ RenewEval(c)
          \/ ReleaseEval(c) \/ ReleaseVerify(c) \/ ForceDelete(c) \/ Crash(c)

Spec == Init /\ [][Next]_vars

GetLockValue == holder

=============================================================================
