----------------------------- MODULE LeaderLease -----------------------------
(***************************************************************************)
(* What the leader election needs of a storage back-end (LeaderStorage in  *)
(* pkg/storage/storage.go): a lease.  Whatever a back-end does with its    *)
(* keys, rows and transactions, it may promise the lock to a client for at *)
(* most TTL from now, and only while no other client has such a promise.   *)
(* A client loses its promise by giving it up, by being told that it no    *)
(* longer holds the lock, or by the passing of time; or a call of another  *)
(* client takes it away.  One call may do both.                            *)
(***************************************************************************)
EXTENDS Naturals

CONSTANTS Clients, TTL

VARIABLES
    clock,  \* the time, in ticks
    until   \* until[c]: the time to which c has been promised the lock

vars == <<clock, until>>

Entitled(c) == clock < until[c]

Init ==
    /\ clock = 0
    /\ until = [c \in Clients |-> 0]

Tick == clock' = clock + 1 /\ UNCHANGED until

\* TryAcquireLock or RenewLock answers true.
Grant(c) ==
    /\ \A d \in Clients \ {c} : ~Entitled(d)
    /\ \E time \in 0..(clock + TTL) : until' = [until EXCEPT ![c] = time]
    /\ UNCHANGED clock

\* ReleaseLock, or a TryAcquireLock or RenewLock that answers false, or a
\* DELETE of another client's lock.
Drop(lost) ==
    /\ until' = [c \in Clients |-> IF c \in lost THEN 0 ELSE until[c]]
    /\ UNCHANGED clock

Next ==
    \/ Tick
    \/ \E c \in Clients : Grant(c)
    \/ \E lost \in SUBSET Clients : Drop(lost)

Spec == Init /\ [][Next]_vars

=============================================================================
