------------------------- MODULE PersistentWorkload -------------------------
(***************************************************************************)
(* pkg/workloads/persistent/persistent.go: a workload that is a stateful   *)
(* set, with a headless service for its endpoints.  The controller treats  *)
(* the stateful set as it does a deployment.                               *)
(***************************************************************************)
EXTENDS ServiceWorkload

\* Mutant of PersistentEndpoints: an error is logged, and that is all.
MutPersistentEndpoints(c, who) ==
    /\ At(c, who, "endpoints")
    /\ \/ NoFault /\ headless' = TRUE
       \/ Fault /\ UNCHANGED headless
    /\ Goto(c, who, "get")
    /\ UNCHANGED <<leadership, kind, object, marked, beliefs, goroutines>>

\* The workload has ports.  The service is created or updated before anybody
\* asks who leads; or refused, if it exists, because somebody else has created
\* or updated it since the Get.
PersistentEndpoints(c, who) ==
    /\ At(c, who, "endpoints")
    /\ \/ /\ NoFault
          /\ headless' = TRUE
          /\ Goto(c, who, "get")
          /\ UNCHANGED leadership
       \/ /\ NoFault
          /\ headless /\ UNCHANGED headless
          /\ StartReturns(c, who)
       \/ /\ Fault
          /\ headless' = TRUE \/ UNCHANGED headless
          /\ StartReturns(c, who)
    /\ UNCHANGED <<kind, object, marked, beliefs, goroutines>>

PersistentGet(c, who) == ServiceGet(c, who)
PersistentWrite(c, who) == ServiceWrite(c, who)
PersistentScale(c, who) == ServiceScale(c, who)
PersistentWait(c, who) == ServiceWait(c, who)
PersistentCheck(c) == ServiceCheck(c)

PersistentCall(c, who) ==
    \/ PersistentEndpoints(c, who) \/ PersistentGet(c, who)
    \/ PersistentWrite(c, who) \/ Close(c, who)
    \/ PersistentScale(c, who) \/ PersistentWait(c, who)

PersistentNext ==
    /\ kind = "persistent"
    /\ \/ \E c \in Controllers :
             \/ \E who \in Callers : PersistentCall(c, who)
             \/ PersistentCheck(c) \/ UpdaterEnds(c)
       \/ Meddle

=============================================================================
