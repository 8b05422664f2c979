-------------------------- MODULE ServiceWorkload --------------------------
(***************************************************************************)
(* pkg/workloads/service/service.go: a workload that is a deployment.  The *)
(* controller scales it up and down, and the cluster does the rest.  The   *)
(* object is "on" with the configured number of replicas, "off" with none. *)
(***************************************************************************)
EXTENDS WorkloadSetting

\* buildDeployment asks who leads before anything is requested.
ServiceGet(c, who) ==
    /\ At(c, who, "get")
    /\ \/ /\ NoFault /\ Built(c)
          /\ Goto(c, who, IF object = "absent" THEN "create" ELSE "update")
          /\ UNCHANGED leadership
       \/ NoFault /\ ~Built(c) /\ StartReturns(c, who)
       \/ Fault /\ StartReturns(c, who)
    /\ UNCHANGED <<kind, cluster, beliefs, goroutines>>

\* The deployment is created, or updated to what is configured, its replicas
\* included.  The server refuses to create what exists by now, and to update
\* what is not as the Get has found it: anybody may have changed it, the
\* cluster itself in its status.
ServiceWrite(c, who) ==
    /\ call[c][who] \in {"create", "update"}
    /\ \/ /\ NoFault
          /\ Writable(call[c][who])
          /\ Become("on") /\ SetActive(c, TRUE) /\ Spawn(c, who)
       \/ /\ NoFault
          /\ Writable(call[c][who]) => At(c, who, "update")
          /\ UNCHANGED <<object, active, goroutines>>
       \/ /\ Fault
          /\ (Writable(call[c][who]) /\ Become("on")) \/ UNCHANGED object
          /\ UNCHANGED <<active, goroutines>>
    /\ StartReturns(c, who)
    /\ UNCHANGED <<kind, marked, headless, failing, closed, failed>>

\* Mutant of ServiceScale: the deployment is deleted, in the background.
MutServiceScale(c, who) ==
    /\ At(c, who, "off")
    /\ NoFault
    /\ Become("deleting")
    /\ SetActive(c, FALSE)
    /\ Goto(c, who, "wait")
    /\ UNCHANGED <<leadership, kind, marked, headless, failing, closed, failed, goroutines>>

\* Stop scales the deployment to none, whoever has scaled it up.  A conflict
\* is retried; that it does not exist is no error, and changes nothing.
ServiceScale(c, who) ==
    /\ At(c, who, "off")
    /\ \/ /\ NoFault
          /\ IF object = "absent" THEN UNCHANGED <<object, active>>
             ELSE Become("off") /\ SetActive(c, FALSE)
          /\ Goto(c, who, "wait")
          /\ UNCHANGED leadership
       \/ /\ Fault
          /\ (object # "absent" /\ Become("off")) \/ UNCHANGED object
          /\ UNCHANGED active
          /\ StopReturns(c, who)
    /\ UNCHANGED <<kind, marked, headless, failing, closed, failed, goroutines>>

\* It waits until the pods are gone, or for half the grace period.
ServiceWait(c, who) ==
    /\ At(c, who, "wait")
    /\ StopReturns(c, who)
    /\ UNCHANGED <<kind, cluster, beliefs, goroutines, counts>>

\* checkHealth, as monitorHealth calls it: what has no replicas is healthy,
\* unless its conditions tell of a failure, and no longer active.
ServiceCheck(c) ==
    /\ updater[c] = "ticking"
    /\ \/ /\ NoFault
          /\ \E unhealthy \in {object = "absent", TRUE} : SetFailing(c, unhealthy)
          /\ IF object = "absent" THEN UNCHANGED active
             ELSE SetActive(c, object = "on")
       \/ CheckFails(c) /\ UNCHANGED active
    /\ UNCHANGED <<leadership, kind, cluster, closed, failed, call, goroutines>>

\* Somebody else scales the deployment to none, or deletes it.
Meddle ==
    /\ Fault
    /\ object = "on"
    /\ Become("off") \/ Become("absent")
    /\ UNCHANGED <<leadership, kind, marked, headless, beliefs, call, goroutines>>

ServiceCall(c, who) ==
    \/ ServiceGet(c, who) \/ ServiceWrite(c, who)
    \/ Close(c, who) \/ ServiceScale(c, who) \/ ServiceWait(c, who)

ServiceNext ==
    /\ kind = "service"
    /\ \/ \E c \in Controllers :
             \/ \E who \in Callers : ServiceCall(c, who)
             \/ ServiceCheck(c) \/ UpdaterEnds(c)
       \/ Meddle

=============================================================================
