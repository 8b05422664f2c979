-------------------------- MODULE CronJobWorkload --------------------------
(***************************************************************************)
(* pkg/workloads/cronjob/cronjob.go: a workload that is a cron job, which  *)
(* the controller suspends ("off") and resumes ("on").                     *)
(***************************************************************************)
EXTENDS WorkloadSetting

\* createOrUpdateCronJob(suspend = FALSE).  A cron job that exists is resumed
\* without asking who leads; to create one, the leadership must be reported.
CronJobGet(c, who) ==
    /\ At(c, who, "get")
    /\ \/ /\ NoFault
          /\ IF object # "absent" THEN Goto(c, who, "update") /\ UNCHANGED leadership
             ELSE IF Built(c) THEN Goto(c, who, "create") /\ UNCHANGED leadership
             ELSE StartReturns(c, who)
       \/ Fault /\ StartReturns(c, who)
    /\ UNCHANGED <<kind, cluster, beliefs, goroutines>>

\* It is created, unless somebody else has done so meanwhile; or resumed,
\* however it has changed, unless somebody else has deleted it.
CronJobResume(c, who) ==
    /\ call[c][who] \in {"create", "update"}
    /\ \/ /\ NoFault
          /\ Writable(call[c][who])
          /\ Become("on") /\ SetActive(c, TRUE) /\ Spawn(c, who)
       \/ /\ NoFault
          /\ ~Writable(call[c][who])
          /\ UNCHANGED <<object, active, goroutines>>
       \/ /\ Fault
          /\ (Writable(call[c][who]) /\ Become("on")) \/ UNCHANGED object
          /\ UNCHANGED <<active, goroutines>>
    /\ StartReturns(c, who)
    /\ UNCHANGED <<kind, marked, headless, failing, closed, failed>>

\* createOrUpdateCronJob(suspend = TRUE), by Stop: a cron job that does not
\* exist will be created, but not by one who is no leader any more.
CronJobSuspend(c, who) ==
    /\ At(c, who, "off")
    /\ \/ /\ NoFault /\ object # "absent"
          /\ Become("off") /\ SetActive(c, FALSE)
          /\ Goto(c, who, "wait") /\ UNCHANGED leadership
       \/ /\ NoFault /\ object = "absent"
          /\ UNCHANGED <<object, active>>
          /\ \/ Built(c) /\ Goto(c, who, "suspend") /\ UNCHANGED leadership
             \/ StopReturns(c, who)
       \/ /\ Fault
          /\ (object # "absent" /\ Become("off")) \/ UNCHANGED object
          /\ UNCHANGED active
          /\ StopReturns(c, who)
    /\ UNCHANGED <<kind, marked, headless, failing, closed, failed, goroutines>>

\* It is created, suspended, unless somebody else has created it.
CronJobCreateSuspended(c, who) ==
    /\ At(c, who, "suspend")
    /\ \/ /\ NoFault /\ object = "absent"
          /\ Become("off") /\ SetActive(c, FALSE)
          /\ Goto(c, who, "wait") /\ UNCHANGED leadership
       \/ /\ NoFault /\ object # "absent"
          /\ UNCHANGED <<object, active>>
          /\ StopReturns(c, who)
       \/ /\ Fault
          /\ (object = "absent" /\ Become("off")) \/ UNCHANGED object
          /\ UNCHANGED active
          /\ StopReturns(c, who)
    /\ UNCHANGED <<kind, marked, headless, failing, closed, failed, goroutines>>

\* Stop deletes the jobs that run, with their pods, and waits for the latter.
CronJobWait(c, who) ==
    /\ At(c, who, "wait")
    /\ StopReturns(c, who)
    /\ UNCHANGED <<kind, cluster, beliefs, goroutines, counts>>

\* checkHealth: a cron job that is not as the controller has left it is an
\* error, and from then on as the controller thinks of it.
CronJobCheck(c) ==
    /\ updater[c] = "ticking"
    /\ \/ /\ NoFault
          /\ SetFailing(c, object = "absent" \/ active[c] # (object = "on"))
          /\ IF object = "absent" THEN UNCHANGED active
             ELSE SetActive(c, object = "on")
       \/ CheckFails(c) /\ UNCHANGED active
    /\ UNCHANGED <<leadership, kind, cluster, closed, failed, call, goroutines>>

\* Somebody else suspends, resumes or deletes the cron job.
CronJobMeddle ==
    /\ Fault
    /\ object # "absent"
    /\ object' \in {"absent", "off", "on"} \ {object}
    /\ UNCHANGED <<leadership, kind, marked, headless, beliefs, call, goroutines>>

CronJobCall(c, who) ==
    \/ CronJobGet(c, who) \/ CronJobResume(c, who) \/ Close(c, who)
    \/ CronJobSuspend(c, who) \/ CronJobCreateSuspended(c, who) \/ CronJobWait(c, who)

CronJobNext ==
    /\ kind = "cronjob"
    /\ \/ \E c \in Controllers :
             \/ \E who \in Callers : CronJobCall(c, who)
             \/ CronJobCheck(c) \/ UpdaterEnds(c)
       \/ CronJobMeddle

=============================================================================
