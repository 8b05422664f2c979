-------------------------- MODULE ProcessWorkload --------------------------
(***************************************************************************)
(* pkg/workloads/process/process.go: a workload that is one pod, which the *)
(* controller itself creates, watches and recreates.                       *)
(***************************************************************************)
EXTENDS WorkloadSetting

Terminated == object = "terminated"

UnchangedPod == UNCHANGED <<object, marked, event>>

\* The pod is deleted, with its grace period; one that has terminated is gone
\* at once, and one that is missing is no error.
DeletePod ==
    IF Terminated THEN Vanish
    ELSE /\ object' = IF object = "on" THEN "deleting" ELSE object
         /\ UNCHANGED <<marked, event>>

\* The requests of createOrUpdatePod, and what the answer leads to.  buildPod
\* asks who leads before the first of them.  A pod that has terminated makes
\* place for a new one, and a pod that is there is left alone, even one that
\* is being deleted.  A pod that somebody else has created since the Get is
\* an error.
Answer(c, at, to) ==
    \/ /\ at = "get" /\ ~Built(c) /\ to = "failed"
       /\ UnchangedPod
    \/ /\ at = "get" /\ Built(c)
       /\ to = IF object = "absent" THEN "create" ELSE IF Terminated THEN "replace" ELSE "done"
       /\ UnchangedPod
    \/ /\ at = "replace" /\ to = "create"
       /\ DeletePod
    \/ /\ at = "create" /\ object = "absent" /\ to = "done"
       /\ object' = "on" /\ marked' = FALSE /\ UNCHANGED event
    \/ /\ at = "create" /\ object # "absent" /\ to = "failed"
       /\ UnchangedPod

Answers == PodRequests \cup {"done", "failed"}

\* The answer does not come; the request may have had its effect.
Lost(c, at) ==
    UnchangedPod \/ \E to \in Answers : Answer(c, at, to)

\* createOrUpdatePod enters the pod in the status when all is done.
Record(c, to) ==
    IF to = "done" THEN SetActive(c, TRUE) ELSE UNCHANGED active

\* A request of a Start, which leaves its goroutines behind if it succeeds.
ProcessRequest(c, who) ==
    /\ call[c][who] \in PodRequests
    /\ \E to \in Answers :
          /\ \/ NoFault /\ Answer(c, call[c][who], to)
             \/ Fault /\ to = "failed" /\ Lost(c, call[c][who])
          /\ Record(c, to)
          /\ IF to \in PodRequests THEN Goto(c, who, to) /\ UNCHANGED leadership
             ELSE StartReturns(c, who)
          /\ IF to = "done" THEN Spawn(c, who) ELSE UNCHANGED <<watcher, updater, orphaned>>
    /\ UNCHANGED <<kind, headless, failing, closed, failed>>

\* A request of a goroutine.  stopWorkloads cancels the context that StartAll
\* gave it, and with it the request on its way; those that follow fail.  The
\* context that Add gave it is never cancelled.
RecreatePod(c, at, to) ==
    /\ \/ NoFault /\ Answer(c, at, to)
       \/ Fault /\ to = "failed" /\ Lost(c, at)
       \/ term[c] = "stopping" /\ NoFault /\ to = "failed" /\ Lost(c, at)
       \/ ~Leads(c) /\ NoFault /\ to = "failed" /\ UnchangedPod
    /\ Record(c, to)

\* Stop deletes the pod, whoever has created it.
ProcessDelete(c, who) ==
    /\ At(c, who, "off")
    /\ \/ /\ NoFault
          /\ DeletePod
          /\ Goto(c, who, "wait")
          /\ UNCHANGED leadership
       \/ /\ Fault
          /\ UnchangedPod
          /\ StopReturns(c, who)
    /\ UNCHANGED <<kind, headless, beliefs, watcher, updater, orphaned>>

\* Mutant of ProcessWait: Stop gives up waiting and leaves the pod.
MutProcessWait(c, who) ==
    /\ At(c, who, "wait")
    /\ SetActive(c, FALSE)
    /\ StopReturns(c, who)
    /\ UNCHANGED <<kind, cluster, failing, closed, failed, goroutines, counts>>

\* Stop waits for it to be gone, for half the grace period; then it deletes
\* by force what has the name, and ignores the error.
ProcessWait(c, who) ==
    /\ At(c, who, "wait")
    /\ \/ NoFault /\ object = "absent" /\ UNCHANGED <<object, marked, event>>
       \/ NoFault /\ object # "absent" /\ Vanish
       \/ Fault /\ object # "absent" /\ UNCHANGED <<object, marked, event>>
    /\ SetActive(c, FALSE)
    /\ StopReturns(c, who)
    /\ UNCHANGED <<kind, headless, failing, closed, failed, watcher, updater, orphaned>>

-----------------------------------------------------------------------------
(* watchPodTerminations                                                    *)

\* It watches on.  When stopCh is closed it returns, but where a deletion has
\* come as well its select may choose that; and one may have come.
WatchOn(c) ==
    \E at \in IF closed[c] THEN {"none", "get"} ELSE {"watching"} :
        watcher' = [watcher EXCEPT ![c] = at]

\* The pod has been deleted, and not by Stop.
WatchEvent(c) ==
    /\ watcher[c] = "watching" /\ event[c]
    /\ event' = [event EXCEPT ![c] = FALSE]
    /\ watcher' = [watcher EXCEPT ![c] = "get"]
    /\ UNCHANGED <<leadership, kind, cluster, beliefs, call, updater, orphaned, counts>>

WatchRequest(c) ==
    /\ watcher[c] \in PodRequests
    /\ \E to \in Answers :
          /\ RecreatePod(c, watcher[c], to)
          /\ IF to \in PodRequests THEN watcher' = [watcher EXCEPT ![c] = to]
             ELSE WatchOn(c)
    /\ UNCHANGED <<leadership, kind, headless, failing, closed, failed, call, updater, orphaned>>

\* The channel closes; five seconds later it watches again, and what was
\* deleted meanwhile it does not hear of.
WatchBreaks(c) ==
    /\ watcher[c] = "watching"
    /\ Fault
    /\ watcher' = [watcher EXCEPT ![c] = "broken"]
    /\ event' = [event EXCEPT ![c] = FALSE]
    /\ UNCHANGED <<leadership, kind, cluster, beliefs, call, updater, orphaned>>

\* It watches again, unless the request fails.
WatchAgain(c) ==
    /\ watcher[c] = "broken"
    /\ \/ Fault /\ watcher' = [watcher EXCEPT ![c] = "none"]
       \/ ~Leads(c) /\ NoFault /\ watcher' = [watcher EXCEPT ![c] = "none"]
       \/ NoFault /\ WatchOn(c)
    /\ UNCHANGED <<leadership, kind, cluster, beliefs, call, event, updater, orphaned>>

-----------------------------------------------------------------------------
(* periodicStatusUpdater                                                   *)

\* checkHealth: a pod that has terminated is an error if it has failed, and as
\* good as any if it has succeeded.
CheckStatus(c) ==
    \/ SetFailing(c, object = "absent")
    \/ Terminated /\ SetFailing(c, TRUE)

\* Mutant of ProcessCheck: a pod that is missing is an error, and no more.
MutProcessCheck(c) ==
    /\ updater[c] = "ticking"
    /\ \/ NoFault /\ CheckStatus(c)
       \/ CheckFails(c)
    /\ UNCHANGED <<leadership, kind, cluster, active, closed, failed, call, goroutines>>

\* periodicStatusUpdater recreates a pod that is missing.
ProcessCheck(c) ==
    /\ updater[c] = "ticking"
    /\ \/ /\ NoFault
          /\ CheckStatus(c)
          /\ updater' = [updater EXCEPT ![c] =
                            IF object = "absent" /\ active[c] THEN "get" ELSE @]
       \/ CheckFails(c) /\ UNCHANGED updater
    /\ UNCHANGED <<leadership, kind, cluster, active, closed, failed, call,
                   watcher, event, orphaned>>

\* checkHealth finds containers that are not ready, or that the pod has been
\* missing for less than half a minute: LastError says so, and that is all.
ProcessUnready(c) ==
    /\ updater[c] = "ticking"
    /\ ~Terminated
    /\ SetFailing(c, TRUE)
    /\ UNCHANGED <<leadership, kind, cluster, active, closed, failed, call, goroutines, counts>>

UpdaterRequest(c) ==
    /\ updater[c] \in PodRequests
    /\ \E to \in Answers :
          /\ RecreatePod(c, updater[c], to)
          /\ updater' = [updater EXCEPT ![c] = IF to \in PodRequests THEN to ELSE "ticking"]
    /\ UNCHANGED <<leadership, kind, headless, failing, closed, failed, call, watcher, orphaned>>

-----------------------------------------------------------------------------
(* The cluster                                                             *)

\* The containers of a pod end, or somebody deletes the pod.
PodEnds ==
    /\ object = "on"
    /\ object' \in {"terminated", "deleting"}
    /\ UNCHANGED <<leadership, kind, marked, headless, beliefs, call, goroutines, counts>>

PodGone ==
    /\ object = "deleting"
    /\ Vanish
    /\ UNCHANGED <<leadership, kind, headless, beliefs, call, watcher, updater, orphaned, counts>>

ProcessCall(c, who) ==
    \/ ProcessRequest(c, who) \/ Close(c, who)
    \/ ProcessDelete(c, who) \/ ProcessWait(c, who)

ProcessWatch(c) ==
    WatchEvent(c) \/ WatchRequest(c) \/ WatchAgain(c)

ProcessUpdate(c) ==
    ProcessCheck(c) \/ UpdaterRequest(c)

ProcessNext ==
    /\ kind = "process"
    /\ \/ \E c \in Controllers :
             \/ \E who \in Callers : ProcessCall(c, who)
             \/ ProcessWatch(c) \/ WatchBreaks(c)
             \/ ProcessUpdate(c) \/ ProcessUnready(c) \/ UpdaterEnds(c)
       \/ PodEnds \/ PodGone

=============================================================================
