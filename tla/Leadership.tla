----------------------------- MODULE Leadership -----------------------------
(***************************************************************************)
(* What the election of pkg/leader/leader.go promises to those who run     *)
(* workloads.  A controller goes round: it wins, starts its workloads,     *)
(* leads, loses, stops its workloads, and follows again.  It tells the     *)
(* monitoring server, which is where the workloads, the CRD watcher and    *)
(* the dashboard read the leadership.                                      *)
(*                                                                         *)
(* What a workload can count on: nobody wins while another controller      *)
(* starts its workloads or leads, unless the lock of one of the two has    *)
(* outlived its TTL; and the leadership is reported for as long as the     *)
(* workloads are being started.  What it cannot: that the previous leader  *)
(* has stopped its workloads, and that a follower reports that it is one.  *)
(***************************************************************************)

CONSTANTS
    Controllers,   \* the controllers
    Lapsing,       \* those whose lock may outlive its TTL
    Crashing       \* those whose process may die and start again

VARIABLES
    term,      \* "follower", "starting", "leading" or "stopping"
    reports    \* GetLeaderInfo().IsLeader: reported, and not degraded

leadership == <<term, reports>>

Terms == {"follower", "starting", "leading", "stopping"}

LeadershipTypeOK ==
    /\ term \in [Controllers -> Terms]
    /\ reports \in [Controllers -> BOOLEAN]

LeadershipInit ==
    /\ term = [c \in Controllers |-> "follower"]
    /\ reports = [c \in Controllers |-> FALSE]

Enter(c, t) == term' = [term EXCEPT ![c] = t]
Tell(c, status) == reports' = [reports EXCEPT ![c] = status]

\* c leads, or is on its way to.
Leads(c) == term[c] \in {"starting", "leading"}

\* A follower has acquired the lock, or what it reports is withdrawn.  After
\* a release that failed it may have gone on reporting.
Announce(c) ==
    /\ term[c] = "follower"
    /\ \E status \in BOOLEAN : Tell(c, status)
    /\ UNCHANGED term

Win(c) ==
    /\ term[c] = "follower"
    /\ reports[c]
    /\ c \in Lapsing
       \/ \A d \in Controllers \ {c} : Leads(d) => d \in Lapsing
    /\ Enter(c, "starting")
    /\ UNCHANGED reports

\* StartAll has returned.
Started(c) ==
    /\ term[c] = "starting"
    /\ Enter(c, "leading")
    /\ UNCHANGED reports

\* A leader's storage fails or answers again.
Degrade(c) ==
    /\ term[c] = "leading"
    /\ \E status \in BOOLEAN : Tell(c, status)
    /\ UNCHANGED term

\* The lock is lost or given up.  The cluster's health monitor does not look
\* again whether it leads, and so stops a follower's workloads too.
Lose(c) ==
    /\ term[c] \in {"leading", "follower"}
    /\ Enter(c, "stopping")
    /\ Tell(c, FALSE) \/ UNCHANGED reports

\* StopAll has returned.
Stopped(c) ==
    /\ term[c] = "stopping"
    /\ Enter(c, "follower")
    /\ Tell(c, FALSE) \/ UNCHANGED reports

\* The process dies and starts again.
Reboot(c) ==
    /\ c \in Crashing
    /\ Enter(c, "follower")
    /\ Tell(c, FALSE)

LeadershipNext ==
    \E c \in Controllers :
        \/ Announce(c) \/ Win(c) \/ Started(c) \/ Degrade(c) \/ Lose(c)
        \/ Stopped(c) \/ Reboot(c)

LeadershipSpec == LeadershipInit /\ [][LeadershipNext]_leadership

=============================================================================
