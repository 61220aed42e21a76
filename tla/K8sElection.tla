---------------------------- MODULE K8sElection ----------------------------
(***************************************************************************)
(* The election over a Kubernetes Lease: the electors of Elector calling   *)
(* the lock of K8sLock, with a common clock and restarts.                  *)
(***************************************************************************)
EXTENDS Elector, K8sLock, FiniteSets

vars == <<interfaceVars, electorVars, k8sVars>>

Init == InterfaceInit /\ ElectorInit /\ K8sInit

\* The clock advances when no elector has anything due.
Tick ==
    /\ now < MaxTime
    /\ \A c \in Client : NoTimerDue(c) /\ CallMayWait(c)
    /\ now' = now + 1
    /\ UNCHANGED <<call, cancelled, deadline, electorVars, k8sVars>>

\* A step of an elector alone, or when a call returns.
ElectorStep(c) ==
    \/ Proceed(c) /\ UNCHANGED k8sVars
    \/ Resume(c) /\ Returns(c)
    \/ Fail(c) /\ Fails(c)

Die(c) == Crash(c) /\ ClientGone(c)

\* The API server acts on the call c waits for.
ServerStep(c) == GetAnswered(c) \/ WriteAccepted(c)

Next ==
    \/ Tick
    \/ /\ \E c \in Client : ElectorStep(c) \/ Die(c)
       /\ UNCHANGED now
    \/ /\ \E c \in Client : ServerStep(c)
       /\ UNCHANGED <<now, cancelled, deadline, electorVars>>
    \/ /\ DeleteLease \/ \E w \in late : LateWrite(w)
       /\ UNCHANGED <<now, cancelled, deadline, electorVars>>

Spec == Init /\ [][Next]_vars

TypeOK == InterfaceTypeOK /\ ElectorTypeOK /\ K8sTypeOK

-----------------------------------------------------------------------------
(***************************************************************************)
(* Properties.                                                             *)
(***************************************************************************)
Expired == now >= lease.spec.renew + lease.spec.secs * Second

\* What the durations must satisfy, beyond what New checks, for the lease to
\* outlast its leader.
SafeTiming ==
    /\ StoredDuration(LeaseDuration) > LeadTime
    /\ ReleaseOnCancel => StoredDuration(1) > RequestTimeout

\* The Lease object as the lease of LeaderLease.
Lease == INSTANCE LeaderLease WITH
    owner <- lease.spec.holder,
    until <- lease.spec.renew + lease.spec.secs * Second,
    leaders <- {c \in Client : leading[c]}

\* The election is a LeaderLease: every write the API server takes, late ones
\* too, grants the lease to its owner or a lease that has ended, and renew gives
\* up while the stored lease still runs.
ImplementsLease == Lease!Spec

\* A client whose OnStartedLeading context is live is the holder in the stored
\* Lease and IsLeader() says so, whatever writes were lost, refused or late.
LeaderHoldsLease ==
    \A c \in Client : leading[c] =>
        lease.exists /\ lease.spec.holder = c /\ IsLeader(c)

\* Check does not fail while OnStartedLeading runs: renew gives up first.
HealthyWhileLeading == \A c \in Client : leading[c] => ~Unhealthy(c)

\* A step that gives an existing Lease another holder happens only once the
\* duration stored in it has passed since its RenewTime.
TakeoverWaitsLease ==
    [][lease.exists /\ lease'.exists /\ lease'.spec.holder # lease.spec.holder
         => Expired]_vars

\* LeaderTransitions of an existing Lease goes up by one when its holder
\* changes and stays as it is otherwise, for late writes and releases too.
TransitionsCountHolders ==
    [][lease.exists /\ lease'.exists =>
         lease'.spec.trans = IF lease'.spec.holder = lease.spec.holder
                             THEN lease.spec.trans ELSE lease.spec.trans + 1]_vars

\* Whenever acquire or renew is between two iterations, and when Run has
\* returned, OnNewLeader was last called with the leader GetLeader returns.
LeaderReported ==
    \A c \in Client : pc[c] \in {"wait", "done"} =>
        reportedLeader[c] = observedRecord[c].holder

\* The leader metric is on only for a client whose OnStartedLeading context is
\* live, on every way out of renew, unless the context of Run was cancelled:
\* between two rounds renew then ends without leaderOff.
MetricOffUnlessCancelled ==
    \A c \in Client : metric[c] => leading[c] \/ cancelled[c]

\* A candidate does not stay behind a record that no one renews: three retries
\* after its duration has passed the candidate has taken the lease or has
\* observed another record.  A write that comes late can repeat the record, which
\* makes the candidate's Update stale without being observed as a change; another
\* client may then take the lease.  A lost call and a deletion cost one more.
CandidateNotStuck ==
    \A c \in Client : ~StuckFor(c, 3 + MaxFaults + MaxDeletes)
=============================================================================
