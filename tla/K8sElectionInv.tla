--------------------------- MODULE K8sElectionInv ---------------------------
(***************************************************************************)
(* The inductive invariants behind the safety properties of K8sElection,   *)
(* for a Lease that no one deletes.  SafetyInv is about what a client      *)
(* knows and what its writes may do; TimingInv adds the deadlines and      *)
(* holds under SafeTiming.                                                 *)
(***************************************************************************)
EXTENDS K8sElection, ElectorInv

\* A write of spec s by c to the current version renews or releases c's own
\* lease, or takes over an expired one.
Justified(c, s) ==
    /\ s.holder = c
    /\ lease.exists =>
         \/ lease.spec.holder = c /\ s.trans = lease.spec.trans
         \/ lease.spec.holder # c /\ s.trans = lease.spec.trans + 1 /\ Expired

LeaseInv ==
    /\ deletes = 0
    /\ lease.exists => /\ lease.spec.holder \in Client
                       /\ lease.rv >= 1
                       /\ lease.spec.renew <= now
    /\ ~lease.exists => lease.rv = 0 /\ lease.spec.trans = 0

\* The call of c is the one its pc says.
CallInv(c) ==
    /\ pc[c] \in {"off", "wait", "poll", "done"} => call[c].op = "none"
    /\ pc[c] = "get" => call[c].op = "get"
    /\ pc[c] = "set" => call[c].op \in {"create", "update"}
    /\ pc[c] = "release" => call[c].op = "release"
    /\ call[c].at <= now
    /\ IsWrite(c) => /\ call[c].st \in {"pending", "ok"}
                     /\ call[c].rec.holder = c
                     /\ call[c].rec.renew <= now

\* What c has observed lies in the past of the Lease; if c takes itself for
\* the leader, either it has observed a record of its own or the Lease has
\* moved on from the one it observed.
ObservedInv(c) ==
    /\ held[c] <= lease.rv
    /\ observedTime[c] <= now
    /\ observedRawRecord[c].renew <= observedTime[c]
    /\ observedRawRecord[c].holder # NoOne => lease.exists
    /\ observedRawRecord[c].trans <= lease.spec.trans
    /\ observedRawRecord[c].holder = c => IsLeader(c)
    /\ IsLeader(c) =>
         /\ lease.exists
         /\ \/ /\ observedRawRecord[c].holder = c
               /\ observedRawRecord[c].trans = observedRecord[c].trans
            \/ observedRawRecord[c].holder = NoOne
            \/ observedRawRecord[c].trans < lease.spec.trans

\* If c takes itself for the leader on the current version, it is.
HeldInv(c) ==
    held[c] = lease.rv /\ IsLeader(c) =>
        lease.spec.holder = c /\ lease.spec.trans = observedRecord[c].trans

GetInv(c) ==
    call[c].op = "get" /\ call[c].st = "ok" =>
        /\ lease.exists
        /\ call[c].ver >= 1 /\ call[c].ver <= lease.rv
        /\ call[c].rec.holder \in Client
        /\ call[c].rec.trans <= lease.spec.trans
        /\ call[c].rec.renew <= now
        /\ call[c].ver = lease.rv => call[c].rec = Stored

\* A pending write that names the current version is justified.
PendingInv(c) ==
    /\ call[c].op = "create" => call[c].rec.trans = 0
    /\ call[c].op = "release" =>
         IsLeader(c) /\ call[c].rec.trans = observedRecord[c].trans
    /\ call[c].op = "update" /\ call[c].st = "pending" /\ lease.exists /\ held[c] = lease.rv =>
         /\ observedRawRecord[c] = Stored
         /\ Justified(c, WriteOf(c).spec)

\* A write that was carried out is what its version of the Lease holds.
AcceptedInv(c) ==
    IsWrite(c) /\ call[c].st = "ok" =>
        /\ lease.exists
        /\ call[c].ver >= 1 /\ call[c].ver <= lease.rv
        /\ call[c].ver = lease.rv => lease.spec = WriteOf(c).spec
        /\ call[c].op = "create" => observedRawRecord[c].holder = NoOne
        /\ call[c].op = "update" =>
             \/ /\ observedRawRecord[c].holder = c
                /\ observedRawRecord[c].trans = call[c].rec.trans
             \/ observedRawRecord[c].trans < lease.spec.trans

LateInv ==
    \A w \in late :
        /\ w.ver = Version
        /\ w.spec.renew <= now
        /\ Justified(w.client, w.spec)
        /\ ~lease.exists => w.spec.trans = 0

ClientInv(c) ==
    /\ CallInv(c) /\ ObservedInv(c) /\ HeldInv(c)
    /\ GetInv(c) /\ PendingInv(c) /\ AcceptedInv(c)

SafetyInv ==
    /\ TypeOK
    /\ LeaseInv
    /\ LateInv
    /\ \A c \in Client : ClientInv(c)

-----------------------------------------------------------------------------
\* No one is late: the timers, deadlines and calls of c.
ClockInv(c) ==
    /\ pc[c] = "wait" => now <= wake[c]
    /\ inRenew[c] /\ InRound(c) => /\ now <= deadline[c]
                                   /\ deadline[c] <= now + RenewDeadline
    /\ pc[c] \in {"poll", "release"} => inRenew[c]
    /\ call[c].op # "none" => now <= call[c].at + RequestTimeout
    /\ pc[c] = "get" /\ inRenew[c] => deadline[c] <= call[c].at + RenewDeadline
    /\ pc[c] = "set" =>
         /\ call[c].rec.dur = LeaseDuration
         /\ call[c].at <= call[c].rec.renew + RequestTimeout
         /\ inRenew[c] => deadline[c] <= call[c].rec.renew + RenewDeadline
    /\ pc[c] = "release" =>
         /\ ReleaseOnCancel
         /\ call[c].rec.dur = 1 /\ call[c].rec.renew = call[c].at

\* A write c waits for is still what the Lease holds when c learns of it.
AckInv(c) ==
    pc[c] = "set" /\ call[c].st = "ok" =>
        /\ call[c].ver = lease.rv
        /\ \A w \in late : w.client # c

RenewedBy(c, renew) ==
    /\ pc[c] = "wait" => wake[c] <= renew + 2 * RequestTimeout + RetryPeriod
    /\ InRound(c) =>
         deadline[c] <= renew + 2 * RequestTimeout + RetryPeriod + RenewDeadline
    /\ pc[c] = "release" =>
         call[c].at <= renew + 2 * RequestTimeout + RetryPeriod + RenewDeadline

\* A leader gives up before the lease it holds, or the one a late write of its
\* own would leave, has expired.
LeadInv(c) ==
    leading[c] =>
        /\ ~cancelled[c] /\ inRenew[c]
        /\ pc[c] \in {"wait", "poll", "get", "set", "release"}
        /\ IsLeader(c) /\ lease.exists /\ lease.spec.holder = c
        /\ pc[c] = "get" /\ call[c].st = "ok" => call[c].rec.holder = c
        /\ \/ lease.spec.secs = ToSeconds(LeaseDuration) /\ RenewedBy(c, lease.spec.renew)
           \/ /\ pc[c] = "release"
              /\ lease.spec.secs = ToSeconds(1) /\ lease.spec.renew = call[c].at
        /\ \A w \in late : w.client = c =>
             /\ pc[c] # "wait"
             /\ w.spec.secs = ToSeconds(LeaseDuration)
             /\ InRound(c) => deadline[c] <= w.spec.renew + RenewDeadline
             /\ pc[c] = "release" => call[c].at <= w.spec.renew + RenewDeadline

TimingInv ==
    /\ SafetyInv
    /\ \A c \in Client : ClockInv(c) /\ AckInv(c) /\ LeadInv(c)

-----------------------------------------------------------------------------
\* The Get of c's try has returned a version of the Lease, and which.
HasRead(c) ==
    (pc[c] = "get" /\ call[c].st = "ok") \/ (pc[c] = "set" /\ call[c].op = "update")

VersionRead(c) == IF pc[c] = "get" THEN call[c].ver ELSE held[c]

\* A write that is late after the Lease has changed under c's try is not c's, and
\* the lease it grants runs longer than until that try began.
StaleInv(c) ==
    HasRead(c) /\ VersionRead(c) # Version =>
        \A w \in late : /\ w.client # c
                        /\ TryStart(c) < w.spec.renew + w.spec.secs * Second

\* A candidate has read a Lease that is still there, and writes only when the
\* record it has read is over or its own.
TryInv(c) ==
    Candidate(c) =>
        /\ observedRawRecord[c].holder \in Client
        /\ pc[c] = "wait" => wake[c] <= now + RetryPause
        /\ pc[c] = "get" => call[c].st # "notexist"
        /\ pc[c] = "set" =>
             /\ call[c].op = "update"
             /\ observedRawRecord[c].holder = c \/ call[c].rec.renew >= Due(c, 0)

\* A write on its way would store again what c has read.
Repeatable(c) ==
    \E w \in late : LeaseSpecToLeaderElectionRecord(w.spec) = observedRawRecord[c]

\* The try of c goes on with a record c had read before.
ReadsAgain(c) == HasRead(c) /\ (pc[c] = "get" => call[c].rec = observedRawRecord[c])

\* How many tries of c may have come to nothing, with the one it is at: one finds
\* that a late write has repeated the record, one that another client has taken
\* the lease, and the third reads what that client wrote.
TriesNeeded(c) ==
    IF Repeatable(c) THEN 1
    ELSE IF ReadsAgain(c)
    THEN IF VersionRead(c) # Version /\ Stored = observedRawRecord[c] THEN 1 ELSE 2
    ELSE IF Stored = observedRawRecord[c] THEN 2 ELSE 3

\* A candidate tries again in time: each call that is lost costs it one retry.
\* The clock waits for one whose context is cancelled.
RetryInv(c) ==
    Candidate(c) =>
        IF cancelled[c] THEN now <= Due(c, 3 + MaxFaults)
        ELSE StartsBy(c, TriesNeeded(c) + faults)

CandidatesInv ==
    /\ TimingInv
    /\ \A c \in Client : /\ ElectorInv(c) /\ TimelyInv(c) /\ AcquireInv(c) /\ WriteInv(c)
                         /\ StaleInv(c) /\ TryInv(c) /\ RetryInv(c)
=============================================================================
