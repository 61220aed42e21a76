------------------------------ MODULE K8sLock ------------------------------
(***************************************************************************)
(* The LeaseLock of src/k8s/k8s.go: Get, Create and Update on one Lease    *)
(* object of the Kubernetes API, and the API server as the client sees it. *)
(* The server refuses an Update whose resourceVersion is not the current   *)
(* one and a Create of an object that exists.  A call returns at the       *)
(* latest when the client's request timeout or its context ends it; the    *)
(* request may then still be on its way, and be carried out later.         *)
(***************************************************************************)
EXTENDS LockInterface

CONSTANTS
    Second,         \* clock units in a second, the unit of LeaseDurationSeconds
    MaxFaults,      \* bound: how many calls fail for no reason of their own
    MaxDeletes      \* bound: how often the Lease is deleted from outside

ASSUME K8sAssumption ==
    /\ Second \in Nat \ {0}
    /\ MaxFaults \in Nat /\ MaxDeletes \in Nat

VARIABLES
    lease,      \* the stored object: exists, its resourceVersion and spec
    held,       \* held[c]: resourceVersion of ll.lease; 0: nil, or not from the server
    late,       \* writes whose caller has gone and that may still be carried out
    faults,     \* how many calls failed through the network or the server
    deletes     \* how often the Lease was deleted

k8sVars == <<lease, held, late, faults, deletes>>

\* A duration in whole seconds, never zero.
ToSeconds(d) == IF d \div Second = 0 THEN 1 ELSE d \div Second

\* What is left of a duration once it has been stored.
StoredDuration(d) == ToSeconds(d) * Second

LeaderElectionRecordToLeaseSpec(r) ==
    [holder |-> r.holder, secs |-> ToSeconds(r.dur), renew |-> r.renew, trans |-> r.trans]

LeaseSpecToLeaderElectionRecord(s) ==
    [holder |-> s.holder, dur |-> s.secs * Second, renew |-> s.renew, trans |-> s.trans]

LeaseSpec == [holder: Client \cup {NoOne}, secs: Nat, renew: Nat, trans: Nat]

NoSpec == [holder |-> NoOne, secs |-> 0, renew |-> 0, trans |-> 0]

\* The record a Get of the stored Lease returns.
Stored == LeaseSpecToLeaderElectionRecord(lease.spec)

\* What a write must name: the resourceVersion, or nothing if there is no Lease.
Version == IF lease.exists THEN lease.rv ELSE 0

\* A write in flight: by whom, the version it names, the spec it carries.
Write == [client: Client, ver: Nat, spec: LeaseSpec]

K8sTypeOK ==
    /\ lease \in [exists: BOOLEAN, rv: Nat, spec: LeaseSpec]
    /\ held \in [Client -> Nat]
    /\ late \subseteq Write
    /\ faults \in 0..MaxFaults
    /\ deletes \in 0..MaxDeletes

K8sInit ==
    /\ lease = [exists |-> FALSE, rv |-> 0, spec |-> NoSpec]
    /\ held = [c \in Client |-> 0]
    /\ late = {}
    /\ faults = 0
    /\ deletes = 0

-----------------------------------------------------------------------------
\* The write that client c is waiting for.
WriteOf(c) ==
    [client |-> c, ver |-> IF call[c].op = "create" THEN 0 ELSE held[c],
     spec |-> LeaderElectionRecordToLeaseSpec(call[c].rec)]

\* Update without a lease from the server sends nothing.
IsSent(c) == call[c].op = "create" \/ held[c] # 0

\* Writes that the server can no longer accept are forgotten.
StillPossible(w, version, more) == w.ver = version \/ (w.ver = 0 /\ more)

\* The server carries out a write: a new version of the Lease.
Store(write) ==
    /\ lease' = [exists |-> TRUE, rv |-> lease.rv + 1, spec |-> write.spec]
    /\ late' = {w \in late \ {write} :
                  StillPossible(w, lease.rv + 1, deletes < MaxDeletes)}

GetAnswered(c) ==
    /\ call[c].op = "get" /\ call[c].st = "pending"
    /\ IF lease.exists
       THEN Answer(c, "ok", Stored, lease.rv)
       ELSE Answer(c, "notexist", ZeroRecord, 0)
    /\ UNCHANGED k8sVars

WriteAccepted(c) ==
    /\ IsWrite(c) /\ call[c].st = "pending" /\ IsSent(c)
    /\ WriteOf(c).ver = Version
    /\ Store(WriteOf(c))
    /\ Answer(c, "ok", call[c].rec, lease.rv + 1)
    /\ UNCHANGED <<held, faults, deletes>>

\* A call is abandoned: what it sent and the server has not seen may be late.
Abandoned(c) ==
    IF /\ IsWrite(c) /\ call[c].st = "pending" /\ IsSent(c)
       /\ StillPossible(WriteOf(c), Version, deletes < MaxDeletes)
    THEN late' = late \cup {WriteOf(c)}
    ELSE UNCHANGED late

\* A call returns without an error, or with NotFound from Get.
Returns(c) ==
    /\ call[c].st \in {"ok", "notexist"} /\ ~CallCtxDone(c)
    /\ held' = [held EXCEPT ![c] = IF call[c].st = "ok" THEN call[c].ver ELSE held[c]]
    /\ UNCHANGED <<lease, late, faults, deletes>>

\* ll.lease after a call that failed: a Create that fails leaves the empty
\* object the client library returns.
LeaseAfterFailure(c) ==
    held' = [held EXCEPT ![c] = IF call[c].op = "create" THEN 0 ELSE held[c]]

\* The server refuses a write (a conflict, no such Lease, one that exists), or
\* Update has no lease to send.
Refused(c) ==
    /\ IsWrite(c) /\ call[c].st = "pending"
    /\ ~IsSent(c) \/ WriteOf(c).ver # Version
    /\ LeaseAfterFailure(c)
    /\ UNCHANGED <<lease, late, faults, deletes>>

\* The context of the call is done.
ContextEnds(c) ==
    /\ call[c].op # "none" /\ CallCtxDone(c)
    /\ LeaseAfterFailure(c)
    /\ Abandoned(c)
    /\ UNCHANGED <<lease, faults, deletes>>

\* The request or its answer is lost, or the request times out.
Lost(c) ==
    /\ call[c].op # "none" /\ faults < MaxFaults
    /\ faults' = faults + 1
    /\ LeaseAfterFailure(c)
    /\ Abandoned(c)
    /\ UNCHANGED <<lease, deletes>>

Fails(c) == Refused(c) \/ ContextEnds(c) \/ Lost(c)

\* A write whose caller has gone reaches the server.
LateWrite(w) ==
    /\ w.ver = Version
    /\ Store(w)
    /\ UNCHANGED <<call, held, faults, deletes>>

\* The process is gone, and with it ll.lease.
ClientGone(c) ==
    /\ Abandoned(c)
    /\ held' = [held EXCEPT ![c] = 0]
    /\ UNCHANGED <<lease, faults, deletes>>

DeleteLease ==
    /\ lease.exists /\ deletes < MaxDeletes
    /\ lease' = [lease EXCEPT !.exists = FALSE]
    /\ deletes' = deletes + 1
    /\ late' = {w \in late : w.ver = 0}
    /\ UNCHANGED <<call, held, faults>>
=============================================================================
