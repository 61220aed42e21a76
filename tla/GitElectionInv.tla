--------------------------- MODULE GitElectionInv ---------------------------
(***************************************************************************)
(* The inductive invariant behind the properties of GitElection, for       *)
(* clients that do not release.  The server only takes a push whose commit *)
(* has the server's as its parent, made by a try that had fetched it; so a *)
(* push is justified by the record it replaces, however late it is and     *)
(* whatever the clone that sends it has committed since.                   *)
(***************************************************************************)
EXTENDS GitElection, ElectorInv

\* The records c has written, pushed or not, are of this try or earlier ones.
LastTry(c) ==
    IF pc[c] = "get" THEN call[c].at ELSE IF pc[c] = "set" THEN call[c].rec.renew ELSE now

\* A record that some try of its holder made.
Made(r) ==
    /\ r \in Record /\ r.holder \in Client /\ r.dur = LeaseDuration
    /\ r.renew <= LastTry(r.holder)

\* The file has gone from r to what it holds now, or holds r.
Follows(r) ==
    \/ Stored.trans > r.trans
    \/ Stored.trans = r.trans /\ Stored.holder = r.holder /\ Stored.renew >= r.renew

\* What the file held at some time.  Either its holder has had it ever since,
\* or the lease it stands for has ended.
Past(r) ==
    r # ZeroRecord =>
        /\ Made(r) /\ Follows(r)
        /\ \/ Stored.holder = r.holder /\ r.renew <= taken
           \/ now >= r.renew + LeaseDuration

\* r may replace the stored record: it renews it, or takes over a lease that
\* has ended.
Justified(r) ==
    /\ Made(r)
    /\ \/ Stored = ZeroRecord
       \/ /\ r.holder = Stored.holder /\ r.trans = Stored.trans
          /\ r.renew >= Stored.renew /\ r # Stored
       \/ /\ r.holder # Stored.holder /\ r.trans = Stored.trans + 1
          /\ now >= taken + LeaseDuration

\* A commit that the server may take adds one record.
Sound(commit) ==
    FastForward(remote, commit) =>
        Len(commit) = Len(remote) + 1 /\ Justified(Last(commit))

RemoteInv ==
    /\ taken <= now
    /\ \A i \in 1..Len(remote) : Past(remote[i])

\* Pushes whose fate is open: the late ones, and the branch that a clone with a
\* detached HEAD sends again.
PoolInv ==
    /\ \A commit \in late : Sound(commit)
    /\ \A c \in Client : detached[c] =>
         /\ Sound(branch[c])
         /\ FastForward(remote, branch[c]) => Last(branch[c]).holder = c

\* A pull has fetched a commit of the server.
Fetched(c) == call[c].op = "get" /\ call[c].st \in {"ok", "notexist"}

FetchInv(c) == Fetched(c) => call[c].ver \in 1..Len(remote)

\* What the call of c carries.
CallInv(c) ==
    /\ call[c].at <= now
    /\ Fetched(c) =>
         /\ call[c].rec = remote[call[c].ver]
         /\ call[c].st = "notexist" <=> call[c].rec = ZeroRecord
    /\ pc[c] = "set" =>
         /\ call[c].rec.holder = c /\ call[c].rec.dur = LeaseDuration
         /\ call[c].rec.renew <= call[c].at
         /\ call[c].at <= call[c].rec.renew + RequestTimeout

\* set commits on a commit of the server, and when that is still the last one
\* what it commits is justified.
SetInv(c) ==
    pc[c] = "set" =>
        /\ IsPrefix(head[c], remote)
        /\ head[c] = remote /\ ~Clean(c) => Justified(call[c].rec)

ObservedInv(c) ==
    /\ Past(observedRawRecord[c])
    /\ observedRawRecord[c] = Stored => taken <= observedTime[c] \/ Stored = ZeroRecord
    /\ observedRawRecord[c].holder = c => IsLeader(c)
    /\ IsLeader(c) =>
         \/ observedRawRecord[c].holder \in {c, NoOne}
         \/ observedRawRecord[c].trans < Stored.trans

\* When set is about to return to c without an error, the file is c's.
AckInv(c) ==
    pc[c] = "set" /\ call[c].st = "ok" =>
        Stored.holder = c /\ call[c].rec.renew <= taken

\* A leader gives up before the lease it holds ends.
LeadInv(c) ==
    leading[c] =>
        /\ Stored.holder = c
        /\ pc[c] = "wait" => wake[c] <= taken + 2 * RequestTimeout + RetryPeriod
        /\ InRound(c) =>
             deadline[c] <= taken + 2 * RequestTimeout + RetryPeriod + RenewDeadline

\* What holds without any condition.
LocalInv == TypeOK /\ \A c \in Client : ElectorInv(c) /\ TimelyInv(c) /\ FetchInv(c)

ClientInv(c) == CallInv(c) /\ SetInv(c) /\ ObservedInv(c) /\ AckInv(c) /\ LeadInv(c)

GitInv == LocalInv /\ RemoteInv /\ PoolInv /\ \A c \in Client : ClientInv(c)

-----------------------------------------------------------------------------
(***************************************************************************)
(* The candidates, those that release too.  A clone whose pushes have all  *)
(* been taken follows the server, so that its pulls fail only when they    *)
(* are lost or its context is done; and the clock waits for a client whose *)
(* context is.                                                             *)
(***************************************************************************)
CloneInv(c) ==
    /\ ~inRenew[c] /\ ~detached[c] => IsPrefix(head[c], remote)
    /\ pc[c] = "set" => head[c] # <<>>
    /\ observedRawRecord[c] # ZeroRecord => remote # <<>>

RetryInv(c) ==
    Candidate(c) /\ ~detached[c] =>
        IF cancelled[c] THEN now <= Due(c, 2 + MaxFaults) ELSE StartsBy(c, 1 + faults)

CandidatesInv ==
    LocalInv /\ \A c \in Client : AcquireInv(c) /\ WriteInv(c) /\ CloneInv(c) /\ RetryInv(c)
=============================================================================
