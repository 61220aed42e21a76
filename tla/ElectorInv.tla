----------------------------- MODULE ElectorInv -----------------------------
(***************************************************************************)
(* What holds of every client of an election over any lock: inductive      *)
(* invariants of the elector alone.  A lock keeps them if it answers a     *)
(* call without changing its kind, its time or the record a write carries, *)
(* and lets no call outlive the deadline of its context.                   *)
(***************************************************************************)
EXTENDS Elector

InRound(c) == pc[c] \in {"poll", "get", "set"}

\* The call of c is the one its pc says; release is made if it is configured.
CallMatches(c) ==
    /\ pc[c] \in {"off", "wait", "poll", "done"} => call[c].op = "none"
    /\ pc[c] = "get" => call[c].op = "get"
    /\ pc[c] = "set" => call[c].op \in {"create", "update"}
    /\ pc[c] = "release" => call[c].op = "release" /\ ReleaseOnCancel

\* Outside a try, and in a release, which does not change the holder, the
\* leader c has observed is the one it has reported.
ReportInv(c) ==
    /\ pc[c] \in {"off", "wait", "release", "done"} =>
         reportedLeader[c] = observedRecord[c].holder
    /\ pc[c] = "release" => call[c].rec.holder = observedRecord[c].holder

\* A release that ends leadership is made with the metric off, or after a
\* cancellation.
MetricInv(c) ==
    /\ metric[c] => leading[c] \/ cancelled[c]
    /\ metric[c] /\ pc[c] = "release" => cancelled[c]

\* No timer and no deadline of c is overdue.
TimersInv(c) ==
    /\ observedTime[c] <= now
    /\ pc[c] = "wait" => now <= wake[c]
    /\ pc[c] \in {"poll", "release"} => inRenew[c]
    /\ inRenew[c] /\ InRound(c) => now <= deadline[c]

\* A leader has a pause and a round since it last observed its record; it has
\* no more when it starts to release.
GiveUpInv(c) ==
    leading[c] =>
        /\ ~cancelled[c] /\ inRenew[c]
        /\ pc[c] \in {"wait", "poll", "get", "set", "release"}
        /\ pc[c] = "wait" => wake[c] <= observedTime[c] + RetryPeriod
        /\ InRound(c) => deadline[c] <= observedTime[c] + RetryPeriod + RenewDeadline
        /\ pc[c] = "release" =>
             call[c].at <= observedTime[c] + RetryPeriod + RenewDeadline

ElectorInv(c) ==
    /\ CallMatches(c) /\ ReportInv(c) /\ MetricInv(c) /\ TimersInv(c) /\ GiveUpInv(c)

\* When c, which leads, gives up if no try succeeds.
LeadEnd(c) == IF pc[c] = "wait" THEN wake[c] + RenewDeadline ELSE deadline[c]

\* A call is over when its request timeout has passed; not so over gossip.
TimelyInv(c) == call[c].op # "none" => now <= call[c].at + RequestTimeout

\* How long a leader may act since it last observed its record.
UnobservedTime ==
    RetryPeriod + RenewDeadline + (IF ReleaseOnCancel THEN RequestTimeout ELSE 0)

-----------------------------------------------------------------------------
\* A process that has not called Run has read nothing; acquire has no deadline,
\* and what it has observed is what it has read.
AcquireInv(c) ==
    /\ pc[c] = "off" => ~inRenew[c] /\ observedRawRecord[c] = ZeroRecord
    /\ ~inRenew[c] => deadline[c] = Never /\ observedRecord[c] = observedRawRecord[c]

\* c tries to acquire a lease of which it has read a record.
Candidate(c) ==
    pc[c] \in {"wait", "get", "set"} /\ ~inRenew[c] /\ observedRawRecord[c] # ZeroRecord

\* The longest pause between two tries, and what passes from one to the next.
RetryPause == (22 * RetryPeriod) \div 10

RetryTime == RetryPause + 2 * RequestTimeout

\* When the record c has read is over and n retries have passed.
Due(c, n) == observedTime[c] + observedRawRecord[c].dur + n * RetryTime

\* When the try of a candidate started, or will start.
TryStart(c) ==
    IF pc[c] = "wait" THEN wake[c] ELSE IF pc[c] = "get" THEN call[c].at ELSE call[c].rec.renew

\* A candidate tries again before n retries have passed.
StartsBy(c, n) == TryStart(c) + RequestTimeout <= Due(c, n)

\* The write of a try follows its Get.
WriteInv(c) ==
    /\ call[c].at <= now
    /\ pc[c] = "set" =>
         /\ call[c].rec.holder = c /\ call[c].rec.dur = LeaseDuration
         /\ call[c].rec.renew <= call[c].at
         /\ call[c].at <= call[c].rec.renew + RequestTimeout
=============================================================================
