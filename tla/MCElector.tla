----------------------------- MODULE MCElector -----------------------------
(***************************************************************************)
(* What the TLC models of the elections share.  Nothing an elector or a    *)
(* lock does depends on the value of the clock or of LeaderTransitions,    *)
(* only on differences of instants and on which records are equal.  The    *)
(* views identify the states that differ only in the former, and drop what *)
(* a client that is not running, or a timer that is not set, leaves behind.*)
(***************************************************************************)
EXTENDS Elector, TLC, FiniteSetsExt

CONSTANTS a, b

Symmetry == Permutations(Client)

Cap == LeaseDuration + RequestTimeout + 1

(***************************************************************************)
(* How old an instant is.  Of the instants older than cap only the order   *)
(* is told; instants are those of the clients that run, others the ones of *)
(* the lock.                                                               *)
(***************************************************************************)
Age(t, others, cap) ==
    LET running == {c \in Client : pc[c] \notin {"off", "done"}}
        instants == others \cup UNION {{observedRecord[c].renew, observedRawRecord[c].renew,
                                        call[c].rec.renew, call[c].at} : c \in running}
    IN  IF now - t <= cap THEN now - t
        ELSE cap + Cardinality({u \in instants : t <= u /\ now - u > cap})

\* A record, against the LeaderTransitions of the stored one.
RecordView(r, trans, others, cap) ==
    IF r = ZeroRecord THEN <<>>
    ELSE <<r.holder, r.dur, Age(r.renew, others, cap), trans - r.trans>>

CallView(c, trans, others, cap) ==
    IF call[c].op = "none" THEN <<>>
    ELSE <<call[c].op, call[c].st, Age(call[c].at, others, cap),
           RecordView(call[c].rec, trans, others, cap)>>

\* The timer of c and, within a renew round, the deadline.
TimerView(c) ==
    IF pc[c] \in {"wait", "poll"} \/ (pc[c] \in {"get", "set"} /\ inRenew[c])
    THEN <<wake[c] - now, IF deadline[c] = Never THEN 0 ELSE deadline[c] - now>>
    ELSE <<>>

\* A client, with what its lock knows; retries is what StuckFor is asked with.
ClientView(c, trans, others, cap, lockView, retries) ==
    CASE pc[c] = "off" -> <<>>
      [] pc[c] = "done" -> <<metric[c], observedRecord[c].holder, reportedLeader[c]>>
      [] OTHER ->
           <<pc[c], inRenew[c], cancelled[c], metric[c], leading[c], reportedLeader[c],
             lockView, TimerView(c), CallView(c, trans, others, cap),
             RecordView(observedRecord[c], trans, others, cap),
             RecordView(observedRawRecord[c], trans, others, cap),
             IF observedRecord[c] = ZeroRecord THEN 0
             ELSE Min({now - observedTime[c],
                       Cap + retries * ((22 * RetryPeriod) \div 10 + 2 * RequestTimeout)})>>
=============================================================================
