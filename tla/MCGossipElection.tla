-------------------------- MODULE MCGossipElection --------------------------
(***************************************************************************)
(* GossipElection for TLC.  No step and no property compares a RenewTime   *)
(* with the clock, so that of those before now only the order is told.     *)
(***************************************************************************)
EXTENDS GossipElection, MCElector, Functions

\* The entry of d; a process of d that dies may come up alone, with none.
Floor(d) == IF stops < MaxStops THEN 0 ELSE entry[d].time

\* What c has sent and some other node would not skip.
Fresh(c) ==
    {e \in sent[c] : \E d \in Client \ {c} :
        e.time > Floor(d) \/ (e.time = entry[d].time /\ ~entry[d].confirmed)}

EntryView(e, entries, trans, renews) ==
    <<RecordView(e.rec, trans, renews, RequestTimeout), e.confirmed,
      \* how many entries are newer: only the order of timestamps counts
      Cardinality({f.time : f \in {g \in entries : g.time > e.time}})>>

LockView(c) == <<on[c] = 0, on[c] = entry[c].time>>

\* The store and the clients, against the newest LeaderTransitions there are.
StoreView(retries) ==
    LET fresh == [c \in Client |-> Fresh(c)]
        entries == UNION Range(fresh) \cup Range(entry)
        renews == {e.rec.renew : e \in entries}
        trans == Max({e.rec.trans : e \in entries} \cup {call[c].rec.trans : c \in Client})
    IN  <<[c \in Client |->
             <<ClientView(c, trans, renews, RequestTimeout, LockView(c), retries), up[c], alone[c],
               EntryView(entry[c], entries, trans, renews),
               {EntryView(e, entries, trans, renews) : e \in fresh[c]}>>],
          stops>>

\* What c has seen counts from its Get to its Set, and for a release.
Informed(c) ==
    /\ ReleaseOnCancel \/ call[c].st \in {"ok", "notexist"} \/ (IsWrite(c) /\ on[c] = 0)
    /\ seen[c] = sets

\* With what races are about, or with what a candidate that waits is.
RaceView ==
    <<StoreView(0), [c \in Client |-> Informed(c)],
      IF raced > now THEN LeadTime + 1 ELSE Min({now - raced, LeadTime + 1})>>

StuckView == StoreView(2)
=============================================================================
