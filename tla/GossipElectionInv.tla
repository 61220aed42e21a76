------------------------- MODULE GossipElectionInv --------------------------
(***************************************************************************)
(* The inductive invariants behind the properties of GossipElection.  That *)
(* of the leaders is for clients that do not release.  Then a Get returns  *)
(* at once or fails, so that the RenewTime of an entry is the time of its  *)
(* Set and grows with the timestamps; and a Set that is no race was made   *)
(* by a client that had seen the newest entry and waited for its end.      *)
(***************************************************************************)
EXTENDS GossipElection, ElectorInv

\* No entry is newer than the newest Set.
EntriesInv ==
    /\ \A c \in Client : entry[c].time <= sets
    /\ \A c \in Client : \A e \in sent[c] : e.time <= sets

\* What holds of every elector, and of the entries of its lock.
LocalInv == TypeOK /\ EntriesInv /\ \A c \in Client : ElectorInv(c)

-----------------------------------------------------------------------------
\* The timestamps and records of all entries that a node may still come to have.
Row(e) == [time |-> e.time, rec |-> e.rec]

Rows ==
    {Row(e) : e \in {NoEntry} \cup {entry[c] : c \in Client} \cup UNION {sent[c] : c \in Client}}

\* A timestamp is that of one Set, and a later one is renewed later.
Agree(e, f) ==
    /\ e.time = f.time => e.rec = f.rec
    /\ e.time <= f.time => e.rec.renew <= f.rec.renew

\* What a Set stores.
Stored(r) == r.holder \in Client /\ r.dur = LeaseDuration /\ r.renew <= now

RowsInv ==
    /\ \A e \in Rows : e.time # 0 => Stored(e.rec)
    /\ \A e, f \in Rows : Agree(e, f)
    /\ \A c \in Client : \A e \in sent[c] : e.confirmed

\* r is the record of the Set with timestamp t, if a node still has it.
Is(r, t) == \A e \in Rows : e.time = t => e.rec = r

\* A process that is down has nothing, a call that is over waits for nothing, and
\* acquire has no deadline.
RestInv(c) ==
    /\ ~up[c] => pc[c] = "off" /\ entry[c] = NoEntry
    /\ call[c].op = "none" => on[c] = 0
    /\ ~inRenew[c] => deadline[c] = Never

\* An entry that waits for its confirmation is that of the Set under way, or of
\* one that was given up because its context was done.
OwnInv(c) ==
    ~entry[c].confirmed =>
        \/ pc[c] = "set" /\ Waits(c) /\ on[c] = entry[c].time
        \/ pc[c] = "get" /\ call[c].st = "pending" /\ CtxDone(c)
        \/ pc[c] = "poll" /\ CtxDone(c)
        \/ pc[c] = "wait" /\ cancelled[c]
        \/ pc[c] = "done"

\* The lease that c has read last is its own or free, or has ended at time t.
RawIsOver(c, t) ==
    \/ observedRawRecord[c].holder \in {c, NoOne}
    \/ t >= observedRawRecord[c].renew + LeaseDuration

ObservedInv(c) ==
    /\ seen[c] <= entry[c].time
    /\ observedRawRecord[c].renew <= observedTime[c]
    /\ observedRawRecord[c] = ZeroRecord \/ observedRawRecord[c].holder \in Client
    /\ entry[c].time = 0 => observedRawRecord[c] = ZeroRecord
    /\ IsLeader(c) => RawIsOver(c, entry[c].rec.renew)

\* What a Get returns is the entry c has seen; it takes no time.
GetInv(c) ==
    pc[c] = "get" =>
        /\ call[c].at = now
        /\ Waits(c) => CtxDone(c)
        /\ call[c].st = "ok" =>
             /\ Stored(call[c].rec) /\ seen[c] # 0 /\ Is(call[c].rec, seen[c])
             /\ IsLeader(c) => RawIsOver(c, call[c].rec.renew)
        /\ call[c].st = "notexist" => seen[c] = 0 /\ observedRawRecord[c] = ZeroRecord

\* What a Create or Update carries, from before and after its Set.
SetInv(c) ==
    pc[c] = "set" =>
        /\ call[c].rec.holder = c /\ call[c].rec.dur = LeaseDuration
        /\ call[c].rec.renew = call[c].at /\ call[c].at <= now
        /\ call[c].st \in {"pending", "ok"}
        /\ RawIsOver(c, call[c].at)
        /\ Begins(c) => call[c].at = now /\ Is(observedRawRecord[c], seen[c])
        /\ ~Begins(c) => entry[c].rec.renew >= call[c].at /\ entry[c].time # 0

ClientInv(c) == RestInv(c) /\ OwnInv(c) /\ ObservedInv(c) /\ GetInv(c) /\ SetInv(c)

StoreInv ==
    LocalInv /\ RowsInv /\ \A c \in Client : ClientInv(c)

-----------------------------------------------------------------------------
\* The newest entry is c's, made at t or later, or there was a race since then.
NewestSince(c, t) ==
    \/ entry[c].time = sets /\ entry[c].rec.holder = c /\ entry[c].rec.renew >= t
    \/ t <= raced /\ raced <= now

\* A Set is the newest for as long as the lease lasts; so if it is confirmed in
\* time it is when it returns.
AckInv(c) ==
    pc[c] = "set" /\ ~Begins(c) =>
        \/ NewestSince(c, call[c].at)
        \/ call[c].st = "pending" /\ now >= call[c].at + LeaseDuration

AckInTime(c) ==
    pc[c] = "set" /\ call[c].st = "ok" =>
        now <= call[c].at + RequestTimeout \/ (call[c].at <= raced /\ raced = now)

LeadInv(c) == leading[c] => NewestSince(c, LeadEnd(c) - LeadTime)

LeadersInv ==
    StoreInv /\ \A c \in Client : AckInv(c) /\ AckInTime(c) /\ LeadInv(c)

-----------------------------------------------------------------------------
(***************************************************************************)
(* The candidates, those that release too.  A node has an entry that is    *)
(* not confirmed only while its Set waits, so that no call of a candidate  *)
(* takes time before its Set has begun; and a call of acquire is given up  *)
(* only when its context is cancelled.                                     *)
(***************************************************************************)
PromptInv(c) ==
    /\ call[c].op = "none" => on[c] = 0
    /\ ~inRenew[c] /\ ~cancelled[c] =>
         /\ entry[c].confirmed \/ (pc[c] = "set" /\ on[c] # 0)
         /\ pc[c] = "get" => on[c] = 0 /\ call[c].at = now
    /\ Candidate(c) /\ ~cancelled[c] =>
         /\ pc[c] = "wait" => wake[c] <= Due(c, 0) + RetryPause
         /\ pc[c] # "wait" => on[c] # 0 \/ now <= Due(c, 0) + RetryPause

CandidatesInv ==
    /\ LocalInv
    /\ \A c \in Client : \A e \in sent[c] : e.confirmed
    /\ \A c \in Client : AcquireInv(c) /\ PromptInv(c)
=============================================================================
