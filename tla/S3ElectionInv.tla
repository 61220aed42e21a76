--------------------------- MODULE S3ElectionInv ----------------------------
(***************************************************************************)
(* The inductive invariant behind the properties of S3Election, for        *)
(* clients that do not release.  As long as every PutObject replaces the   *)
(* object its client knew, the RenewTime of the object only grows, so no   *)
(* record comes back once it is replaced; a PutObject that replaces        *)
(* another object, or a deletion, moves raced past every record there is.  *)
(***************************************************************************)
EXTENDS S3Election, ElectorInv

\* The records c has written are of this try or of earlier ones.
LastTry(c) ==
    IF pc[c] = "get" THEN call[c].at ELSE IF pc[c] = "set" THEN call[c].rec.renew ELSE now

\* A record that some try of its holder made.
Made(r) ==
    /\ r \in Record /\ r.holder \in Client /\ r.dur = LeaseDuration
    /\ r.renew <= LastTry(r.holder)

\* The object was deleted or overwritten unseen since r was made.
Raced(r) == r.renew <= raced /\ raced <= now

\* No PutObject that replaces r can count as one that has seen it.
Past(r) == Raced(r) \/ r.renew < object.renew

\* The object is r, or was.
Seen(r) == r # NoObject => Made(r) /\ (object = r \/ Past(r))

\* What put stores over the object it compared renews it, or takes over a lease
\* that has ended.
Sound(put) ==
    /\ Made(put.rec) /\ ~put.release
    /\ put.tag # NoObject =>
         /\ Made(put.tag)
         /\ \/ Past(put.tag)
            \/ put.rec = put.tag
            \/ put.rec.holder = put.tag.holder /\ put.rec.renew > put.tag.renew
            \/ put.rec.renew >= put.tag.renew + LeaseDuration

\* A record of c made at time t does not cut short the lease c has read last.
RawIsOver(c, t) ==
    \/ observedRawRecord[c].holder \in {c, NoOne}
    \/ t >= observedRawRecord[c].renew + LeaseDuration
    \/ Raced(observedRawRecord[c])

ObjectInv ==
    /\ object # NoObject => Made(object)
    /\ \A put \in late : Sound(put)

\* What c knows of the object.
ObservedInv(c) ==
    /\ Seen(etag[c]) /\ Seen(observedRawRecord[c])
    /\ observedRawRecord[c].renew <= observedTime[c]
    /\ observedRawRecord[c].holder = c => IsLeader(c)
    /\ IsLeader(c) => Made(observedRecord[c]) /\ RawIsOver(c, observedRecord[c].renew)

\* What a Get is about to return: an object that is the one StatObject has seen,
\* unless that one is gone.
GetInv(c) ==
    pc[c] = "get" =>
        /\ call[c].at <= now
        /\ call[c].st = "ok" =>
             /\ call[c].rec # NoObject /\ Seen(call[c].rec)
             /\ etag[c] \in {NoObject, call[c].rec} \/ Past(etag[c])
        /\ call[c].st = "notexist" =>
             /\ etag[c] = NoObject \/ Past(etag[c])
             /\ observedRawRecord[c] = ZeroRecord \/ Raced(observedRawRecord[c])

\* What a Create or Update carries.
SetInv(c) ==
    pc[c] = "set" =>
        /\ call[c].rec.holder = c /\ call[c].rec.dur = LeaseDuration
        /\ call[c].rec.renew <= call[c].at /\ call[c].at <= now
        /\ call[c].at <= call[c].rec.renew + RequestTimeout
        /\ Sound(PutOf(c)) /\ RawIsOver(c, call[c].rec.renew)
        /\ call[c].st = "ok" => Seen(call[c].rec)

\* What holds without any condition.
LocalInv == TypeOK /\ \A c \in Client : ElectorInv(c) /\ TimelyInv(c)

\* What holds when clients do not release.
StoreInv ==
    LocalInv /\ ObjectInv /\ \A c \in Client : ObservedInv(c) /\ GetInv(c) /\ SetInv(c)

-----------------------------------------------------------------------------
\* The object is c's since t or later, or was deleted or overwritten since then.
HeldSince(c, t) ==
    \/ object.holder = c /\ t <= object.renew
    \/ t <= raced /\ raced <= now

\* When set is about to return to c without an error, the object is c's.
AckInv(c) ==
    pc[c] = "set" /\ call[c].st = "ok" => HeldSince(c, call[c].rec.renew)

\* A leader holds the object since the try that it leads by.
LeadInv(c) == leading[c] => HeldSince(c, LeadEnd(c) - LeadTime)

LeadersInv == StoreInv /\ \A c \in Client : AckInv(c) /\ LeadInv(c)

-----------------------------------------------------------------------------
(***************************************************************************)
(* The candidates, of records that were not raced.  Such a record does not *)
(* come back, so that a set which finds another object is followed by a    *)
(* Get that reads it.                                                      *)
(***************************************************************************)
\* c replaces the record it had read before.
Replaces(c) ==
    \/ pc[c] = "set"
    \/ pc[c] = "get" /\ call[c].st = "ok" /\ call[c].rec = observedRawRecord[c]

\* A StatObject of c's try has failed: its set will be refused.
Blind(c) ==
    etag[c] = NoObject /\ (pc[c] = "set" \/ (pc[c] = "get" /\ stated[c]))

\* c writes in the try in which it has read the record first.
EarlyWrite(c) == pc[c] = "set" /\ call[c].at <= observedTime[c]

\* The StatObject of a Get has failed, or has found the record that c had read or
\* one made later, and then GetObject does not read that record; so a set that
\* follows has the ETag of the record, or none.
TryInv(c) ==
    /\ stated[c] => call[c].op # "none"
    /\ pc[c] = "get" /\ call[c].st = "ok" => stated[c]
    /\ Candidate(c) /\ ~Raced(observedRawRecord[c]) =>
         /\ pc[c] = "get" /\ stated[c] =>
              \/ etag[c] \in {NoObject, observedRawRecord[c]}
              \/ /\ observedRawRecord[c].renew < etag[c].renew
                 /\ call[c].st = "ok" => call[c].rec # observedRawRecord[c]
         /\ pc[c] = "set" => EarlyWrite(c) \/ etag[c] \in {NoObject, observedRawRecord[c]}

\* How many retries may have passed before the next try: one, one for each fault,
\* unless it has not yet made a try fail, and one when a set has found, or will
\* find, that the object has been replaced.
TriesNeeded(c) ==
    faults + (IF Blind(c) THEN 0 ELSE 1)
           + (IF object = observedRawRecord[c] \/ Replaces(c) THEN 0 ELSE 1)

RetryInv(c) ==
    Candidate(c) /\ ~Raced(observedRawRecord[c]) =>
        IF cancelled[c] THEN now <= Due(c, 2 + MaxFaults)
        ELSE EarlyWrite(c) \/ StartsBy(c, TriesNeeded(c))

CandidatesInv ==
    StoreInv /\ \A c \in Client : AcquireInv(c) /\ WriteInv(c) /\ TryInv(c) /\ RetryInv(c)
=============================================================================
