----------------------------- MODULE S3Election -----------------------------
(***************************************************************************)
(* The election over an S3 object: the electors of Elector calling the     *)
(* lock of S3Lock.                                                         *)
(***************************************************************************)
EXTENDS Elector, S3Lock

CONSTANT
    MaxTroubles     \* bound: how many faults and stops there are in all

vars == <<interfaceVars, electorVars, s3Vars>>

Init == InterfaceInit /\ ElectorInit /\ S3Init

Tick ==
    /\ now < MaxTime
    /\ \A c \in Client : NoTimerDue(c) /\ CallMayWait(c)
    /\ now' = now + 1
    /\ UNCHANGED <<call, cancelled, deadline, electorVars, s3Vars>>

\* A step of an elector alone, or when a call returns.
ElectorStep(c) ==
    \/ Proceed(c) /\ UNCHANGED s3Vars
    \/ Resume(c) /\ Returns(c)
    \/ Fail(c) /\ Fails(c)

Die(c) == Crash(c) /\ ClientGone(c)

\* The store acts on the request c waits for.
StoreStep(c) ==
    GetStat(c) \/ GetStatFails(c) \/ GetObject(c) \/ SetStat(c) \/ PutObject(c)

Next ==
    /\ \/ Tick
       \/ /\ \E c \in Client : ElectorStep(c) \/ Die(c)
          /\ UNCHANGED now
       \/ /\ \/ \E c \in Client : StoreStep(c)
             \/ \E put \in late : LatePut(put)
             \/ DeleteObject
          /\ UNCHANGED <<now, cancelled, deadline, electorVars>>
    /\ faults' + stops' <= MaxTroubles

Spec == Init /\ [][Next]_vars

TypeOK == InterfaceTypeOK /\ ElectorTypeOK /\ S3TypeOK

-----------------------------------------------------------------------------
(***************************************************************************)
(* Properties.                                                             *)
(***************************************************************************)
\* For as long as a leader needs to notice, the object was not deleted, no
\* PutObject has replaced an object its StatObject had not seen, and no client
\* has released the lease of another.
RaceFree == raced > now \/ now > raced + LeadTime

\* Two clients lead at once only after the object was deleted, overwritten unseen
\* or released by a client that had lost it, and then for no longer than
\* LeadTime: the one that was overwritten finds the other's record and renew
\* gives up.
OneLeaderAfterRace == RaceFree => MutualExclusion

\* The record of a holder is replaced by one of another before its lease has
\* expired only if the object was so deleted, overwritten or released since that
\* record was made.
TakeoverWaitsLease ==
    [][object # NoObject /\ object' # NoObject /\ object'.holder # object.holder =>
         \/ now >= object.renew + object.dur
         \/ object.renew <= raced' /\ raced' <= now]_vars

\* A candidate stays behind a record that no one renews only if the object was so
\* deleted, overwritten or released since the record was made: an ETag of an
\* object that is gone makes set refuse for good.  A StatObject that failed and
\* has cleared the ETag, or a PutObject that was late, costs it one retry.
CandidateNotStuckUnlessRaced ==
    \A c \in Client :
        StuckFor(c, 2 + MaxFaults) => observedRawRecord[c].renew <= raced /\ raced <= now

\* leaderelection.go, renew: "if we hold the lease, give it up".  A release that
\* replaces the very object its StatObject compared replaces a record of the
\* client that releases.
ReleaseOwnLease ==
    [][\A c \in Client :
         Pending(c, "release") /\ call'[c].st = "ok" /\ object = etag[c]
         => object.holder = c]_vars
=============================================================================
