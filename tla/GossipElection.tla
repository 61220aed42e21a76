--------------------------- MODULE GossipElection ---------------------------
(***************************************************************************)
(* The election over the gossip store: the electors of Elector calling the *)
(* lock of GossipLock.                                                     *)
(***************************************************************************)
EXTENDS Elector, GossipLock

vars == <<interfaceVars, electorVars, gossipVars>>

Init == InterfaceInit /\ ElectorInit /\ GossipInit

Tick ==
    /\ now < MaxTime
    /\ \A c \in Client : NoTimerDue(c) /\ LockMayWait(c)
    /\ now' = now + 1
    /\ UNCHANGED <<call, cancelled, deadline, electorVars, gossipVars>>

\* A step of an elector alone, or when a call returns.
ElectorStep(c) ==
    \/ up[c] /\ Proceed(c) /\ UNCHANGED gossipVars
    \/ Resume(c) /\ Returns(c)
    \/ Fail(c) /\ Fails(c)

Die(c) == Crash(c) /\ ClientGone(c)

\* memberlist at c takes the other members for dead, rightly or in a fault that
\* MaxStops counts.
TakenForDead(c) ==
    /\ Isolated(c)
    /\ IF Others(c) = {} THEN UNCHANGED stops ELSE stops < MaxStops /\ stops' = stops + 1
    /\ UNCHANGED <<pc, inRenew, wake, observedVars, reportedLeader, metric, leading>>

\* The store of c acts, on a call or on what other nodes have sent.
StoreStep(c) ==
    \/ GetReturns(c) \/ GetWaits(c) \/ Set(c) \/ ConfirmAlone(c)
    \/ \E e \in UNION {sent[d] : d \in Client} : ArrivesSame(c, e) \/ ArrivesNewer(c, e)
    \/ Join(c) \/ Reunited(c)

Next ==
    \/ Tick
    \/ /\ \E c \in Client : ElectorStep(c) \/ Die(c)
       /\ UNCHANGED now
    \/ /\ \E c \in Client : StoreStep(c)
       /\ UNCHANGED <<now, cancelled, deadline, electorVars>>
    \/ /\ \E c \in Client : TakenForDead(c)
       /\ UNCHANGED <<now, cancelled, deadline>>

Spec == Init /\ [][Next]_vars

TypeOK == InterfaceTypeOK /\ ElectorTypeOK /\ GossipTypeOK

-----------------------------------------------------------------------------
(***************************************************************************)
(* Properties.                                                             *)
(***************************************************************************)
\* For as long as a leader needs to notice, every Set was made by a client that
\* had seen the newest entry, and was confirmed in time.
RaceFree == raced > now \/ now > raced + LeadTime

\* Update of the gossip lock compares nothing, so two candidates may both write
\* and lead; but they lead together only for LeadTime after such a race: what
\* the newer Set stored reaches the other one, whose renew gives up.
OneLeaderAfterRace == RaceFree => MutualExclusion

\* A candidate stays behind a record that no one renews only while its Set
\* waits for other nodes; one whose calls return takes the lease.
CandidateNotStuckUnlessWaiting ==
    \A c \in Client : StuckFor(c, 1) /\ ~cancelled[c] => on[c] # 0

\* A leader whose renewals are not confirmed acts for longer only while release
\* waits for other nodes, and Run with it.
GivesUpUnlessReleasing ==
    \A c \in Client :
        leading[c] /\ now > observedTime[c] + RetryPeriod + RenewDeadline
            => pc[c] = "release"
=============================================================================
