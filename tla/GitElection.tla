---------------------------- MODULE GitElection ----------------------------
(***************************************************************************)
(* The election over a file in a git repository: the electors of Elector   *)
(* calling the lock of GitLock.                                            *)
(***************************************************************************)
EXTENDS Elector, GitLock

vars == <<interfaceVars, electorVars, gitVars>>

Init == InterfaceInit /\ ElectorInit /\ GitInit

Tick ==
    /\ now < MaxTime
    /\ \A c \in Client : NoTimerDue(c) /\ CallMayWait(c)
    /\ now' = now + 1
    /\ UNCHANGED <<call, cancelled, deadline, electorVars, gitVars>>

\* A step of an elector alone (the first one makes its lock), or when a call
\* returns.
ElectorStep(c) ==
    \/ Run(c) /\ New(c)
    \/ pc[c] # "off" /\ Proceed(c) /\ UNCHANGED gitVars
    \/ Resume(c) /\ Returns(c)
    \/ Fail(c) /\ Fails(c)

Die(c) == Crash(c) /\ ClientGone(c)

\* The server acts on the request c waits for, or there is no need of one.
ServerStep(c) == Pull(c) \/ SetNothing(c) \/ Push(c)

Next ==
    \/ Tick
    \/ /\ \E c \in Client : ElectorStep(c) \/ Die(c)
       /\ UNCHANGED now
    \/ /\ \/ \E c \in Client : ServerStep(c)
          \/ \E commit \in late : LatePush(commit)
       /\ UNCHANGED <<now, cancelled, deadline, electorVars>>

Spec == Init /\ [][Next]_vars

TypeOK == InterfaceTypeOK /\ ElectorTypeOK /\ GitTypeOK

-----------------------------------------------------------------------------
(***************************************************************************)
(* Properties.                                                             *)
(***************************************************************************)
Stored == Content(remote)

\* The file on the server as the lease of LeaderLease.  It runs from the push,
\* not from RenewTime: a push may store a record older than the try it is of.
Lease == INSTANCE LeaderLease WITH
    owner <- Stored.holder,
    until <- taken + Stored.dur,
    leaders <- {c \in Client : leading[c]}

\* The election is a LeaderLease, whatever pushes were lost, refused or late,
\* and although a push may store another record than the one set was given:
\* a push that the server takes renews the lease of its owner or takes one that
\* has ended, and renew gives up while the stored lease still runs.
ImplementsLease == Lease!Spec

\* A candidate none of whose pushes has failed does not stay behind a record
\* that no one renews.
CandidateNotStuckUnlessDetached ==
    \A c \in Client : StuckFor(c, 2 + MaxFaults) => detached[c]
=============================================================================
