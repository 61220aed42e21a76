------------------------- MODULE K8sSafetyProofs --------------------------
(***************************************************************************)
(* K8sElection, for every set of clients, every configuration New accepts  *)
(* and every bound on what may go wrong: its types, the invariants of the  *)
(* electors, and, when no one deletes the Lease, SafetyInv with what       *)
(* follows for the steps that write the Lease.                             *)
(***************************************************************************)
EXTENDS K8sElectionInv, ElectorProofs

\* A duration in seconds is a natural number.
LEMMA ToSecondsType == \A d \in Nat : ToSeconds(d) \in Nat
BY K8sAssumption DEF ToSeconds

\* What a Get returns is a Record.
LEMMA StoredType ==
    ASSUME TypeOK PROVE Stored \in Record
<1>1. \A s \in Nat : s * Second \in Nat
  BY K8sAssumption
<1> QED
  BY <1>1 DEF TypeOK, K8sTypeOK, LeaseSpec, Stored, LeaseSpecToLeaderElectionRecord, Record

\* The write a client waits for is well formed.
LEMMA WriteOfType ==
    ASSUME TypeOK, NEW c \in Client PROVE WriteOf(c) \in Write
BY ToSecondsType
   DEF TypeOK, K8sTypeOK, InterfaceTypeOK, Call, Record, LeaseSpec, Write, WriteOf,
       LeaderElectionRecordToLeaseSpec

\* What Fails, ClientGone and Returns do to the lock's own variables.
LEMMA LockSideType ==
    ASSUME TypeOK, NEW c \in Client, Returns(c) \/ Fails(c) \/ ClientGone(c)
    PROVE  K8sTypeOK'
<1> USE DEF TypeOK, K8sTypeOK
<1>1. WriteOf(c) \in Write
  BY WriteOfType
<1>2. call[c].ver \in Nat /\ held[c] \in Nat
  BY DEF InterfaceTypeOK, Call
<1>3. CASE Returns(c)
  BY <1>2, <1>3 DEF Returns
<1>4. CASE Refused(c)
  BY <1>2, <1>4 DEF Refused, LeaseAfterFailure
<1>5. CASE ContextEnds(c)
  BY <1>1, <1>2, <1>5 DEF ContextEnds, LeaseAfterFailure, Abandoned
<1>6. CASE Lost(c)
  BY <1>1, <1>2, <1>6, K8sAssumption DEF Lost, LeaseAfterFailure, Abandoned
<1>7. CASE ClientGone(c)
  BY <1>1, <1>2, <1>7 DEF ClientGone, Abandoned
<1> QED
  BY <1>3, <1>4, <1>5, <1>6, <1>7 DEF Fails

\* Every step preserves the types.
LEMMA TypeStep == TypeOK /\ [Next]_vars => TypeOK'
<1> SUFFICES ASSUME TypeOK, [Next]_vars PROVE TypeOK'
  OBVIOUS
<1> USE DEF TypeOK
<1>1. CASE Tick
  BY <1>1, ElectorTypeTick DEF Tick, K8sTypeOK, k8sVars
<1>2. ASSUME NEW c \in Client, ElectorStep(c) \/ Die(c), UNCHANGED now
      PROVE  TypeOK'
  <2>1. CASE Proceed(c) /\ UNCHANGED k8sVars
    <3>1. K8sTypeOK'
      BY <2>1 DEF K8sTypeOK, k8sVars
    <3> QED
      BY <1>2, <2>1, <3>1, ProceedType
  <2>2. CASE Resume(c) /\ Returns(c)
    BY <1>2, <2>2, ResumeType, LockSideType
  <2>3. CASE Fail(c) /\ Fails(c)
    BY <1>2, <2>3, ResumeType, LockSideType
  <2>4. CASE Die(c)
    BY <1>2, <2>4, ResumeType, LockSideType DEF Die
  <2> QED
    BY <1>2, <2>1, <2>2, <2>3, <2>4 DEF ElectorStep
<1>3. ASSUME NEW w \in Write, Store(w) PROVE /\ lease' \in [exists: BOOLEAN, rv: Nat, spec: LeaseSpec]
                                            /\ late' \subseteq Write
  BY <1>3 DEF Store, Write, K8sTypeOK
<1>4. ASSUME NEW c \in Client, ServerStep(c), UNCHANGED <<now, cancelled, deadline, electorVars>>
      PROVE  TypeOK'
  <2>1. ElectorTypeOK'
    BY <1>4 DEF ElectorTypeOK, electorVars, observedVars
  <2>2. CASE GetAnswered(c)
    <3>1. ZeroRecord \in Record /\ lease.rv \in Nat
      BY DEF ZeroRecord, Record, K8sTypeOK
    <3>2. call' \in [Client -> Call]
      BY <2>2, <3>1, StoredType, AnswerType DEF GetAnswered
    <3> QED
      BY <1>4, <2>1, <2>2, <3>2 DEF GetAnswered, InterfaceTypeOK, K8sTypeOK, k8sVars
  <2>3. CASE WriteAccepted(c)
    <3>1. call[c].rec \in Record /\ lease.rv + 1 \in Nat
      BY DEF InterfaceTypeOK, Call, K8sTypeOK
    <3>2. call' \in [Client -> Call]
      BY <2>3, <3>1, AnswerType DEF WriteAccepted
    <3> QED
      BY <1>3, <1>4, <2>1, <2>3, <3>2, WriteOfType DEF WriteAccepted, InterfaceTypeOK, K8sTypeOK
  <2> QED
    BY <1>4, <2>2, <2>3 DEF ServerStep
<1>5. ASSUME DeleteLease \/ \E w \in late : LateWrite(w),
             UNCHANGED <<now, cancelled, deadline, electorVars>>
      PROVE  TypeOK'
  <2>1. ElectorTypeOK'
    BY <1>5 DEF ElectorTypeOK, electorVars, observedVars
  <2>2. CASE DeleteLease
    <3>1. deletes' \in 0..MaxDeletes
      BY <2>2, K8sAssumption DEF DeleteLease, K8sTypeOK
    <3>2. lease' \in [exists: BOOLEAN, rv: Nat, spec: LeaseSpec] /\ late' \subseteq Write
      BY <2>2 DEF DeleteLease, K8sTypeOK
    <3> QED
      BY <1>5, <2>1, <2>2, <3>1, <3>2 DEF DeleteLease, InterfaceTypeOK, K8sTypeOK
  <2>3. ASSUME NEW w \in late, LateWrite(w) PROVE TypeOK'
    <3>1. w \in Write
      BY DEF K8sTypeOK
    <3> QED
      BY <1>3, <1>5, <2>1, <2>3, <3>1 DEF LateWrite, InterfaceTypeOK, K8sTypeOK
  <2> QED
    BY <1>5, <2>2, <2>3
<1>6. CASE UNCHANGED vars
  BY <1>6 DEF vars, interfaceVars, electorVars, observedVars, k8sVars,
              InterfaceTypeOK, ElectorTypeOK, K8sTypeOK
<1> QED
  BY <1>1, <1>2, <1>4, <1>5, <1>6 DEF Next

\* The initial state is well typed.
LEMMA TypeInit == Init => TypeOK
<1> SUFFICES ASSUME Init PROVE TypeOK
  OBVIOUS
<1>1. K8sTypeOK
  BY K8sAssumption DEF Init, K8sInit, K8sTypeOK, NoSpec, LeaseSpec
<1> QED
  BY <1>1, ElectorTypeInit DEF Init, TypeOK

\* Every variable keeps its type, for every number of clients, every
\* configuration New accepts and every bound on failures.
THEOREM TypeCorrect == Spec => []TypeOK
BY TypeInit, TypeStep, PTL DEF Spec
-----------------------------------------------------------------------------
\* The API server, or whoever deletes the Lease, answers at most one call, and
\* a write with its own record.
LEMMA AnswersOnly ==
    ASSUME (\E c \in Client : ServerStep(c)) \/ DeleteLease \/ \E w \in late : LateWrite(w)
    PROVE  \/ UNCHANGED call
           \/ \E c \in Client : \E st, rec, ver :
                Answer(c, st, rec, ver) /\ (IsWrite(c) => rec = call[c].rec)
<1>1. ASSUME NEW c \in Client, GetAnswered(c)
      PROVE  \E st, rec, ver : Answer(c, st, rec, ver) /\ (IsWrite(c) => rec = call[c].rec)
  BY <1>1 DEF GetAnswered, IsWrite
<1>2. ASSUME NEW c \in Client, WriteAccepted(c)
      PROVE  \E st, rec, ver : Answer(c, st, rec, ver) /\ (IsWrite(c) => rec = call[c].rec)
  BY <1>2 DEF WriteAccepted
<1>3. ASSUME DeleteLease \/ \E w \in late : LateWrite(w) PROVE UNCHANGED call
  BY <1>3 DEF DeleteLease, LateWrite
<1> QED
  BY <1>1, <1>2, <1>3 DEF ServerStep

\* What holds of every elector, and the time limit of its calls.
LocalInv == TypeOK /\ \A c \in Client : ElectorInv(c) /\ TimelyInv(c)

\* Every step preserves it, deletions of the Lease included.
LEMMA LocalStep == LocalInv /\ [Next]_vars => LocalInv'
<1> SUFFICES ASSUME LocalInv, [Next]_vars PROVE LocalInv'
  OBVIOUS
<1>0. /\ TypeOK' /\ InterfaceTypeOK /\ ElectorTypeOK
      /\ \A c \in Client : ElectorInv(c) /\ TimelyInv(c)
  BY TypeStep DEF LocalInv, TypeOK
<1> SUFFICES \A c \in Client : ElectorInv(c)' /\ TimelyInv(c)'
  BY <1>0 DEF LocalInv
<1>1. CASE Tick
  BY <1>0, <1>1, ElectorInvTick, TimelyTick DEF Tick, CallMayWait
<1>2. ASSUME NEW c \in Client, ElectorStep(c) \/ Die(c), UNCHANGED now
      PROVE  \A d \in Client : ElectorInv(d)' /\ TimelyInv(d)'
  <2>1. Proceed(c) \/ Resume(c) \/ Fail(c) \/ Crash(c)
    BY <1>2 DEF ElectorStep, Die
  <2> QED
    BY <1>0, <1>2, <2>1, ElectorInvStep, TimelyStep
<1>3. ASSUME (\E c \in Client : ServerStep(c)) \/ DeleteLease \/ \E w \in late : LateWrite(w),
             UNCHANGED <<now, cancelled, deadline, electorVars>>
      PROVE  \A d \in Client : ElectorInv(d)' /\ TimelyInv(d)'
  <2>1. \/ UNCHANGED call
        \/ \E c \in Client : \E st, rec, ver :
             Answer(c, st, rec, ver) /\ (IsWrite(c) => rec = call[c].rec)
    BY <1>3, AnswersOnly
  <2>2. \A d \in Client : ElectorInv(d)'
    BY <1>0, <1>3, <2>1, ElectorInvAnswer
  <2>3. \A d \in Client : TimelyInv(d)'
    BY <1>0, <1>3, <2>1, TimelyAnswer
  <2> QED
    BY <2>2, <2>3
<1>4. CASE UNCHANGED vars
  <2>1. UNCHANGED <<now, cancelled, deadline, electorVars>> /\ UNCHANGED call
    BY <1>4 DEF vars, interfaceVars
  <2> QED
    BY <1>0, <2>1, ElectorInvAnswer, TimelyAnswer
<1> QED
  BY <1>1, <1>2, <1>3, <1>4 DEF Next

\* It holds in every state, whatever the durations and however often the Lease
\* is deleted.
THEOREM LocalInvariant == Spec => []LocalInv
<1>1. Init => LocalInv
  BY TypeInit, ElectorInvInit DEF Init, LocalInv
<1> QED
  BY <1>1, LocalStep, PTL DEF Spec

\* OnNewLeader was last called with the leader GetLeader returns, whenever
\* acquire or renew is between two iterations and when Run has returned.
THEOREM LeaderIsReported == Spec => []LeaderReported
<1>1. LocalInv => LeaderReported
  BY DEF LocalInv, ElectorInv, ReportInv, LeaderReported
<1> QED
  BY <1>1, LocalInvariant, PTL

\* The leader metric goes off with leadership on every way out of renew but
\* that of a cancellation between two rounds.
THEOREM MetricGoesOff == Spec => []MetricOffUnlessCancelled
<1>1. LocalInv => MetricOffUnlessCancelled
  BY DEF LocalInv, ElectorInv, MetricInv, MetricOffUnlessCancelled
<1> QED
  BY <1>1, LocalInvariant, PTL

\* Check does not fail while OnStartedLeading runs, if LeaseDuration has room
\* for a pause, a round and a release.
THEOREM HealthyLeader == UnobservedTime <= LeaseDuration => (Spec => []HealthyWhileLeading)
<1> SUFFICES ASSUME UnobservedTime <= LeaseDuration PROVE Spec => []HealthyWhileLeading
  OBVIOUS
<1>1. ASSUME LocalInv, NEW c \in Client, leading[c] PROVE ~Unhealthy(c)
  <2>1. /\ now \in Nat /\ observedTime[c] \in Nat /\ wake[c] \in Nat /\ deadline[c] \in Nat
        /\ call[c].at \in Nat
        /\ RetryPeriod \in Nat /\ RenewDeadline \in Nat /\ RequestTimeout \in Nat
        /\ LeaseDuration \in Nat /\ UnobservedTime \in Nat
    BY <1>1, LockAssumption, ElectorAssumption
       DEF LocalInv, TypeOK, InterfaceTypeOK, ElectorTypeOK, Call, UnobservedTime
  <2>2. ElectorInv(c) /\ TimelyInv(c)
    BY <1>1 DEF LocalInv
  <2>3. now <= observedTime[c] + UnobservedTime
    <3>1. CASE pc[c] = "wait"
      BY <1>1, <2>1, <2>2, <3>1 DEF ElectorInv, TimersInv, GiveUpInv, UnobservedTime
    <3>2. CASE InRound(c)
      BY <1>1, <2>1, <2>2, <3>2 DEF ElectorInv, TimersInv, GiveUpInv, UnobservedTime
    <3>3. CASE pc[c] = "release"
      <4>1. now <= call[c].at + RequestTimeout /\ ReleaseOnCancel
        BY <2>2, <3>3 DEF ElectorInv, CallMatches, TimelyInv
      <4> QED
        BY <1>1, <2>1, <2>2, <3>3, <4>1 DEF ElectorInv, GiveUpInv, UnobservedTime
    <3> QED
      BY <1>1, <2>2, <3>1, <3>2, <3>3 DEF ElectorInv, GiveUpInv, InRound
  <2> QED
    BY <2>1, <2>3 DEF Unhealthy
<1>2. LocalInv => HealthyWhileLeading
  BY <1>1 DEF HealthyWhileLeading
<1> QED
  BY <1>2, LocalInvariant, PTL
-----------------------------------------------------------------------------
\* A write that the server could carry out now is justified.
LEMMA WriteJustified ==
    ASSUME SafetyInv, NEW c \in Client,
           IsWrite(c), call[c].st = "pending", IsSent(c), WriteOf(c).ver = Version
    PROVE  /\ Justified(c, WriteOf(c).spec)
           /\ WriteOf(c).client = c
           /\ WriteOf(c).spec.renew <= now
           /\ ~lease.exists => WriteOf(c).spec.trans = 0
<1> USE DEF WriteOf, LeaderElectionRecordToLeaseSpec
<1>1. CallInv(c) /\ HeldInv(c) /\ PendingInv(c) /\ LeaseInv
  BY DEF SafetyInv, ClientInv
<1>2. /\ WriteOf(c).spec.holder = c /\ WriteOf(c).spec.renew <= now
      /\ WriteOf(c).client = c /\ WriteOf(c).spec.trans = call[c].rec.trans
  BY <1>1 DEF CallInv
<1>3. CASE call[c].op = "create"
  BY <1>1, <1>2, <1>3 DEF Version, LeaseInv, PendingInv, Justified
<1>4. CASE call[c].op # "create"
  <2>1. lease.exists /\ held[c] = lease.rv
    BY <1>4 DEF Version, IsSent
  <2>2. CASE call[c].op = "update"
    BY <1>1, <1>2, <2>1, <2>2 DEF PendingInv
  <2>3. CASE call[c].op = "release"
    BY <1>1, <1>2, <2>1, <2>3 DEF PendingInv, HeldInv, Justified
  <2> QED
    BY <1>2, <1>4, <2>1, <2>2, <2>3 DEF IsWrite
<1> QED
  BY <1>3, <1>4

\* The variables of client d are left alone.
SameClient(d) ==
    /\ pc'[d] = pc[d] /\ call'[d] = call[d] /\ held'[d] = held[d]
    /\ observedRecord'[d] = observedRecord[d]
    /\ observedRawRecord'[d] = observedRawRecord[d]
    /\ observedTime'[d] = observedTime[d]

\* A lease that has expired stays expired until it is written.
LEMMA ExpiredMonotone ==
    ASSUME TypeOK, lease' = lease, now' \in Nat, now' >= now, Expired
    PROVE  Expired'
<1> DEFINE e == lease.spec.renew + lease.spec.secs * Second
<1>1. e \in Int
  BY K8sAssumption DEF TypeOK, K8sTypeOK, LeaseSpec
<1>2. now \in Int /\ now >= e
  BY LockAssumption DEF Expired, TypeOK, InterfaceTypeOK
<1>3. Expired' <=> now' >= e
  BY DEF Expired
<1> HIDE DEF e
<1> QED
  BY <1>1, <1>2, <1>3

\* Time passing, or other clients' steps that leave the Lease alone, preserve
\* what is known about a client.
LEMMA ClientFrame ==
    ASSUME SafetyInv, NEW d \in Client, SameClient(d),
           lease' = lease, now' \in Nat, now' >= now
    PROVE  ClientInv(d)'
<1> USE DEF SameClient
<1>0. /\ TypeOK /\ ClientInv(d)
      /\ now \in Nat
  BY LockAssumption DEF SafetyInv, TypeOK, InterfaceTypeOK
<1>t. /\ observedTime[d] \in Nat /\ call[d].rec.renew \in Nat /\ call[d].at \in Nat
  BY <1>0 DEF TypeOK, InterfaceTypeOK, ElectorTypeOK, Call, Record
<1>s. Stored' = Stored /\ WriteOf(d)' = WriteOf(d)
  BY DEF Stored, WriteOf
<1>1. CallInv(d)'
  BY <1>0, <1>t DEF ClientInv, CallInv, IsWrite
<1>2. ObservedInv(d)'
  BY <1>0, <1>t DEF ClientInv, ObservedInv, IsLeader
<1>3. HeldInv(d)'
  BY <1>0 DEF ClientInv, HeldInv, IsLeader
<1>4. GetInv(d)'
  BY <1>0, <1>t, <1>s DEF ClientInv, GetInv
<1>5. ASSUME NEW s, Justified(d, s) PROVE Justified(d, s)'
  BY <1>0, <1>5, ExpiredMonotone DEF Justified
<1>6. PendingInv(d)'
  BY <1>0, <1>s, <1>5 DEF ClientInv, PendingInv, IsLeader
<1>7. AcceptedInv(d)'
  BY <1>0, <1>s DEF ClientInv, AcceptedInv, IsWrite
<1> QED
  BY <1>1, <1>2, <1>3, <1>4, <1>6, <1>7 DEF ClientInv

\* Carrying out a justified write leaves no late write behind and preserves
\* what is known about every client it is not told to.
LEMMA StoreFrame ==
    ASSUME SafetyInv, MaxDeletes = 0, NEW w \in Write, Store(w),
           w.ver = Version, w.spec.renew <= now, Justified(w.client, w.spec),
           ~lease.exists => w.spec.trans = 0,
           now' = now, deletes' = deletes
    PROVE  /\ LeaseInv' /\ LateInv' /\ late' = {}
           /\ lease' = [exists |-> TRUE, rv |-> lease.rv + 1, spec |-> w.spec]
           /\ lease.spec.trans <= lease'.spec.trans
           /\ \A d \in Client : SameClient(d) => ClientInv(d)'
<1>0. /\ TypeOK /\ LeaseInv /\ LateInv /\ w.client \in Client /\ now \in Nat
      /\ lease.rv \in Nat /\ lease.spec.trans \in Nat /\ w.spec \in LeaseSpec
      /\ \A v \in late : v.ver \in Nat
  BY LockAssumption DEF SafetyInv, TypeOK, InterfaceTypeOK, K8sTypeOK, Write, LeaseSpec
<1>1. lease' = [exists |-> TRUE, rv |-> lease.rv + 1, spec |-> w.spec]
  BY DEF Store
<1>2. late' = {}
  <2>1. \A v \in late : v.ver <= lease.rv
    BY <1>0 DEF LateInv, Version, LeaseInv
  <2>2. \A v \in late : ~StillPossible(v, lease.rv + 1, deletes < MaxDeletes)
    BY <1>0, <2>1 DEF StillPossible, LeaseInv
  <2> QED
    BY <2>2 DEF Store
<1>3. w.spec.holder \in Client /\ w.spec.trans \in Nat /\ lease.spec.trans <= w.spec.trans
  BY <1>0 DEF Justified, LeaseInv, LeaseSpec
<1>4. LeaseInv' /\ LateInv'
  BY <1>0, <1>1, <1>2, <1>3 DEF LeaseInv, LateInv
<1>5. ASSUME NEW d \in Client, SameClient(d) PROVE ClientInv(d)'
  <2> USE <1>5 DEF SameClient
  <2>0. /\ ClientInv(d) /\ held[d] \in Nat /\ call[d].ver \in Nat
        /\ observedRawRecord[d].trans \in Nat /\ call[d].rec.trans \in Nat
    BY <1>0 DEF SafetyInv, TypeOK, InterfaceTypeOK, ElectorTypeOK, K8sTypeOK, Call, Record
  <2>1. CallInv(d)'
    BY <2>0 DEF ClientInv, CallInv, IsWrite
  <2>2. ObservedInv(d)'
    BY <1>0, <1>1, <1>3, <2>0 DEF ClientInv, ObservedInv, IsLeader
  <2>3. HeldInv(d)'
    BY <1>0, <1>1, <2>0 DEF ClientInv, ObservedInv, HeldInv
  <2>4. GetInv(d)'
    BY <1>0, <1>1, <1>3, <2>0 DEF ClientInv, GetInv
  <2>5. PendingInv(d)'
    BY <1>0, <1>1, <2>0 DEF ClientInv, ObservedInv, PendingInv, IsLeader
  <2>6. AcceptedInv(d)'
    BY <1>0, <1>1, <1>3, <2>0 DEF ClientInv, AcceptedInv, IsWrite
  <2> QED
    BY <2>1, <2>2, <2>3, <2>4, <2>5, <2>6 DEF ClientInv
<1> QED
  BY <1>1, <1>2, <1>3, <1>4, <1>5

\* Steps of client c that leave the Lease alone and may leave a write behind.
LEMMA OthersFrame ==
    ASSUME SafetyInv, MaxDeletes = 0, NEW c \in Client,
           lease' = lease, now' = now, deletes' = deletes,
           UNCHANGED late \/ Abandoned(c),
           \A d \in Client : d # c => SameClient(d),
           TypeOK', ClientInv(c)'
    PROVE  SafetyInv'
<1>0. now \in Nat /\ TypeOK
  BY LockAssumption DEF SafetyInv, TypeOK, InterfaceTypeOK
<1>1. LeaseInv'
  BY DEF SafetyInv, LeaseInv
<1>2. \A d \in Client : ClientInv(d)'
  BY <1>0, ClientFrame
<1>3. ASSUME NEW v, Justified(v.client, v.spec) PROVE Justified(v.client, v.spec)'
  BY <1>3 DEF Justified, Expired
<1>4. LateInv'
  <2>1. CASE late' = late
    BY <1>3, <2>1 DEF SafetyInv, LateInv, Version
  <2>2. CASE late' = late \cup {WriteOf(c)} /\ IsWrite(c) /\ call[c].st = "pending" /\ IsSent(c)
             /\ StillPossible(WriteOf(c), Version, deletes < MaxDeletes)
    <3>1. WriteOf(c).ver = Version
      BY <2>2 DEF StillPossible, SafetyInv, LeaseInv
    <3>2. \A v \in late' : /\ v.ver = Version /\ v.spec.renew <= now
                           /\ Justified(v.client, v.spec)
                           /\ ~lease.exists => v.spec.trans = 0
      BY <2>2, <3>1, WriteJustified DEF SafetyInv, LateInv
    <3> QED
      BY <1>3, <3>2 DEF LateInv, Version
  <2> QED
    BY <2>1, <2>2 DEF Abandoned
<1> QED
  BY <1>1, <1>2, <1>4 DEF SafetyInv

\* c's step leaves what c has observed and the Lease alone.
LEMMA SameObserved ==
    ASSUME SafetyInv, NEW c \in Client, lease' = lease, now' = now,
           held'[c] = held[c] \/ held'[c] = 0, UNCHANGED observedVars
    PROVE  ObservedInv(c)' /\ HeldInv(c)'
<1>0. TypeOK /\ ClientInv(c) /\ LeaseInv /\ lease.rv \in Nat
  BY DEF SafetyInv, TypeOK, K8sTypeOK
<1> QED
  BY <1>0 DEF observedVars, ClientInv, ObservedInv, HeldInv, LeaseInv, IsLeader

\* Steps of an elector that no call is involved in.
LEMMA SafetyProceed ==
    ASSUME SafetyInv, MaxDeletes = 0, NEW c \in Client, Proceed(c),
           UNCHANGED k8sVars, now' = now, TypeOK'
    PROVE  SafetyInv'
<1>0. TypeOK /\ ClientInv(c) /\ now \in Nat
  BY LockAssumption DEF SafetyInv, TypeOK, InterfaceTypeOK
<1>k. lease' = lease /\ held' = held /\ late' = late /\ deletes' = deletes
  BY DEF k8sVars
<1>d. \A d \in Client : d # c => SameClient(d)
  BY <1>0, <1>k DEF TypeOK, InterfaceTypeOK, ElectorTypeOK, SameClient, Proceed, Run, StartTry,
     StartRound, PollTick, StopAcquiring, StopBetweenRounds, StopPolling, LeaveRenew, Cancel,
     Invoke, observedVars
<1>o. UNCHANGED observedVars
  BY DEF Proceed, Run, StartTry, StartRound, PollTick, StopAcquiring, StopBetweenRounds,
     StopPolling, LeaveRenew, Cancel
<1>q. ObservedInv(c)' /\ HeldInv(c)'
  BY <1>k, <1>o, SameObserved
<1> SUFFICES ClientInv(c)'
  BY <1>d, <1>k, OthersFrame
<1>1. CASE Run(c) \/ StopAcquiring(c)
  <2>1. /\ call'[c].op = "none" /\ call'[c].at <= now
        /\ pc'[c] \in {"off", "wait", "poll", "done"}
    BY <1>0, <1>1 DEF Run, StopAcquiring, ClientInv, CallInv, TypeOK, ElectorTypeOK
  <2>2. CallInv(c)' /\ GetInv(c)' /\ PendingInv(c)' /\ AcceptedInv(c)'
    BY <2>1 DEF CallInv, GetInv, PendingInv, AcceptedInv, IsWrite
  <2> QED
    BY <1>q, <2>2 DEF ClientInv
<1>2. CASE StartTry(c) \/ StartRound(c) \/ PollTick(c)
  <2>1. /\ call'[c].op = "get" /\ call'[c].st = "pending" /\ pc'[c] = "get"
        /\ call'[c].at <= now
    BY <1>0, <1>2 DEF StartTry, StartRound, PollTick, Invoke, TypeOK, ElectorTypeOK, InterfaceTypeOK
  <2>2. CallInv(c)' /\ GetInv(c)' /\ PendingInv(c)' /\ AcceptedInv(c)'
    BY <2>1 DEF CallInv, GetInv, PendingInv, AcceptedInv, IsWrite
  <2> QED
    BY <1>q, <2>2 DEF ClientInv
<1>3. CASE StopBetweenRounds(c) \/ StopPolling(c)
  <2>1. CASE ReleaseOnCancel /\ IsLeader(c)
    <3>1. /\ call'[c].op = "release" /\ call'[c].st = "pending" /\ pc'[c] = "release"
          /\ call'[c].rec = ReleaseRecord(c) /\ call'[c].at <= now
      BY <1>0, <1>3, <2>1 DEF StopBetweenRounds, StopPolling, LeaveRenew, Invoke,
         TypeOK, ElectorTypeOK, InterfaceTypeOK
    <3>2. /\ call'[c].rec.holder = c /\ call'[c].rec.renew <= now
          /\ call'[c].rec.trans = observedRecord[c].trans
      BY <1>0, <2>1, <3>1 DEF ReleaseRecord, IsLeader
    <3>3. CallInv(c)' /\ GetInv(c)' /\ AcceptedInv(c)'
      BY <3>1, <3>2 DEF CallInv, GetInv, AcceptedInv, IsWrite
    <3>4. PendingInv(c)'
      BY <1>o, <2>1, <3>1, <3>2 DEF PendingInv, IsLeader, observedVars
    <3> QED
      BY <1>q, <3>3, <3>4 DEF ClientInv
  <2>2. CASE ~(ReleaseOnCancel /\ IsLeader(c))
    <3>1. call'[c].op = "none" /\ pc'[c] = "done" /\ call'[c].at <= now
      BY <1>0, <1>3, <2>2 DEF StopBetweenRounds, StopPolling, LeaveRenew,
         ClientInv, CallInv, TypeOK, ElectorTypeOK
    <3>2. CallInv(c)' /\ GetInv(c)' /\ PendingInv(c)' /\ AcceptedInv(c)'
      BY <3>1 DEF CallInv, GetInv, PendingInv, AcceptedInv, IsWrite
    <3> QED
      BY <1>q, <3>2 DEF ClientInv
  <2> QED
    BY <2>1, <2>2
<1>4. CASE Cancel(c)
  <2>1. SameClient(c)
    BY <1>4, <1>k DEF Cancel, SameClient, observedVars
  <2> QED
    BY <1>0, <1>k, <2>1, ClientFrame
<1> QED
  BY <1>1, <1>2, <1>3, <1>4 DEF Proceed

\* Steps of an elector when its call has returned without an error.
LEMMA SafetyResume ==
    ASSUME SafetyInv, MaxDeletes = 0, NEW c \in Client, Resume(c), Returns(c),
           now' = now, TypeOK'
    PROVE  SafetyInv'
<1>0. /\ TypeOK /\ ClientInv(c) /\ LeaseInv /\ now \in Nat /\ call[c] \in Call
      /\ lease.rv \in Nat /\ held[c] \in Nat /\ lease.spec.trans \in Nat
      /\ observedTime[c] \in Nat
  BY LockAssumption
     DEF SafetyInv, TypeOK, InterfaceTypeOK, K8sTypeOK, LeaseSpec, ElectorTypeOK
<1>t. /\ call[c].rec.trans \in Nat /\ call[c].rec.renew \in Nat /\ call[c].at \in Nat
      /\ call[c].ver \in Nat /\ call[c].rec.holder \in Client \cup {NoOne}
      /\ observedRawRecord[c] \in Record /\ observedRecord[c] \in Record
  BY <1>0 DEF Call, Record, TypeOK, ElectorTypeOK
<1>k. lease' = lease /\ late' = late /\ deletes' = deletes
  BY DEF Returns
<1>h. held'[c] = IF call[c].st = "ok" THEN call[c].ver ELSE held[c]
  BY <1>0 DEF Returns, TypeOK, K8sTypeOK
<1>d. \A d \in Client : d # c => SameClient(d)
  <2>1. \A d \in Client : d # c => pc'[d] = pc[d] /\ call'[d] = call[d] /\ held'[d] = held[d]
    BY <1>0 DEF TypeOK, InterfaceTypeOK, ElectorTypeOK, K8sTypeOK, Returns, Resume,
       CreateRecord, LeaseHeld, TakeOrRenew, SetSucceeds, ReleaseSucceeds, ReleaseEnds,
       TryFails, Invoke, Return
  <2>2. \A d \in Client : d # c =>
          /\ observedRecord'[d] = observedRecord[d] /\ observedTime'[d] = observedTime[d]
          /\ observedRawRecord'[d] = observedRawRecord[d]
    BY <1>0 DEF TypeOK, ElectorTypeOK, Resume, CreateRecord, LeaseHeld, TakeOrRenew,
       SetSucceeds, ReleaseSucceeds, Observe, SetObservedRecord, observedVars
  <2> QED
    BY <2>1, <2>2 DEF SameClient
<1> SUFFICES ClientInv(c)'
  BY <1>d, <1>k, OthersFrame
\* What c has observed when the Get has returned.
<1>g. ASSUME pc[c] = "get", call[c].st = "ok", Observe(c, call[c].rec)
      PROVE  /\ ObservedInv(c)' /\ HeldInv(c)'
             /\ observedRawRecord'[c] = call[c].rec
             /\ observedTime'[c] >= call[c].rec.renew
  <2>1. /\ lease.exists /\ call[c].ver <= lease.rv /\ call[c].rec.holder \in Client
        /\ call[c].rec.trans <= lease.spec.trans /\ call[c].rec.renew <= now
        /\ call[c].ver = lease.rv => call[c].rec = Stored
    BY <1>0, <1>g DEF ClientInv, CallInv, GetInv
  <2>2. Stored.holder = lease.spec.holder /\ Stored.trans = lease.spec.trans
    BY DEF Stored, LeaseSpecToLeaderElectionRecord
  <2>3. held'[c] = call[c].ver
    BY <1>g, <1>h
  <2>4. CASE observedRawRecord[c] = call[c].rec
    <3>1. UNCHANGED observedVars
      BY <1>g, <2>4 DEF Observe
    <3>2. ObservedInv(c)'
      BY <1>0, <1>k, <2>1, <2>3, <3>1 DEF ClientInv, ObservedInv, IsLeader, observedVars
    <3>3. HeldInv(c)'
      BY <1>0, <1>k, <1>t, <2>1, <2>2, <2>3, <2>4, <3>1, LockAssumption
         DEF ClientInv, ObservedInv, HeldInv, IsLeader, observedVars
    <3> QED
      BY <1>0, <2>4, <3>1, <3>2, <3>3 DEF ClientInv, ObservedInv, observedVars
  <2>5. CASE observedRawRecord[c] # call[c].rec
    <3>1. /\ observedRecord'[c] = call[c].rec /\ observedRawRecord'[c] = call[c].rec
          /\ observedTime'[c] = now
      BY <1>0, <1>g, <2>5 DEF Observe, SetObservedRecord, TypeOK, ElectorTypeOK
    <3>2. ObservedInv(c)'
      BY <1>0, <1>k, <2>1, <2>3, <3>1 DEF ObservedInv, IsLeader
    <3>3. HeldInv(c)'
      BY <1>k, <2>1, <2>2, <2>3, <3>1 DEF HeldInv, IsLeader
    <3> QED
      BY <2>1, <3>1, <3>2, <3>3
  <2> QED
    BY <2>4, <2>5
<1>1. CASE CreateRecord(c)
  <2>1. /\ call'[c].op = "create" /\ call'[c].st = "pending" /\ pc'[c] = "set"
        /\ call'[c].rec = NewRecord(c, call[c].at, 0) /\ call'[c].at <= now
        /\ held'[c] = held[c]
    BY <1>0, <1>1, <1>h DEF CreateRecord, Invoke, TypeOK, ElectorTypeOK, InterfaceTypeOK
  <2>2. ObservedInv(c)' /\ HeldInv(c)'
    BY <1>1, <1>k, <2>1, SameObserved DEF CreateRecord
  <2>3. call'[c].rec.holder = c /\ call'[c].rec.renew <= now /\ call'[c].rec.trans = 0
    BY <1>0, <2>1 DEF NewRecord, ClientInv, CallInv
  <2>4. CallInv(c)' /\ GetInv(c)' /\ PendingInv(c)' /\ AcceptedInv(c)'
    BY <2>1, <2>3 DEF CallInv, GetInv, PendingInv, AcceptedInv, IsWrite
  <2> QED
    BY <2>2, <2>4 DEF ClientInv
<1>2. CASE LeaseHeld(c)
  <2>1. call'[c].op = "none" /\ call'[c].at <= now /\ pc'[c] \in {"wait", "poll"}
    BY <1>0, <1>2 DEF LeaseHeld, TryFails, Return, Idle, TypeOK, ElectorTypeOK, InterfaceTypeOK
  <2>2. CallInv(c)' /\ GetInv(c)' /\ PendingInv(c)' /\ AcceptedInv(c)'
    BY <2>1 DEF CallInv, GetInv, PendingInv, AcceptedInv, IsWrite
  <2> QED
    BY <1>2, <1>g, <2>2 DEF LeaseHeld, ClientInv
<1>3. CASE TakeOrRenew(c)
  <2> DEFINE n == IF observedRecord'[c].holder = c
                  THEN call[c].rec.trans ELSE call[c].rec.trans + 1
  <2>1. /\ call'[c].op = "update" /\ call'[c].st = "pending" /\ pc'[c] = "set"
        /\ call'[c].rec = NewRecord(c, call[c].at, n) /\ call'[c].at <= now
    BY <1>0, <1>3 DEF TakeOrRenew, Invoke, TypeOK, ElectorTypeOK, InterfaceTypeOK
  <2>2. /\ ObservedInv(c)' /\ HeldInv(c)' /\ observedRawRecord'[c] = call[c].rec
        /\ observedTime'[c] >= call[c].rec.renew
    BY <1>3, <1>g DEF TakeOrRenew
  <2>3. /\ lease.exists /\ call[c].rec.holder \in Client /\ call[c].at <= now
        /\ call[c].ver = lease.rv => call[c].rec = Stored
    BY <1>0, <1>3 DEF TakeOrRenew, ClientInv, CallInv, GetInv
  <2>4. /\ call'[c].rec.holder = c /\ call'[c].rec.renew <= now /\ call'[c].rec.trans = n
    BY <2>1, <2>3 DEF NewRecord
  <2>5. CallInv(c)' /\ GetInv(c)' /\ AcceptedInv(c)'
    BY <2>1, <2>4 DEF CallInv, GetInv, AcceptedInv, IsWrite
  <2>6. ASSUME held'[c] = lease.rv
        PROVE  observedRawRecord'[c] = Stored' /\ Justified(c, WriteOf(c).spec)'
    <3>1. call[c].rec = Stored /\ Stored' = Stored
      BY <1>3, <1>h, <1>k, <2>3, <2>6 DEF TakeOrRenew, Stored
    <3>2. /\ call[c].rec.holder = lease.spec.holder /\ call[c].rec.trans = lease.spec.trans
          /\ call[c].rec.renew = lease.spec.renew
          /\ call[c].rec.dur = lease.spec.secs * Second
      BY <3>1 DEF Stored, LeaseSpecToLeaderElectionRecord
    <3>3. WriteOf(c)'.spec.holder = c /\ WriteOf(c)'.spec.trans = n
      BY <2>4 DEF WriteOf, LeaderElectionRecordToLeaseSpec
    <3>4. CASE observedRecord'[c].holder = c
      <4>1. lease.spec.holder = c /\ n = lease.spec.trans
        BY <1>k, <2>2, <2>6, <3>2, <3>4 DEF HeldInv, IsLeader
      <4> QED
        BY <1>k, <2>2, <3>1, <3>3, <4>1 DEF Justified
    <3>5. CASE observedRecord'[c].holder # c
      <4>1. observedTime'[c] + call[c].rec.dur <= call[c].at
        <5>1. observedTime'[c] \in Nat /\ call[c].rec.dur \in Nat
          BY <1>0 DEF TypeOK, ElectorTypeOK, Call, Record
        <5>2. ~HeldByOther(c, call[c].rec, call[c].at)
          BY <1>3 DEF TakeOrRenew
        <5>3. call[c].rec.holder # NoOne
          BY <2>3, LockAssumption
        <5> QED
          BY <1>t, <3>5, <5>1, <5>2, <5>3 DEF HeldByOther
      <4>2. Expired'
        <5>1. observedTime'[c] \in Nat /\ call[c].rec.dur \in Nat
          BY <1>0 DEF TypeOK, ElectorTypeOK, Call, Record
        <5>2. now >= call[c].rec.renew + call[c].rec.dur
          BY <1>0, <1>t, <2>2, <2>3, <4>1, <5>1
        <5> QED
          BY <1>k, <3>2, <5>2 DEF Expired
      <4>3. lease.spec.holder # c
        BY <2>2, <3>2, <3>5 DEF ObservedInv, IsLeader
      <4> QED
        BY <1>k, <2>2, <3>1, <3>2, <3>3, <3>5, <4>2, <4>3 DEF Justified
    <3> QED
      BY <3>4, <3>5
  <2>7. PendingInv(c)'
    BY <1>k, <2>1, <2>6 DEF PendingInv
  <2> QED
    BY <2>2, <2>5, <2>7 DEF ClientInv
\* What c has observed when a write has returned.
<1>w. ASSUME IsWrite(c), call[c].st = "ok", SetObservedRecord(c, call[c].rec),
             UNCHANGED observedRawRecord
      PROVE  ObservedInv(c)' /\ HeldInv(c)'
  <2>1. /\ observedRecord'[c] = call[c].rec /\ observedTime'[c] = now
        /\ observedRawRecord'[c] = observedRawRecord[c] /\ held'[c] = call[c].ver
    BY <1>0, <1>h, <1>w DEF SetObservedRecord, TypeOK, ElectorTypeOK
  <2>2. /\ lease.exists /\ call[c].ver <= lease.rv /\ call[c].rec.holder = c
        /\ call[c].ver = lease.rv => lease.spec = WriteOf(c).spec
    BY <1>0, <1>w DEF ClientInv, CallInv, AcceptedInv
  <2>3. HeldInv(c)'
    BY <1>k, <2>1, <2>2 DEF HeldInv, WriteOf, LeaderElectionRecordToLeaseSpec
  <2>4. \/ /\ observedRawRecord[c].holder = c
           /\ observedRawRecord[c].trans = call[c].rec.trans
        \/ observedRawRecord[c].holder = NoOne
        \/ observedRawRecord[c].trans < lease.spec.trans
    BY <1>0, <1>w DEF ClientInv, IsWrite, AcceptedInv, PendingInv, ObservedInv
  <2>5. observedRawRecord[c].renew <= now
    BY <1>0, <1>t DEF ClientInv, ObservedInv, Record
  <2>6. ObservedInv(c)'
    BY <1>0, <1>k, <2>1, <2>2, <2>4, <2>5 DEF ClientInv, ObservedInv, IsLeader
  <2> QED
    BY <2>3, <2>6
<1>4. CASE SetSucceeds(c)
  <2>1. call'[c].op = "none" /\ call'[c].at <= now /\ pc'[c] = "wait"
    BY <1>0, <1>4 DEF SetSucceeds, Return, Idle, TypeOK, ElectorTypeOK, InterfaceTypeOK
  <2>2. CallInv(c)' /\ GetInv(c)' /\ PendingInv(c)' /\ AcceptedInv(c)'
    BY <2>1 DEF CallInv, GetInv, PendingInv, AcceptedInv, IsWrite
  <2>3. ObservedInv(c)' /\ HeldInv(c)'
    BY <1>0, <1>4, <1>w DEF SetSucceeds, IsWrite, ClientInv, CallInv
  <2> QED
    BY <2>2, <2>3 DEF ClientInv
<1>5. CASE ReleaseSucceeds(c)
  <2>1. call'[c].op = "none" /\ call'[c].at <= now /\ pc'[c] = "done"
    BY <1>0, <1>5 DEF ReleaseSucceeds, ReleaseEnds, Return, Idle, TypeOK, ElectorTypeOK, InterfaceTypeOK
  <2>2. CallInv(c)' /\ GetInv(c)' /\ PendingInv(c)' /\ AcceptedInv(c)'
    BY <2>1 DEF CallInv, GetInv, PendingInv, AcceptedInv, IsWrite
  <2>3. ObservedInv(c)' /\ HeldInv(c)'
    BY <1>0, <1>5, <1>w DEF ReleaseSucceeds, ReleaseEnds, IsWrite, ClientInv, CallInv
  <2> QED
    BY <2>2, <2>3 DEF ClientInv
<1> QED
  BY <1>1, <1>2, <1>3, <1>4, <1>5 DEF Resume

\* A call that failed leaves c with what it knew, or without ll.lease.
LEMMA SafetyFail ==
    ASSUME SafetyInv, MaxDeletes = 0, NEW c \in Client, Fail(c), Fails(c),
           now' = now, TypeOK'
    PROVE  SafetyInv'
<1>0. TypeOK /\ ClientInv(c) /\ now \in Nat
  BY LockAssumption DEF SafetyInv, TypeOK, InterfaceTypeOK
<1>k. lease' = lease /\ deletes' = deletes /\ (UNCHANGED late \/ Abandoned(c))
  BY DEF Fails, Refused, ContextEnds, Lost
<1>h. held'[c] = held[c] \/ held'[c] = 0
  BY <1>0 DEF Fails, Refused, ContextEnds, Lost, LeaseAfterFailure, TypeOK, K8sTypeOK
<1>d. \A d \in Client : d # c => SameClient(d)
  BY <1>0 DEF SameClient, TypeOK, InterfaceTypeOK, ElectorTypeOK, K8sTypeOK, Fails, Refused,
     ContextEnds, Lost, LeaseAfterFailure, Fail, CallFails, ReleaseFails, ReleaseEnds, TryFails,
     Return, observedVars
<1>o. UNCHANGED observedVars
  BY DEF Fail, CallFails, ReleaseFails
<1>1. call'[c].op = "none" /\ call'[c].at <= now /\ pc'[c] \in {"wait", "poll", "done"}
  BY <1>0 DEF Fail, CallFails, ReleaseFails, ReleaseEnds, TryFails, Return, Idle,
     TypeOK, ElectorTypeOK, InterfaceTypeOK
<1>2. CallInv(c)' /\ GetInv(c)' /\ PendingInv(c)' /\ AcceptedInv(c)'
  BY <1>1 DEF CallInv, GetInv, PendingInv, AcceptedInv, IsWrite
<1>3. ObservedInv(c)' /\ HeldInv(c)'
  BY <1>h, <1>k, <1>o, SameObserved
<1> QED
  BY <1>2, <1>3, <1>d, <1>k, OthersFrame DEF ClientInv

\* A process that dies knows nothing, and may leave a justified write behind.
LEMMA SafetyDie ==
    ASSUME SafetyInv, MaxDeletes = 0, NEW c \in Client, Die(c), now' = now, TypeOK'
    PROVE  SafetyInv'
<1> USE DEF Die
<1>0. /\ TypeOK /\ LeaseInv /\ now \in Nat /\ lease.rv \in Nat /\ lease.spec.trans \in Nat
  BY LockAssumption DEF SafetyInv, TypeOK, InterfaceTypeOK, K8sTypeOK, LeaseSpec
<1>k. lease' = lease /\ deletes' = deletes /\ Abandoned(c)
  BY DEF ClientGone
<1>d. \A d \in Client : d # c => SameClient(d)
  BY <1>0 DEF SameClient, TypeOK, InterfaceTypeOK, ElectorTypeOK, K8sTypeOK, ClientGone, Crash
<1>1. /\ call'[c].op = "none" /\ call'[c].at <= now /\ pc'[c] = "off"
      /\ observedRecord'[c].holder = NoOne
      /\ observedRawRecord'[c].holder = NoOne /\ observedRawRecord'[c].trans = 0
      /\ observedRawRecord'[c].renew = 0 /\ observedTime'[c] = 0
  BY <1>0 DEF Crash, Idle, ZeroRecord, TypeOK, ElectorTypeOK, InterfaceTypeOK
<1>2. held'[c] = 0
  BY <1>0 DEF ClientGone, TypeOK, K8sTypeOK
<1>3. ~IsLeader(c)'
  BY <1>1, LockAssumption DEF IsLeader
<1>4. CallInv(c)' /\ GetInv(c)' /\ PendingInv(c)' /\ AcceptedInv(c)'
  BY <1>1 DEF CallInv, GetInv, PendingInv, AcceptedInv, IsWrite
<1>5. ObservedInv(c)' /\ HeldInv(c)'
  BY <1>0, <1>k, <1>1, <1>2, <1>3, LockAssumption DEF ObservedInv, HeldInv
<1> QED
  BY <1>4, <1>5, <1>d, <1>k, OthersFrame DEF ClientInv

\* The server answers a Get with the Lease it holds, or carries out a write
\* and tells its caller.
LEMMA SafetyServer ==
    ASSUME SafetyInv, MaxDeletes = 0, NEW c \in Client, ServerStep(c),
           UNCHANGED <<now, cancelled, deadline, electorVars>>, TypeOK'
    PROVE  SafetyInv'
<1>0. /\ TypeOK /\ LeaseInv /\ LateInv /\ ClientInv(c) /\ now \in Nat
      /\ lease.rv \in Nat /\ lease.spec.trans \in Nat /\ lease.spec.renew \in Nat
      /\ call[c] \in Call
  BY LockAssumption DEF SafetyInv, TypeOK, InterfaceTypeOK, K8sTypeOK, LeaseSpec
<1>u. /\ now' = now /\ pc' = pc /\ UNCHANGED observedVars
  BY DEF electorVars
<1>d. /\ \A d \in Client : d # c => call'[d] = call[d]
      /\ call'[c].op = call[c].op /\ call'[c].at = call[c].at
      /\ held' = held /\ deletes' = deletes
  BY <1>0 DEF ServerStep, GetAnswered, WriteAccepted, Answer, k8sVars,
     TypeOK, InterfaceTypeOK, Call
<1>s. \A d \in Client : d # c => SameClient(d)
  BY <1>u, <1>d DEF SameClient, observedVars
<1>1. CASE GetAnswered(c)
  <2>1. /\ lease' = lease /\ late' = late /\ call[c].op = "get"
        /\ \/ /\ lease.exists /\ call'[c].st = "ok" /\ call'[c].rec = Stored
              /\ call'[c].ver = lease.rv
           \/ call'[c].st = "notexist"
    BY <1>0, <1>1 DEF GetAnswered, Answer, k8sVars, TypeOK, InterfaceTypeOK, Call
  <2>2. ObservedInv(c)' /\ HeldInv(c)'
    BY <1>u, <1>d, <2>1, SameObserved
  <2>3. CallInv(c)' /\ PendingInv(c)' /\ AcceptedInv(c)'
    BY <1>0, <1>u, <1>d, <2>1 DEF ClientInv, CallInv, PendingInv, AcceptedInv, IsWrite
  <2>4. GetInv(c)'
    <3>1. /\ Stored.holder = lease.spec.holder /\ Stored.trans = lease.spec.trans
          /\ Stored.renew = lease.spec.renew /\ Stored' = Stored
      BY <2>1 DEF Stored, LeaseSpecToLeaderElectionRecord
    <3> QED
      BY <1>0, <1>u, <2>1, <3>1 DEF GetInv, LeaseInv
  <2> QED
    BY <1>d, <1>s, <1>u, <2>1, <2>2, <2>3, <2>4, OthersFrame DEF ClientInv
<1>2. CASE WriteAccepted(c)
  <2>1. /\ IsWrite(c) /\ call[c].st = "pending" /\ IsSent(c) /\ WriteOf(c).ver = Version
        /\ Store(WriteOf(c)) /\ call'[c].st = "ok" /\ call'[c].rec = call[c].rec
        /\ call'[c].ver = lease.rv + 1
    BY <1>0, <1>2 DEF WriteAccepted, Answer, TypeOK, InterfaceTypeOK, Call
  <2>2. /\ Justified(c, WriteOf(c).spec) /\ WriteOf(c).client = c
        /\ WriteOf(c).spec.renew <= now
        /\ ~lease.exists => WriteOf(c).spec.trans = 0
    BY <2>1, WriteJustified
  <2>3. WriteOf(c) \in Write
    BY <1>0, WriteOfType
  <2>4. /\ LeaseInv' /\ LateInv'
        /\ lease' = [exists |-> TRUE, rv |-> lease.rv + 1, spec |-> WriteOf(c).spec]
        /\ lease.spec.trans <= lease'.spec.trans
        /\ \A d \in Client : d # c => ClientInv(d)'
    BY <1>s, <1>u, <1>d, <2>1, <2>2, <2>3, StoreFrame
  <2>5. /\ WriteOf(c)' = WriteOf(c) /\ lease'.spec = WriteOf(c).spec /\ lease'.exists
        /\ lease'.rv = lease.rv + 1 /\ lease'.spec.trans = call[c].rec.trans
    BY <1>d, <2>1, <2>4 DEF WriteOf, LeaderElectionRecordToLeaseSpec
  <2>6. /\ held[c] \in Nat /\ observedRawRecord[c].trans \in Nat
        /\ lease'.spec.trans \in Nat /\ call[c].rec.trans \in Nat
    BY <1>0, <2>5 DEF TypeOK, ElectorTypeOK, K8sTypeOK, Record, Call
  <2>7. ObservedInv(c)' /\ HeldInv(c)'
    BY <1>0, <1>u, <1>d, <2>4, <2>5, <2>6
       DEF ClientInv, ObservedInv, HeldInv, IsLeader, observedVars
  <2>8. CallInv(c)' /\ GetInv(c)' /\ PendingInv(c)'
    BY <1>0, <1>u, <1>d, <2>1
       DEF ClientInv, CallInv, GetInv, PendingInv, IsWrite, IsLeader, observedVars
  <2>9. AcceptedInv(c)'
    <3>1. call[c].op = "create" => observedRawRecord[c].holder = NoOne
      BY <1>0, <2>1 DEF ClientInv, ObservedInv, WriteOf, Version, LeaseInv
    <3>2. ASSUME call[c].op = "update"
          PROVE  \/ /\ observedRawRecord[c].holder = c
                    /\ observedRawRecord[c].trans = call[c].rec.trans
                 \/ observedRawRecord[c].trans < call[c].rec.trans
      <4>1. lease.exists /\ held[c] = lease.rv
        BY <2>1, <3>2 DEF WriteOf, Version, IsSent
      <4>2. observedRawRecord[c] = Stored
        BY <1>0, <2>1, <3>2, <4>1 DEF ClientInv, PendingInv
      <4>3. /\ observedRawRecord[c].holder = lease.spec.holder
            /\ observedRawRecord[c].trans = lease.spec.trans
        BY <4>2 DEF Stored, LeaseSpecToLeaderElectionRecord
      <4> QED
        BY <1>0, <2>2, <2>5, <2>4, <2>6, <4>1, <4>3 DEF Justified
    <3> QED
      BY <1>0, <1>u, <1>d, <2>1, <2>5, <3>1, <3>2 DEF AcceptedInv, IsWrite, observedVars
  <2> QED
    BY <2>4, <2>7, <2>8, <2>9 DEF SafetyInv, ClientInv
<1> QED
  BY <1>1, <1>2 DEF ServerStep

\* A write whose caller has gone is one of those LateInv vouches for.
LEMMA SafetyLateWrite ==
    ASSUME SafetyInv, MaxDeletes = 0, NEW w \in late, LateWrite(w),
           UNCHANGED <<now, cancelled, deadline, electorVars>>, TypeOK'
    PROVE  SafetyInv'
<1>1. /\ w \in Write /\ w.ver = Version /\ w.spec.renew <= now
      /\ Justified(w.client, w.spec) /\ (~lease.exists => w.spec.trans = 0)
  BY DEF SafetyInv, LateInv, TypeOK, K8sTypeOK
<1>2. \A d \in Client : SameClient(d)
  BY DEF LateWrite, SameClient, electorVars, observedVars
<1>3. LeaseInv' /\ LateInv' /\ \A d \in Client : ClientInv(d)'
  BY <1>1, <1>2, StoreFrame DEF LateWrite
<1> QED
  BY <1>3 DEF SafetyInv

\* Time passes.
LEMMA SafetyTick ==
    ASSUME SafetyInv, Tick, TypeOK'
    PROVE  SafetyInv'
<1>0. TypeOK /\ now \in Nat /\ now' = now + 1
  BY LockAssumption DEF SafetyInv, TypeOK, InterfaceTypeOK, Tick
<1>1. lease' = lease /\ late' = late /\ deletes' = deletes /\ \A d \in Client : SameClient(d)
  BY DEF Tick, k8sVars, electorVars, observedVars, SameClient
<1>2. \A d \in Client : ClientInv(d)'
  BY <1>0, <1>1, ClientFrame
<1>3. LeaseInv'
  BY <1>0, <1>1 DEF SafetyInv, LeaseInv, TypeOK, K8sTypeOK, LeaseSpec
<1>4. \A w \in late : w.spec.renew \in Nat
  BY <1>0 DEF TypeOK, K8sTypeOK, Write, LeaseSpec
<1>5. ASSUME NEW w, Justified(w.client, w.spec) PROVE Justified(w.client, w.spec)'
  BY <1>0, <1>1, <1>5, ExpiredMonotone DEF Justified
<1>6. LateInv'
  BY <1>0, <1>1, <1>4, <1>5 DEF SafetyInv, LateInv, Version
<1> QED
  BY <1>2, <1>3, <1>6 DEF SafetyInv

\* Every step preserves the invariant, as long as no one deletes the Lease.
LEMMA SafetyStep ==
    ASSUME SafetyInv, MaxDeletes = 0, [Next]_vars
    PROVE  SafetyInv'
<1>0. TypeOK'
  BY TypeStep DEF SafetyInv
<1>1. CASE Tick
  BY <1>0, <1>1, SafetyTick
<1>2. CASE UNCHANGED vars
  BY <1>2 DEF vars, interfaceVars, electorVars, observedVars, k8sVars, SafetyInv, TypeOK,
     InterfaceTypeOK, ElectorTypeOK, K8sTypeOK, LeaseInv, LateInv, Version, Justified, Expired,
     ClientInv, CallInv, IsWrite, ObservedInv, IsLeader, HeldInv, GetInv, Stored, PendingInv,
     WriteOf, AcceptedInv
<1>3. ASSUME NEW c \in Client, ElectorStep(c) \/ Die(c), UNCHANGED now PROVE SafetyInv'
  BY <1>0, <1>3, SafetyProceed, SafetyResume, SafetyFail, SafetyDie DEF ElectorStep
<1>4. ASSUME NEW c \in Client, ServerStep(c),
             UNCHANGED <<now, cancelled, deadline, electorVars>>
      PROVE  SafetyInv'
  BY <1>0, <1>4, SafetyServer
<1>5. ~DeleteLease
  BY DEF DeleteLease, SafetyInv, LeaseInv
<1>6. ASSUME NEW w \in late, LateWrite(w),
             UNCHANGED <<now, cancelled, deadline, electorVars>>
      PROVE  SafetyInv'
  BY <1>0, <1>6, SafetyLateWrite
<1> QED
  BY <1>1, <1>2, <1>3, <1>4, <1>5, <1>6 DEF Next

\* Initially no client knows anything and there is no Lease.
LEMMA SafetyInit ==
    ASSUME Init PROVE SafetyInv
<1>1. TypeOK
  BY TypeInit
<1>2. LeaseInv /\ LateInv
  BY <1>1 DEF Init, InterfaceInit, K8sInit, LeaseInv, LateInv, NoSpec
<1>3. ASSUME NEW c \in Client PROVE ClientInv(c)
  BY LockAssumption DEF Init, InterfaceInit, ElectorInit, K8sInit, NoSpec, Idle, ZeroRecord,
     ClientInv, CallInv, IsWrite, ObservedInv, IsLeader, HeldInv, GetInv, PendingInv, AcceptedInv
<1> QED
  BY <1>1, <1>2, <1>3 DEF SafetyInv

\* As long as no one deletes the Lease, what a client has observed, the version
\* it names in its writes and the writes it has left behind are consistent with
\* the stored Lease.
THEOREM SafetyInvariant == MaxDeletes = 0 => (Spec => []SafetyInv)
<1> SUFFICES ASSUME MaxDeletes = 0 PROVE Spec => []SafetyInv
  OBVIOUS
<1>1. Init => SafetyInv
  BY SafetyInit
<1>2. SafetyInv /\ [Next]_vars => SafetyInv'
  BY SafetyStep
<1> QED
  BY <1>1, <1>2, PTL DEF Spec

\* Only a justified write changes the Lease.
LEMMA LeaseStep ==
    ASSUME SafetyInv, MaxDeletes = 0, [Next]_vars, lease' # lease
    PROVE  \E c \in Client : Justified(c, lease'.spec)
<1>1. ASSUME NEW c \in Client, ServerStep(c) PROVE Justified(c, lease'.spec)
  <2>1. WriteAccepted(c)
    BY <1>1 DEF ServerStep, GetAnswered, k8sVars
  <2> QED
    BY <2>1, WriteJustified DEF WriteAccepted, Store
<1>2. ASSUME NEW w \in late, LateWrite(w)
      PROVE  w.client \in Client /\ Justified(w.client, lease'.spec)
  BY <1>2 DEF LateWrite, Store, SafetyInv, LateInv, TypeOK, K8sTypeOK, Write
<1>3. \A c \in Client : ~ElectorStep(c) /\ ~Die(c)
  BY DEF ElectorStep, Die, ClientGone, Returns, Fails, Refused, ContextEnds, Lost, k8sVars
<1>4. ~DeleteLease
  BY DEF DeleteLease, SafetyInv, LeaseInv
<1>5. ~Tick /\ ~UNCHANGED vars
  BY DEF Tick, vars, k8sVars
<1> QED
  BY <1>1, <1>2, <1>3, <1>4, <1>5 DEF Next

\* No Update, release or late write gives the Lease to another holder before
\* the duration stored in it has passed since its RenewTime.
THEOREM TakeoverSafe == MaxDeletes = 0 => (Spec => TakeoverWaitsLease)
<1> SUFFICES ASSUME MaxDeletes = 0 PROVE Spec => TakeoverWaitsLease
  OBVIOUS
<1>1. Spec => []SafetyInv
  BY SafetyInvariant
<1>2. SafetyInv /\ [Next]_vars =>
        [lease.exists /\ lease'.exists /\ lease'.spec.holder # lease.spec.holder => Expired]_vars
  BY LeaseStep DEF Justified
<1> QED
  BY <1>1, <1>2, PTL DEF Spec, TakeoverWaitsLease

\* Every write of the Lease counts a change of holder in LeaderTransitions, and
\* counts nothing else.
THEOREM TransitionsSafe == MaxDeletes = 0 => (Spec => TransitionsCountHolders)
<1> SUFFICES ASSUME MaxDeletes = 0 PROVE Spec => TransitionsCountHolders
  OBVIOUS
<1>1. Spec => []SafetyInv
  BY SafetyInvariant
<1>2. SafetyInv /\ [Next]_vars =>
        [lease.exists /\ lease'.exists =>
           lease'.spec.trans = IF lease'.spec.holder = lease.spec.holder
                               THEN lease.spec.trans ELSE lease.spec.trans + 1]_vars
  BY LeaseStep DEF Justified
<1> QED
  BY <1>1, <1>2, PTL DEF Spec, TransitionsCountHolders
=============================================================================
