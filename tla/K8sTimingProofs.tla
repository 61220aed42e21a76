------------------------- MODULE K8sTimingProofs --------------------------
(***************************************************************************)
(* TimingInv is an invariant of K8sElection when no one deletes the Lease  *)
(* and the durations satisfy SafeTiming: at most one client leads, and it  *)
(* holds the Lease, for any number of clients and of failures.             *)
(***************************************************************************)
EXTENDS K8sSafetyProofs

\* The stored durations and the time a leader may act, as plain numbers.
LEMMA TimingNumbers ==
    /\ LeadTime \in Nat /\ RequestTimeout \in Nat /\ RetryPeriod \in Nat /\ RenewDeadline \in Nat
    /\ ToSeconds(LeaseDuration) * Second \in Nat
    /\ ToSeconds(1) * Second \in Nat
<1>1. ToSeconds(LeaseDuration) \in Nat /\ ToSeconds(1) \in Nat
  BY ToSecondsType, ElectorAssumption
<1>2. \A s \in Nat : s * Second \in Nat
  BY K8sAssumption, LockAssumption
<1> QED
  BY <1>1, <1>2, K8sAssumption, LockAssumption, ElectorAssumption DEF LeadTime

\* The types the timing argument needs.
LEMMA TimingTypes ==
    ASSUME TypeOK, NEW c \in Client
    PROVE  /\ now \in Nat /\ wake[c] \in Nat /\ deadline[c] \in Nat
           /\ lease.spec.renew \in Nat /\ lease.spec.secs \in Nat
           /\ call[c].at \in Nat /\ call[c].rec.renew \in Nat /\ call[c].rec.dur \in Nat
           /\ \A w \in late : w.spec.renew \in Nat
BY LockAssumption
   DEF TypeOK, InterfaceTypeOK, ElectorTypeOK, K8sTypeOK, Call, Record, Write, LeaseSpec

\* c leads, or is about to learn that it does.
Secure(c) == leading[c] \/ (pc[c] = "set" /\ call[c].st = "ok")

\* The lease of such a client is its own and has not expired.
LEMMA SecureLease ==
    ASSUME TimingInv, SafeTiming, NEW c \in Client, Secure(c)
    PROVE  lease.exists /\ lease.spec.holder = c /\ ~Expired
<1>0. /\ TypeOK /\ ClientInv(c) /\ ClockInv(c) /\ AckInv(c) /\ LeadInv(c)
  BY DEF TimingInv, SafetyInv
<1>t. /\ now \in Nat /\ wake[c] \in Nat /\ deadline[c] \in Nat
      /\ lease.spec.renew \in Nat /\ call[c].at \in Nat /\ call[c].rec.renew \in Nat
  BY <1>0, TimingTypes
<1>1. /\ ToSeconds(LeaseDuration) * Second > LeadTime
      /\ ReleaseOnCancel => ToSeconds(1) * Second > RequestTimeout
  BY DEF SafeTiming, StoredDuration
<1>2. ASSUME lease.spec.secs = ToSeconds(LeaseDuration), now <= lease.spec.renew + LeadTime
      PROVE  ~Expired
  <2> DEFINE D == ToSeconds(LeaseDuration) * Second
  <2>1. D \in Nat /\ LeadTime \in Nat /\ D > LeadTime /\ lease.spec.secs * Second = D
    BY <1>1, <1>2, TimingNumbers
  <2> HIDE DEF D
  <2> QED
    BY <1>t, <1>2, <2>1 DEF Expired
<1>3. CASE leading[c]
  <2>1. lease.exists /\ lease.spec.holder = c
    BY <1>0, <1>3 DEF LeadInv
  <2>2. CASE lease.spec.secs = ToSeconds(LeaseDuration) /\ RenewedBy(c, lease.spec.renew)
    <3>1. now <= lease.spec.renew + LeadTime
      <4>1. CASE pc[c] = "wait"
        BY <1>0, <1>t, <2>2, <4>1, TimingNumbers DEF ClockInv, RenewedBy, LeadTime
      <4>2. CASE InRound(c)
        BY <1>0, <1>t, <1>3, <2>2, <4>2, TimingNumbers DEF ClockInv, LeadInv, RenewedBy, LeadTime
      <4>3. CASE pc[c] = "release"
        <5>1. call[c].op = "release"
          BY <1>0, <4>3 DEF ClientInv, CallInv
        <5> QED
          BY <1>0, <1>t, <2>2, <4>3, <5>1, TimingNumbers DEF ClockInv, RenewedBy, LeadTime
      <4> QED
        BY <1>0, <1>3, <4>1, <4>2, <4>3 DEF LeadInv, InRound
    <3> QED
      BY <1>2, <2>1, <2>2, <3>1
  <2>3. CASE /\ pc[c] = "release"
             /\ lease.spec.secs = ToSeconds(1) /\ lease.spec.renew = call[c].at
    <3>1. call[c].op = "release" /\ ReleaseOnCancel
      BY <1>0, <2>3 DEF ClientInv, CallInv, ClockInv
    <3> DEFINE D == ToSeconds(1) * Second
    <3>2. D \in Nat /\ D > RequestTimeout /\ lease.spec.secs * Second = D
      BY <1>1, <2>3, <3>1, TimingNumbers
    <3>3. now <= lease.spec.renew + RequestTimeout
      BY <1>0, <2>3, <3>1 DEF ClockInv
    <3> HIDE DEF D
    <3> QED
      BY <1>t, <2>1, <3>2, <3>3, TimingNumbers DEF Expired
  <2> QED
    BY <1>0, <1>3, <2>2, <2>3 DEF LeadInv
<1>4. CASE pc[c] = "set" /\ call[c].st = "ok"
  <2>1. IsWrite(c) /\ call[c].rec.holder = c
    BY <1>0, <1>4 DEF ClientInv, CallInv, IsWrite
  <2>2. lease.exists /\ lease.spec = WriteOf(c).spec
    BY <1>0, <1>4, <2>1 DEF ClientInv, AcceptedInv, AckInv
  <2>3. /\ lease.spec.holder = c /\ lease.spec.renew = call[c].rec.renew
        /\ lease.spec.secs = ToSeconds(LeaseDuration)
    BY <1>0, <1>4, <2>1, <2>2 DEF WriteOf, LeaderElectionRecordToLeaseSpec, ClockInv
  <2>4. now <= lease.spec.renew + LeadTime
    BY <1>0, <1>t, <1>4, <2>1, <2>3, TimingNumbers DEF ClockInv, IsWrite, LeadTime
  <2> QED
    BY <1>2, <2>2, <2>3, <2>4
<1> QED
  BY <1>3, <1>4 DEF Secure

\* So no one else has a write that could be carried out.
LEMMA OnlyHolderWrites ==
    ASSUME TimingInv, SafeTiming, NEW c \in Client, Secure(c), NEW d, NEW s, Justified(d, s)
    PROVE  d = c
BY SecureLease DEF Justified

\* The variables of client d that the timing argument is about are left alone.
SameTimers(d) ==
    /\ pc'[d] = pc[d] /\ call'[d] = call[d] /\ inRenew'[d] = inRenew[d] /\ wake'[d] = wake[d]
    /\ deadline'[d] = deadline[d] /\ cancelled'[d] = cancelled[d] /\ leading'[d] = leading[d]
    /\ observedRecord'[d] = observedRecord[d]

\* Steps of other clients that leave the Lease alone.
LEMMA TimersFrame ==
    ASSUME TimingInv, NEW d \in Client, SameTimers(d), lease' = lease, now' = now,
           \A w \in late' : w \in late \/ w.client # d
    PROVE  ClockInv(d)' /\ AckInv(d)' /\ LeadInv(d)'
<1> USE DEF SameTimers
<1>0. ClockInv(d) /\ AckInv(d) /\ LeadInv(d)
  BY DEF TimingInv
<1>1. ClockInv(d)'
  BY <1>0 DEF ClockInv, InRound
<1>2. AckInv(d)'
  BY <1>0 DEF AckInv
<1>3. LeadInv(d)'
  BY <1>0 DEF LeadInv, IsLeader, RenewedBy, InRound
<1> QED
  BY <1>1, <1>2, <1>3

\* A step of client c that leaves the Lease alone and may leave a write behind.
LEMMA TimersOthers ==
    ASSUME TimingInv, NEW c \in Client, lease' = lease, now' = now,
           UNCHANGED late \/ Abandoned(c),
           \A d \in Client : d # c => SameTimers(d),
           SafetyInv', ClockInv(c)', AckInv(c)', LeadInv(c)'
    PROVE  TimingInv'
<1>1. \A w \in late' : w \in late \/ w.client = c
  BY DEF Abandoned, WriteOf
<1>2. ASSUME NEW d \in Client, d # c PROVE ClockInv(d)' /\ AckInv(d)' /\ LeadInv(d)'
  BY <1>1, <1>2, TimersFrame
<1> QED
  BY <1>2 DEF TimingInv

\* Steps of an elector that no call is involved in.
LEMMA TimingProceed ==
    ASSUME TimingInv, NEW c \in Client, Proceed(c),
           UNCHANGED k8sVars, now' = now, SafetyInv'
    PROVE  TimingInv'
<1>0. /\ TypeOK /\ ClientInv(c) /\ ClockInv(c) /\ AckInv(c) /\ LeadInv(c)
  BY DEF TimingInv, SafetyInv
<1>t. /\ now \in Nat /\ wake[c] \in Nat /\ deadline[c] \in Nat
      /\ lease.spec.renew \in Nat /\ call[c].at \in Nat /\ RequestTimeout \in Nat
      /\ RenewDeadline \in Nat /\ RetryPeriod \in Nat
      /\ \A w \in late : w.spec.renew \in Nat
  BY <1>0, TimingTypes, TimingNumbers
<1>k. lease' = lease /\ late' = late
  BY DEF k8sVars
<1>d. \A d \in Client : d # c => SameTimers(d)
  BY <1>0 DEF TypeOK, InterfaceTypeOK, ElectorTypeOK, SameTimers, Proceed, Run, StartTry,
     StartRound, PollTick, StopAcquiring, StopBetweenRounds, StopPolling, LeaveRenew, Cancel,
     Invoke, observedVars
<1>o. observedRecord' = observedRecord
  BY DEF Proceed, Run, StartTry, StartRound, PollTick, StopAcquiring, StopBetweenRounds,
     StopPolling, LeaveRenew, Cancel, observedVars
<1> SUFFICES ClockInv(c)' /\ AckInv(c)' /\ LeadInv(c)'
  BY <1>d, <1>k, TimersOthers
<1>1. CASE Run(c) \/ StopAcquiring(c)
  <2>1. /\ ~leading'[c] /\ call'[c].op = "none"
        /\ pc'[c] = "done" \/ (pc'[c] = "wait" /\ wake'[c] = now)
    BY <1>0, <1>1 DEF Run, StopAcquiring, ClientInv, CallInv, LeadInv, TypeOK, ElectorTypeOK
  <2> QED
    BY <1>t, <2>1 DEF ClockInv, AckInv, LeadInv, InRound
<1>2. CASE StartTry(c)
  <2>1. /\ ~leading'[c] /\ ~inRenew'[c] /\ pc'[c] = "get" /\ call'[c].op = "get"
        /\ call'[c].at = now
    BY <1>0, <1>2 DEF StartTry, Invoke, LeadInv, TypeOK, ElectorTypeOK, InterfaceTypeOK
  <2> QED
    BY <1>t, <2>1 DEF ClockInv, AckInv, LeadInv, InRound
<1>3. CASE StartRound(c)
  <2>1. /\ leading' = leading /\ inRenew' = inRenew /\ cancelled' = cancelled
        /\ inRenew[c] /\ pc[c] = "wait" /\ pc'[c] = "get" /\ call'[c].op = "get"
        /\ call'[c].at = now /\ call'[c].st = "pending"
        /\ deadline'[c] = now + RenewDeadline
    BY <1>0, <1>3 DEF StartRound, Invoke, TypeOK, ElectorTypeOK, InterfaceTypeOK
  <2>2. ClockInv(c)' /\ AckInv(c)'
    BY <1>t, <2>1 DEF ClockInv, AckInv, InRound
  <2>3. ASSUME leading[c] PROVE RenewedBy(c, lease.spec.renew)'
    <3>1. wake[c] <= lease.spec.renew + 2 * RequestTimeout + RetryPeriod /\ now <= wake[c]
      BY <1>0, <2>1, <2>3 DEF LeadInv, RenewedBy, ClockInv
    <3> QED
      BY <1>t, <1>k, <2>1, <3>1 DEF RenewedBy
  <2>4. LeadInv(c)'
    BY <1>0, <1>o, <1>k, <2>1, <2>3 DEF LeadInv, IsLeader
  <2> QED
    BY <2>2, <2>4
<1>4. CASE PollTick(c)
  <2>1. /\ leading' = leading /\ inRenew' = inRenew /\ cancelled' = cancelled
        /\ deadline' = deadline
        /\ pc[c] = "poll" /\ pc'[c] = "get" /\ call'[c].op = "get"
        /\ call'[c].at = now /\ call'[c].st = "pending"
    BY <1>0, <1>4 DEF PollTick, Invoke, TypeOK, ElectorTypeOK, InterfaceTypeOK
  <2>2. ClockInv(c)' /\ AckInv(c)'
    BY <1>0, <1>t, <2>1 DEF ClockInv, AckInv, InRound
  <2>3. ASSUME leading[c] PROVE RenewedBy(c, lease.spec.renew)'
    BY <1>0, <1>k, <2>1, <2>3 DEF LeadInv, RenewedBy, InRound
  <2>4. LeadInv(c)'
    BY <1>0, <1>o, <1>k, <2>1, <2>3 DEF LeadInv, IsLeader, InRound
  <2> QED
    BY <2>2, <2>4
<1>5. CASE StopBetweenRounds(c) \/ StopPolling(c)
  <2>0. inRenew[c] /\ inRenew' = inRenew /\ cancelled' = cancelled
    BY <1>0, <1>5 DEF StopBetweenRounds, StopPolling, LeaveRenew, ClockInv
  <2>1. CASE ReleaseOnCancel /\ IsLeader(c)
    <3>1. /\ call'[c].op = "release" /\ call'[c].st = "pending" /\ pc'[c] = "release"
          /\ call'[c].rec = ReleaseRecord(c) /\ call'[c].at = now /\ leading' = leading
      BY <1>0, <1>5, <2>1 DEF StopBetweenRounds, StopPolling, LeaveRenew, Invoke,
         TypeOK, ElectorTypeOK, InterfaceTypeOK
    <3>2. call'[c].rec.dur = 1 /\ call'[c].rec.renew = now
      BY <3>1 DEF ReleaseRecord
    <3>3. ClockInv(c)' /\ AckInv(c)'
      BY <1>t, <2>0, <2>1, <3>1, <3>2 DEF ClockInv, AckInv, InRound
    <3>4. ASSUME leading[c]
          PROVE  /\ pc[c] = "poll" /\ now <= deadline[c]
                 /\ RenewedBy(c, lease.spec.renew)'
                 /\ lease.spec.secs = ToSeconds(LeaseDuration)
      <4>1. pc[c] = "poll"
        BY <1>0, <1>5, <3>4 DEF StopBetweenRounds, StopPolling, LeadInv
      <4>2. now <= deadline[c]
        BY <1>0, <2>0, <4>1 DEF ClockInv, InRound
      <4>3. /\ lease.spec.secs = ToSeconds(LeaseDuration)
            /\ deadline[c] <= lease.spec.renew + 2 * RequestTimeout + RetryPeriod + RenewDeadline
        BY <1>0, <3>4, <4>1 DEF LeadInv, RenewedBy, InRound
      <4> QED
        BY <1>t, <1>k, <3>1, <4>1, <4>2, <4>3 DEF RenewedBy, InRound
    <3>5. LeadInv(c)'
      <4>1. ASSUME leading[c], NEW w \in late, w.client = c
            PROVE  w.spec.secs = ToSeconds(LeaseDuration) /\ now <= w.spec.renew + RenewDeadline
        <5>1. /\ w.spec.secs = ToSeconds(LeaseDuration)
              /\ deadline[c] <= w.spec.renew + RenewDeadline
          BY <1>0, <3>4, <4>1 DEF LeadInv, InRound
        <5> QED
          BY <1>t, <3>4, <4>1, <5>1
      <4> QED
        BY <1>0, <1>o, <1>k, <2>0, <3>1, <3>4, <4>1 DEF LeadInv, IsLeader, InRound
    <3> QED
      BY <3>3, <3>5
  <2>2. CASE ~(ReleaseOnCancel /\ IsLeader(c))
    <3>1. call'[c].op = "none" /\ pc'[c] = "done" /\ ~leading'[c]
      BY <1>0, <1>5, <2>2 DEF StopBetweenRounds, StopPolling, LeaveRenew,
         ClientInv, CallInv, TypeOK, ElectorTypeOK
    <3> QED
      BY <3>1 DEF ClockInv, AckInv, LeadInv, InRound
  <2> QED
    BY <2>1, <2>2
<1>6. CASE Cancel(c)
  <2>1. /\ ~leading'[c] /\ UNCHANGED <<pc, inRenew, wake, call, deadline>>
    BY <1>0, <1>6 DEF Cancel, TypeOK, ElectorTypeOK
  <2> QED
    BY <1>0, <1>k, <2>1 DEF ClockInv, AckInv, LeadInv, InRound
<1> QED
  BY <1>1, <1>2, <1>3, <1>4, <1>5, <1>6 DEF Proceed

\* Steps of an elector when its call has returned without an error.
LEMMA TimingResume ==
    ASSUME TimingInv, NEW c \in Client, Resume(c), Returns(c), now' = now, SafetyInv'
    PROVE  TimingInv'
<1>0. /\ TypeOK /\ ClientInv(c) /\ ClockInv(c) /\ AckInv(c) /\ LeadInv(c)
  BY DEF TimingInv, SafetyInv
<1>t. /\ now \in Nat /\ wake[c] \in Nat /\ deadline[c] \in Nat
      /\ lease.spec.renew \in Nat /\ call[c].at \in Nat /\ RequestTimeout \in Nat
      /\ RenewDeadline \in Nat /\ RetryPeriod \in Nat /\ call[c].rec.renew \in Nat
      /\ \A w \in late : w.spec.renew \in Nat
  BY <1>0, TimingTypes, TimingNumbers
<1>k. lease' = lease /\ late' = late
  BY DEF Returns
<1>d. \A d \in Client : d # c => SameTimers(d)
  <2>1. \A d \in Client : d # c =>
          /\ pc'[d] = pc[d] /\ call'[d] = call[d] /\ inRenew'[d] = inRenew[d]
          /\ wake'[d] = wake[d] /\ deadline'[d] = deadline[d] /\ leading'[d] = leading[d]
          /\ cancelled' = cancelled
    BY <1>0 DEF TypeOK, InterfaceTypeOK, ElectorTypeOK, Resume,
       CreateRecord, LeaseHeld, TakeOrRenew, SetSucceeds, ReleaseSucceeds, ReleaseEnds,
       TryFails, Invoke, Return
  <2>2. \A d \in Client : d # c => observedRecord'[d] = observedRecord[d]
    BY <1>0 DEF TypeOK, ElectorTypeOK, Resume, CreateRecord, LeaseHeld, TakeOrRenew,
       SetSucceeds, ReleaseSucceeds, Observe, SetObservedRecord, observedVars
  <2> QED
    BY <2>1, <2>2 DEF SameTimers
<1> SUFFICES ClockInv(c)' /\ AckInv(c)' /\ LeadInv(c)'
  BY <1>d, <1>k, TimersOthers
\* A leader that has read the Lease finds itself in it.
<1>g. ASSUME leading[c], pc[c] = "get", call[c].st = "ok", Observe(c, call[c].rec)
      PROVE  observedRecord'[c].holder = c
  <2>1. call[c].rec.holder = c /\ IsLeader(c)
    BY <1>0, <1>g DEF LeadInv
  <2> QED
    BY <1>0, <1>g, <2>1 DEF Observe, SetObservedRecord, observedVars, IsLeader, TypeOK, ElectorTypeOK
\* A write follows a Get.
<1>s. ASSUME pc[c] = "get", pc'[c] = "set", call'[c].at = now, call'[c].st = "pending",
             call'[c].rec.dur = LeaseDuration, call'[c].rec.renew = call[c].at,
             UNCHANGED <<inRenew, leading, cancelled, deadline>>,
             leading[c] => observedRecord'[c].holder = c
      PROVE  ClockInv(c)' /\ AckInv(c)' /\ LeadInv(c)'
  <2>1. call[c].op = "get"
    BY <1>0, <1>s DEF ClientInv, CallInv
  <2>2. ClockInv(c)'
    BY <1>0, <1>t, <1>s, <2>1 DEF ClockInv, InRound
  <2>3. AckInv(c)'
    BY <1>s DEF AckInv
  <2>4. ASSUME leading[c]
        PROVE  RenewedBy(c, lease.spec.renew)' /\ lease.spec.secs = ToSeconds(LeaseDuration)
    BY <1>0, <1>k, <1>s, <2>4 DEF LeadInv, RenewedBy, InRound
  <2>5. LeadInv(c)'
    BY <1>0, <1>k, <1>s, <2>4 DEF LeadInv, IsLeader, InRound
  <2> QED
    BY <2>2, <2>3, <2>5
<1>1. CASE CreateRecord(c)
  <2>1. /\ pc[c] = "get" /\ pc'[c] = "set" /\ call'[c].at = now /\ call'[c].st = "pending"
        /\ call'[c].rec = NewRecord(c, call[c].at, 0)
        /\ UNCHANGED <<inRenew, leading, cancelled, deadline, observedRecord>>
    BY <1>0, <1>1 DEF CreateRecord, Invoke, observedVars, TypeOK, ElectorTypeOK, InterfaceTypeOK
  <2>2. call'[c].rec.dur = LeaseDuration /\ call'[c].rec.renew = call[c].at
    BY <2>1 DEF NewRecord
  <2>3. leading[c] => observedRecord'[c].holder = c
    BY <1>0, <2>1 DEF LeadInv, IsLeader
  <2> QED
    BY <1>s, <2>1, <2>2, <2>3
<1>2. CASE LeaseHeld(c)
  <2>1. ~leading[c]
    BY <1>2, <1>g DEF LeaseHeld, HeldByOther
  <2>2. /\ call'[c].op = "none" /\ leading' = leading /\ inRenew' = inRenew
        /\ deadline' = deadline /\ pc[c] = "get"
        /\ \/ inRenew[c] /\ pc'[c] = "poll"
           \/ ~inRenew[c] /\ pc'[c] = "wait" /\ \E n \in RetryDelays : wake'[c] = now + n
    BY <1>0, <1>2 DEF LeaseHeld, TryFails, Return, Idle, TypeOK, ElectorTypeOK, InterfaceTypeOK
  <2>3. \A n \in RetryDelays : now <= now + n
    BY <1>t DEF RetryDelays
  <2> QED
    BY <1>0, <2>1, <2>2, <2>3 DEF ClockInv, AckInv, LeadInv, InRound
<1>3. CASE TakeOrRenew(c)
  <2>1. /\ pc[c] = "get" /\ pc'[c] = "set" /\ call'[c].at = now /\ call'[c].st = "pending"
        /\ UNCHANGED <<inRenew, leading, cancelled, deadline>>
    BY <1>0, <1>3 DEF TakeOrRenew, Invoke, TypeOK, ElectorTypeOK, InterfaceTypeOK
  <2>2. call'[c].rec.dur = LeaseDuration /\ call'[c].rec.renew = call[c].at
    BY <1>0, <1>3 DEF TakeOrRenew, Invoke, NewRecord, TypeOK, InterfaceTypeOK
  <2>3. leading[c] => observedRecord'[c].holder = c
    BY <1>3, <1>g DEF TakeOrRenew
  <2> QED
    BY <1>s, <2>1, <2>2, <2>3
<1>4. CASE SetSucceeds(c)
  <2>1. /\ pc[c] = "set" /\ call[c].st = "ok" /\ pc'[c] = "wait" /\ call'[c].op = "none"
        /\ inRenew'[c] /\ wake'[c] \in {now, now + RetryPeriod}
        /\ cancelled' = cancelled /\ observedRecord'[c] = call[c].rec
        /\ leading'[c] => leading[c] \/ ~cancelled[c]
    BY <1>0, <1>4 DEF SetSucceeds, SetObservedRecord, Return, Idle, TypeOK, ElectorTypeOK,
       InterfaceTypeOK
  <2>2. IsWrite(c) /\ call[c].rec.holder = c
    BY <1>0, <2>1 DEF ClientInv, CallInv, IsWrite
  <2>3. lease.exists /\ lease.spec = WriteOf(c).spec /\ \A w \in late : w.client # c
    BY <1>0, <2>1, <2>2 DEF ClientInv, AcceptedInv, AckInv
  <2>4. /\ lease.spec.holder = c /\ lease.spec.renew = call[c].rec.renew
        /\ lease.spec.secs = ToSeconds(LeaseDuration)
    BY <1>0, <2>1, <2>2, <2>3 DEF WriteOf, LeaderElectionRecordToLeaseSpec, ClockInv
  <2>5. ClockInv(c)' /\ AckInv(c)'
    BY <1>t, <2>1 DEF ClockInv, AckInv, InRound
  <2>6. RenewedBy(c, lease.spec.renew)'
    BY <1>0, <1>t, <1>k, <2>1, <2>2, <2>4 DEF RenewedBy, ClockInv, IsWrite, InRound
  <2>7. LeadInv(c)'
    BY <1>0, <1>k, <2>1, <2>2, <2>3, <2>4, <2>6 DEF LeadInv, IsLeader, InRound
  <2> QED
    BY <2>5, <2>7
<1>5. CASE ReleaseSucceeds(c)
  <2>1. call'[c].op = "none" /\ pc'[c] = "done" /\ ~leading'[c]
    BY <1>0, <1>5 DEF ReleaseSucceeds, ReleaseEnds, Return, Idle, TypeOK, ElectorTypeOK,
       InterfaceTypeOK
  <2> QED
    BY <2>1 DEF ClockInv, AckInv, LeadInv, InRound
<1> QED
  BY <1>1, <1>2, <1>3, <1>4, <1>5 DEF Resume

\* A call of c has failed: a round goes on, and what was sent may be late.
LEMMA TimingFail ==
    ASSUME TimingInv, NEW c \in Client, Fail(c), Fails(c), now' = now, SafetyInv'
    PROVE  TimingInv'
<1>0. /\ TypeOK /\ ClientInv(c) /\ ClockInv(c) /\ AckInv(c) /\ LeadInv(c)
  BY DEF TimingInv, SafetyInv
<1>t. now \in Nat /\ RetryPeriod \in Nat
  BY <1>0, TimingTypes, TimingNumbers
<1>k. lease' = lease /\ (UNCHANGED late \/ Abandoned(c))
  BY DEF Fails, Refused, ContextEnds, Lost
<1>o. UNCHANGED observedVars
  BY DEF Fail, CallFails, ReleaseFails
<1>d. \A d \in Client : d # c => SameTimers(d)
  BY <1>0, <1>o DEF SameTimers, TypeOK, InterfaceTypeOK, ElectorTypeOK,
     Fail, CallFails, ReleaseFails, ReleaseEnds, TryFails, Return, observedVars
<1> SUFFICES ClockInv(c)' /\ AckInv(c)' /\ LeadInv(c)'
  BY <1>d, <1>k, TimersOthers
<1>1. CASE ReleaseFails(c)
  <2>1. call'[c].op = "none" /\ pc'[c] = "done" /\ ~leading'[c]
    BY <1>0, <1>1 DEF ReleaseFails, ReleaseEnds, Return, Idle, TypeOK, ElectorTypeOK, InterfaceTypeOK
  <2> QED
    BY <2>1 DEF ClockInv, AckInv, LeadInv, InRound
<1>2. CASE CallFails(c)
  <2>1. /\ call'[c].op = "none" /\ leading' = leading /\ inRenew' = inRenew
        /\ deadline' = deadline /\ cancelled' = cancelled /\ pc[c] \in {"get", "set"}
        /\ \/ inRenew[c] /\ pc'[c] = "poll"
           \/ ~inRenew[c] /\ pc'[c] = "wait" /\ \E n \in RetryDelays : wake'[c] = now + n
    BY <1>0, <1>2 DEF CallFails, TryFails, Return, Idle, TypeOK, ElectorTypeOK, InterfaceTypeOK
  <2>2. \A n \in RetryDelays : now <= now + n
    BY <1>t DEF RetryDelays
  <2>3. ClockInv(c)' /\ AckInv(c)'
    BY <1>0, <2>1, <2>2 DEF ClockInv, AckInv, InRound
  <2>4. ASSUME leading[c] PROVE inRenew[c] /\ pc'[c] = "poll"
    BY <1>0, <2>1, <2>4 DEF LeadInv
  <2>5. ASSUME leading[c]
        PROVE  RenewedBy(c, lease.spec.renew)' /\ lease.spec.secs = ToSeconds(LeaseDuration)
    BY <1>0, <1>k, <2>1, <2>4, <2>5 DEF LeadInv, RenewedBy, InRound
  <2>6. ASSUME leading[c], NEW w \in late', w.client = c
        PROVE  /\ w.spec.secs = ToSeconds(LeaseDuration)
               /\ deadline[c] <= w.spec.renew + RenewDeadline
    <3>1. CASE w \in late
      BY <1>0, <2>1, <2>6, <3>1 DEF LeadInv, InRound
    <3>2. CASE w = WriteOf(c) /\ IsWrite(c)
      <4>1. pc[c] = "set"
        BY <1>0, <2>1, <3>2 DEF ClientInv, CallInv, IsWrite
      <4>2. /\ w.spec.secs = ToSeconds(call[c].rec.dur) /\ w.spec.renew = call[c].rec.renew
        BY <3>2 DEF WriteOf, LeaderElectionRecordToLeaseSpec
      <4> QED
        BY <1>0, <2>4, <2>6, <4>1, <4>2 DEF ClockInv
    <3> QED
      BY <1>k, <2>6, <3>1, <3>2 DEF Abandoned
  <2>7. LeadInv(c)'
    BY <1>0, <1>k, <1>o, <2>1, <2>4, <2>5, <2>6 DEF LeadInv, IsLeader, InRound, observedVars
  <2> QED
    BY <2>3, <2>7
<1> QED
  BY <1>1, <1>2 DEF Fail

\* A process that dies does not lead.
LEMMA TimingDie ==
    ASSUME TimingInv, NEW c \in Client, Die(c), now' = now, SafetyInv'
    PROVE  TimingInv'
<1> USE DEF Die
<1>0. TypeOK
  BY DEF TimingInv, SafetyInv
<1>d. \A d \in Client : d # c => SameTimers(d)
  BY <1>0 DEF SameTimers, TypeOK, InterfaceTypeOK, ElectorTypeOK, Crash
<1>1. call'[c].op = "none" /\ pc'[c] = "off" /\ ~leading'[c]
  BY <1>0 DEF Crash, Idle, TypeOK, ElectorTypeOK, InterfaceTypeOK
<1>2. ClockInv(c)' /\ AckInv(c)' /\ LeadInv(c)'
  BY <1>1 DEF ClockInv, AckInv, LeadInv, InRound
<1> QED
  BY <1>2, <1>d, TimersOthers DEF ClientGone

\* A write is carried out: every other client is neither leading nor about to.
LEMMA TimersStore ==
    ASSUME TimingInv, SafeTiming, NEW c \in Client, NEW s, Justified(c, s),
           NEW d \in Client, d # c, now' = now, late' = {}, SameTimers(d)
    PROVE  ClockInv(d)' /\ AckInv(d)' /\ LeadInv(d)'
<1>1. ~leading[d] /\ ~(pc[d] = "set" /\ call[d].st = "ok")
  BY OnlyHolderWrites DEF Secure
<1>2. ClockInv(d)
  BY DEF TimingInv
<1>3. ClockInv(d)'
  BY <1>2 DEF ClockInv, InRound, SameTimers
<1> QED
  BY <1>1, <1>3 DEF AckInv, LeadInv, SameTimers

\* The server answers a Get, or carries out the write c waits for.
LEMMA TimingServer ==
    ASSUME TimingInv, SafeTiming, MaxDeletes = 0, NEW c \in Client, ServerStep(c),
           UNCHANGED <<now, cancelled, deadline, electorVars>>, SafetyInv'
    PROVE  TimingInv'
<1>0. /\ TypeOK /\ LeaseInv /\ SafetyInv /\ ClientInv(c) /\ ClockInv(c) /\ AckInv(c) /\ LeadInv(c)
      /\ call[c] \in Call
  BY DEF TimingInv, SafetyInv, TypeOK, InterfaceTypeOK
<1>u. /\ now' = now /\ pc' = pc /\ inRenew' = inRenew /\ wake' = wake /\ leading' = leading
      /\ observedRecord' = observedRecord
  BY DEF electorVars, observedVars
<1>d. /\ \A d \in Client : d # c => SameTimers(d)
      /\ call'[c].op = call[c].op /\ call'[c].at = call[c].at
  BY <1>0, <1>u DEF SameTimers, ServerStep, GetAnswered, WriteAccepted, Answer,
     TypeOK, InterfaceTypeOK
<1>1. CASE GetAnswered(c)
  <2>1. /\ lease' = lease /\ late' = late /\ call[c].op = "get" /\ pc[c] = "get"
        /\ call'[c].rec = Stored \/ call'[c].st = "notexist"
    BY <1>0, <1>1 DEF GetAnswered, Answer, k8sVars, TypeOK, InterfaceTypeOK, ClientInv, CallInv, PCs,
       ElectorTypeOK
  <2>2. ClockInv(c)'
    BY <1>0, <1>u, <1>d, <2>1 DEF ClockInv, InRound
  <2>3. AckInv(c)'
    BY <1>u, <2>1 DEF AckInv
  <2>4. Stored.holder = lease.spec.holder
    BY DEF Stored, LeaseSpecToLeaderElectionRecord
  <2>5. LeadInv(c)'
    BY <1>0, <1>u, <1>d, <2>1, <2>4 DEF LeadInv, IsLeader, RenewedBy, InRound
  <2> QED
    BY <1>d, <1>u, <2>1, <2>2, <2>3, <2>5, TimersOthers
<1>2. CASE WriteAccepted(c)
  <2>1. /\ IsWrite(c) /\ call[c].st = "pending" /\ IsSent(c) /\ WriteOf(c).ver = Version
        /\ Store(WriteOf(c)) /\ call'[c].st = "ok" /\ call'[c].rec = call[c].rec
        /\ call'[c].ver = lease.rv + 1 /\ deletes' = deletes
    BY <1>0, <1>2 DEF WriteAccepted, Answer, TypeOK, InterfaceTypeOK
  <2>2. /\ Justified(c, WriteOf(c).spec) /\ WriteOf(c).client = c
        /\ WriteOf(c).spec.renew <= now
        /\ ~lease.exists => WriteOf(c).spec.trans = 0
    BY <1>0, <2>1, WriteJustified
  <2>3. /\ late' = {}
        /\ lease' = [exists |-> TRUE, rv |-> lease.rv + 1, spec |-> WriteOf(c).spec]
    BY <1>0, <1>u, <2>1, <2>2, WriteOfType, StoreFrame
  <2>4. \A d \in Client : d # c => ClockInv(d)' /\ AckInv(d)' /\ LeadInv(d)'
    BY <1>d, <1>u, <2>2, <2>3, TimersStore
  <2>5. /\ lease'.exists /\ lease'.rv = lease.rv + 1 /\ lease'.spec.holder = c
        /\ lease'.spec.renew = call[c].rec.renew
        /\ lease'.spec.secs = ToSeconds(call[c].rec.dur)
    BY <1>0, <2>1, <2>3 DEF WriteOf, LeaderElectionRecordToLeaseSpec, ClientInv, CallInv
  <2>6. pc[c] \in {"set", "release"}
    BY <1>0, <2>1 DEF ClientInv, CallInv, IsWrite, TypeOK, ElectorTypeOK, PCs
  <2>7. ClockInv(c)'
    BY <1>0, <1>u, <1>d, <2>1 DEF ClockInv, InRound
  <2>8. AckInv(c)'
    BY <2>1, <2>3, <2>5 DEF AckInv
  <2>9. LeadInv(c)'
    <3>1. CASE pc[c] = "set"
      <4>1. /\ lease'.spec.secs = ToSeconds(LeaseDuration)
            /\ inRenew[c] => deadline[c] <= lease'.spec.renew + RenewDeadline
        BY <1>0, <2>5, <3>1 DEF ClockInv
      <4>2. ASSUME leading[c] PROVE RenewedBy(c, lease.spec.renew)'
        <5>1. inRenew[c]
          BY <1>0, <4>2 DEF LeadInv
        <5>2. /\ deadline[c] \in Nat /\ lease'.spec.renew \in Nat /\ RequestTimeout \in Nat
              /\ RetryPeriod \in Nat /\ RenewDeadline \in Nat
          BY <1>0, <2>5, TimingTypes, TimingNumbers
        <5>3. deadline[c] <= lease'.spec.renew + 2 * RequestTimeout + RetryPeriod + RenewDeadline
          BY <4>1, <5>1, <5>2
        <5> QED
          BY <1>u, <3>1, <5>3 DEF RenewedBy, InRound
      <4> QED
        BY <1>0, <1>u, <2>3, <2>5, <3>1, <4>1, <4>2 DEF LeadInv, IsLeader
    <3>2. CASE pc[c] = "release"
      <4>1. lease'.spec.secs = ToSeconds(1) /\ lease'.spec.renew = call[c].at
        BY <1>0, <2>5, <3>2 DEF ClockInv
      <4> QED
        BY <1>0, <1>u, <1>d, <2>3, <2>5, <3>2, <4>1 DEF LeadInv, IsLeader
    <3> QED
      BY <2>6, <3>1, <3>2
  <2> QED
    BY <2>4, <2>7, <2>8, <2>9 DEF TimingInv
<1> QED
  BY <1>1, <1>2 DEF ServerStep

\* A late write is carried out: if its client leads, the lease stays its own
\* and lasts as long as the round that is under way may.
LEMMA TimingLateWrite ==
    ASSUME TimingInv, SafeTiming, MaxDeletes = 0, NEW w \in late, LateWrite(w),
           UNCHANGED <<now, cancelled, deadline, electorVars>>, SafetyInv'
    PROVE  TimingInv'
<1>0. TypeOK /\ SafetyInv
  BY DEF TimingInv, SafetyInv
<1>1. /\ w \in Write /\ w.client \in Client /\ w.ver = Version /\ w.spec.renew <= now
      /\ Justified(w.client, w.spec) /\ (~lease.exists => w.spec.trans = 0)
  BY DEF TimingInv, SafetyInv, LateInv, TypeOK, K8sTypeOK, Write
<1>2. \A d \in Client : SameTimers(d)
  BY DEF LateWrite, SameTimers, electorVars, observedVars
<1>3. /\ late' = {} /\ now' = now
      /\ lease' = [exists |-> TRUE, rv |-> lease.rv + 1, spec |-> w.spec]
  BY <1>0, <1>1, StoreFrame DEF LateWrite
<1>4. \A d \in Client : d # w.client => ClockInv(d)' /\ AckInv(d)' /\ LeadInv(d)'
  BY <1>1, <1>2, <1>3, TimersStore
<1> DEFINE c == w.client
<1>5. ClockInv(c) /\ AckInv(c) /\ LeadInv(c) /\ SameTimers(c)
  BY <1>1, <1>2 DEF TimingInv
<1>6. ClockInv(c)'
  BY <1>3, <1>5 DEF ClockInv, InRound, SameTimers
<1>7. AckInv(c)'
  BY <1>5 DEF AckInv, SameTimers
<1>8. LeadInv(c)'
  <2>1. ASSUME leading[c]
        PROVE  w.spec.secs = ToSeconds(LeaseDuration) /\ RenewedBy(c, lease.spec.renew)'
    <3>1. /\ deadline[c] \in Nat /\ call[c].at \in Nat /\ w.spec.renew \in Nat
          /\ RequestTimeout \in Nat /\ RetryPeriod \in Nat /\ RenewDeadline \in Nat
      BY <1>0, <1>1, TimingTypes, TimingNumbers
    <3>2. /\ pc[c] # "wait" /\ w.spec.secs = ToSeconds(LeaseDuration)
          /\ InRound(c) => deadline[c] <= w.spec.renew + RenewDeadline
          /\ pc[c] = "release" => call[c].at <= w.spec.renew + RenewDeadline
      BY <1>5, <2>1 DEF LeadInv
    <3>3. lease'.spec.renew = w.spec.renew
      BY <1>3
    <3> QED
      BY <1>5, <3>1, <3>2, <3>3 DEF RenewedBy, InRound, SameTimers
  <2>2. w.spec.holder = c
    BY <1>1 DEF Justified
  <2> QED
    BY <1>3, <1>5, <2>1, <2>2 DEF LeadInv, IsLeader, SameTimers
<1> QED
  BY <1>4, <1>6, <1>7, <1>8 DEF TimingInv

\* Time passes, but not past a timer, a deadline or the timeout of a call.
LEMMA TimingTick ==
    ASSUME TimingInv, Tick, SafetyInv'
    PROVE  TimingInv'
<1> SUFFICES ASSUME NEW c \in Client PROVE ClockInv(c)' /\ AckInv(c)' /\ LeadInv(c)'
  BY DEF TimingInv
<1>0. /\ TypeOK /\ ClientInv(c) /\ ClockInv(c) /\ AckInv(c) /\ LeadInv(c)
  BY DEF TimingInv, SafetyInv
<1>t. /\ now \in Nat /\ wake[c] \in Nat /\ deadline[c] \in Nat /\ call[c].at \in Nat
      /\ RequestTimeout \in Nat /\ RenewDeadline \in Nat
  BY <1>0, TimingTypes, TimingNumbers
<1>1. /\ now' = now + 1 /\ NoTimerDue(c) /\ CallMayWait(c) /\ lease' = lease /\ late' = late
      /\ SameTimers(c)
  BY DEF Tick, k8sVars, electorVars, observedVars, SameTimers
<1>2. ClockInv(c)'
  <2>1. pc[c] = "wait" => now < wake[c]
    BY <1>1 DEF NoTimerDue
  <2>2. call[c].op # "none" => now < call[c].at + RequestTimeout
    BY <1>1, <1>t DEF CallMayWait, TimedOut
  <2>3. inRenew[c] /\ InRound(c) => now < deadline[c]
    BY <1>0, <1>1, <1>t DEF NoTimerDue, CallMayWait, CallCtxDone, CtxDone, InRound,
       ClientInv, CallInv
  <2> QED
    BY <1>0, <1>1, <1>t, <2>1, <2>2, <2>3 DEF ClockInv, InRound, SameTimers
<1>3. AckInv(c)'
  BY <1>0, <1>1 DEF AckInv, SameTimers
<1>4. LeadInv(c)'
  BY <1>0, <1>1 DEF LeadInv, IsLeader, RenewedBy, InRound, SameTimers
<1> QED
  BY <1>2, <1>3, <1>4

\* Every step preserves the invariant.
LEMMA TimingStep ==
    ASSUME TimingInv, SafeTiming, MaxDeletes = 0, [Next]_vars
    PROVE  TimingInv'
<1>0. SafetyInv /\ SafetyInv'
  BY SafetyStep DEF TimingInv
<1>1. CASE Tick
  BY <1>0, <1>1, TimingTick
<1>2. CASE UNCHANGED vars
  <2>1. \A d \in Client : SameTimers(d)
    BY <1>2 DEF vars, interfaceVars, electorVars, observedVars, SameTimers
  <2>2. lease' = lease /\ now' = now /\ late' = late
    BY <1>2 DEF vars, interfaceVars, k8sVars
  <2> QED
    BY <1>0, <2>1, <2>2, TimersFrame DEF TimingInv
<1>3. ASSUME NEW c \in Client, ElectorStep(c) \/ Die(c), UNCHANGED now PROVE TimingInv'
  BY <1>0, <1>3, TimingProceed, TimingResume, TimingFail, TimingDie DEF ElectorStep
<1>4. ASSUME NEW c \in Client, ServerStep(c),
             UNCHANGED <<now, cancelled, deadline, electorVars>>
      PROVE  TimingInv'
  BY <1>0, <1>4, TimingServer
<1>5. ~DeleteLease
  BY <1>0 DEF DeleteLease, SafetyInv, LeaseInv
<1>6. ASSUME NEW w \in late, LateWrite(w),
             UNCHANGED <<now, cancelled, deadline, electorVars>>
      PROVE  TimingInv'
  BY <1>0, <1>6, TimingLateWrite
<1> QED
  BY <1>1, <1>2, <1>3, <1>4, <1>5, <1>6 DEF Next

\* Initially no one leads and nothing is due.
LEMMA TimingInit ==
    ASSUME Init PROVE TimingInv
<1>1. SafetyInv
  BY SafetyInit
<1>2. ASSUME NEW c \in Client PROVE ClockInv(c) /\ AckInv(c) /\ LeadInv(c)
  BY DEF Init, InterfaceInit, ElectorInit, Idle, ClockInv, AckInv, LeadInv, InRound
<1> QED
  BY <1>1, <1>2 DEF TimingInv

\* When the Lease is not deleted and the stored lease outlasts the time a leader
\* may act, every elector stays within its deadlines and its lease.
THEOREM TimingInvariant == SafeTiming /\ MaxDeletes = 0 => (Spec => []TimingInv)
<1> SUFFICES ASSUME SafeTiming, MaxDeletes = 0 PROVE Spec => []TimingInv
  OBVIOUS
<1>1. Init => TimingInv
  BY TimingInit
<1>2. TimingInv /\ [Next]_vars => TimingInv'
  BY TimingStep
<1> QED
  BY <1>1, <1>2, PTL DEF Spec

\* A client whose OnStartedLeading context is live holds the stored Lease and
\* IsLeader() says so.
THEOREM LeaderSafe == SafeTiming /\ MaxDeletes = 0 => (Spec => []LeaderHoldsLease)
<1> SUFFICES ASSUME SafeTiming, MaxDeletes = 0 PROVE Spec => []LeaderHoldsLease
  OBVIOUS
<1>1. Spec => []TimingInv
  BY TimingInvariant
<1>2. TimingInv => LeaderHoldsLease
  BY DEF TimingInv, LeadInv, LeaderHoldsLease
<1> QED
  BY <1>1, <1>2, PTL

\* At most one OnStartedLeading context is live, for any number of clients.
THEOREM OneLeader == SafeTiming /\ MaxDeletes = 0 => (Spec => []MutualExclusion)
<1> SUFFICES ASSUME SafeTiming, MaxDeletes = 0 PROVE Spec => []MutualExclusion
  OBVIOUS
<1>1. Spec => []LeaderHoldsLease
  BY LeaderSafe
<1>2. LeaderHoldsLease => MutualExclusion
  BY DEF LeaderHoldsLease, MutualExclusion
<1> QED
  BY <1>1, <1>2, PTL

-----------------------------------------------------------------------------
(***************************************************************************)
(* K8sElection implements LeaderLease under the same conditions: the       *)
(* initial states map to initial states and every step to a step or a      *)
(* stutter.  A tick is a Wait, a write the API server takes is a Grant to  *)
(* its client, and the step of an elector in which its OnStartedLeading    *)
(* context begins or ends is a Lead or a Quit.                             *)
(***************************************************************************)
\* Before the first write the Lease is no one's.
Unwritten == lease.exists \/ lease.spec = NoSpec

\* A leader holds the Lease, which has not expired.
LeadersSecure ==
    \A c \in Client : leading[c] => lease.spec.holder = c /\ ~Expired

\* The invariant the refinement is relative to.
LeaseView == TimingInv /\ Unwritten /\ LeadersSecure

\* Unwritten is preserved as long as there is no deletion.
LEMMA UnwrittenStep ==
    ASSUME TypeOK, Unwritten, MaxDeletes = 0, [Next]_vars
    PROVE  Unwritten'
<1>1. CASE lease' = lease
  BY <1>1 DEF Unwritten
<1>2. CASE \E w : Store(w)
  BY <1>2 DEF Unwritten, Store
<1>3. ~DeleteLease
  BY DEF DeleteLease, TypeOK, K8sTypeOK
<1>4. lease' = lease \/ \E w : Store(w)
  <2>1. CASE Tick \/ UNCHANGED vars
    BY <2>1 DEF Tick, vars, k8sVars
  <2>2. ASSUME NEW c \in Client, ElectorStep(c) \/ Die(c) PROVE lease' = lease
    BY <2>2 DEF ElectorStep, Die, k8sVars, Returns, Fails, Refused, ContextEnds, Lost, ClientGone
  <2>3. ASSUME NEW c \in Client, ServerStep(c) PROVE lease' = lease \/ \E w : Store(w)
    BY <2>3 DEF ServerStep, GetAnswered, WriteAccepted, k8sVars
  <2>4. ASSUME NEW w \in late, LateWrite(w) PROVE Store(w)
    BY <2>4 DEF LateWrite
  <2> QED
    BY <1>3, <2>1, <2>2, <2>3, <2>4 DEF Next
<1> QED
  BY <1>1, <1>2, <1>4

\* The three parts hold together.
LEMMA LeaseViewInvariant == SafeTiming /\ MaxDeletes = 0 => (Spec => []LeaseView)
<1> SUFFICES ASSUME SafeTiming, MaxDeletes = 0 PROVE Spec => []LeaseView
  OBVIOUS
<1>1. Spec => []TimingInv
  BY TimingInvariant
<1>2. TimingInv => LeadersSecure
  BY SecureLease DEF Secure, LeadersSecure
<1>3. Init => Unwritten
  BY DEF Init, K8sInit, Unwritten
<1>4. TimingInv /\ Unwritten /\ [Next]_vars => Unwritten'
  BY UnwrittenStep DEF TimingInv, SafetyInv
<1>5. LeaseView <=> TimingInv /\ LeadersSecure /\ Unwritten
  BY DEF LeaseView
<1> QED
  BY <1>1, <1>2, <1>3, <1>4, <1>5, PTL DEF Spec

\* The end of the lease as a number.
LEMMA UntilType ==
    ASSUME TypeOK
    PROVE  /\ lease.spec.renew + lease.spec.secs * Second \in Nat
           /\ now \in Nat
           /\ ~Expired <=> now < lease.spec.renew + lease.spec.secs * Second
<1>1. /\ now \in Nat /\ lease.spec.renew \in Nat /\ lease.spec.secs \in Nat
  BY LockAssumption DEF TypeOK, InterfaceTypeOK, K8sTypeOK, LeaseSpec
<1>2. lease.spec.secs * Second \in Nat
  BY <1>1, K8sAssumption
<1> DEFINE D == lease.spec.secs * Second
<1>3. D \in Nat
  BY <1>2
<1>4. Expired <=> now >= lease.spec.renew + D
  BY DEF Expired
<1> HIDE DEF D
<1>5. /\ lease.spec.renew + D \in Nat
      /\ ~(now >= lease.spec.renew + D) <=> now < lease.spec.renew + D
  BY <1>1, <1>3
<1> QED
  BY <1>1, <1>4, <1>5 DEF D

\* The same of the next state.
LEMMA UntilTypeNext ==
    (TypeOK => /\ lease.spec.renew + lease.spec.secs * Second \in Nat
               /\ now \in Nat
               /\ ~Expired <=> now < lease.spec.renew + lease.spec.secs * Second)'
<1>1. TypeOK => /\ lease.spec.renew + lease.spec.secs * Second \in Nat
                /\ now \in Nat
                /\ ~Expired <=> now < lease.spec.renew + lease.spec.secs * Second
  BY UntilType
<1> QED
  BY <1>1, PTL

\* The context of OnStartedLeading of c begins or ends, or nothing of the lease
\* changes.
LEMMA LeadOrQuit ==
    ASSUME LeaseView, LeaseView', NEW c \in Client, lease' = lease, now' = now,
           \A d \in Client : d # c => leading'[d] = leading[d]
    PROVE  [Lease!Next]_(Lease!vars)
<1> DEFINE L == {d \in Client : leading[d]}
           M == {d \in Client : leading'[d]}
<1>0. /\ TypeOK /\ LeadersSecure /\ LeadersSecure' /\ Expired' = Expired
  BY DEF LeaseView, TimingInv, SafetyInv, Expired
<1>1. CASE leading'[c] = leading[c]
  <2>1. M = L
    BY <1>1
  <2> QED
    BY <2>1 DEF Lease!vars
<1>2. CASE leading[c] /\ leading'[c] # leading[c]
  <2>1. L = {c}
    BY <1>0, <1>2 DEF LeadersSecure
  <2>2. leading'[c] \in BOOLEAN
    BY DEF LeaseView, TimingInv, SafetyInv, TypeOK, ElectorTypeOK
  <2>3. M = {}
    BY <1>2, <2>1, <2>2
  <2>4. Lease!Quit(c)
    BY <2>1, <2>3 DEF Lease!Quit
  <2> QED
    BY <2>4 DEF Lease!Next
<1>3. CASE ~leading[c] /\ leading'[c] # leading[c]
  <2>1. leading'[c]
    BY <1>3 DEF LeaseView, TimingInv, SafetyInv, TypeOK, ElectorTypeOK
  <2>2. lease.spec.holder = c /\ ~Expired
    BY <1>0, <2>1 DEF LeadersSecure
  <2>3. L = {}
    BY <1>0, <1>3, <2>2 DEF LeadersSecure
  <2>4. M = {c}
    BY <2>1, <2>3
  <2>5. now < lease.spec.renew + lease.spec.secs * Second
    BY <1>0, <2>2, UntilType
  <2>6. Lease!Lead(c)
    BY <2>2, <2>3, <2>4, <2>5 DEF Lease!Lead
  <2> QED
    BY <2>6 DEF Lease!Next
<1> QED
  BY <1>1, <1>2, <1>3

\* A write the API server takes is a Grant.
LEMMA WriteGrants ==
    ASSUME LeaseView, LeaseView', NEW c \in Client, NEW s, Justified(c, s), s.holder = c,
           lease'.exists, lease'.spec = s, now' = now, leading' = leading
    PROVE  Lease!Grant(c)
<1> DEFINE L == {d \in Client : leading[d]}
<1>0. /\ TypeOK /\ TypeOK' /\ LeadersSecure /\ LeadersSecure' /\ Unwritten
  BY DEF LeaseView, TimingInv, SafetyInv
<1>1. /\ now \in Nat
      /\ ~Expired <=> now < lease.spec.renew + lease.spec.secs * Second
      /\ lease.spec.renew + lease.spec.secs * Second \in Nat
  BY <1>0, UntilType
<1>2. /\ lease'.spec.renew + lease'.spec.secs * Second \in Nat
      /\ now' \in Nat
      /\ ~Expired' <=> now' < lease'.spec.renew + lease'.spec.secs * Second
  BY <1>0, UntilTypeNext
<1>3. lease.spec.holder \in {NoOne, c} \/ Expired
  BY <1>0 DEF Justified, Unwritten, NoSpec
<1>4. \A d \in Client : leading[d] => d = c /\ ~Expired'
  BY <1>0, <1>3, LockAssumption DEF LeadersSecure
<1>5. L # {} => L = {c} /\ ~Expired'
  BY <1>4
<1>6. lease.spec.holder \in {NoOne, c} \/ now >= lease.spec.renew + lease.spec.secs * Second
  BY <1>3 DEF Expired
<1> QED
  BY <1>2, <1>5, <1>6 DEF Lease!Grant

\* Time passes while every leader's lease runs.
LEMMA TickWaits ==
    ASSUME LeaseView, LeaseView', Tick
    PROVE  Lease!Wait
<1>1. /\ now' = now + 1 /\ lease' = lease /\ leading' = leading
  BY DEF Tick, k8sVars, electorVars
<1>2. TypeOK' /\ LeadersSecure'
  BY DEF LeaseView, TimingInv, SafetyInv
<1>3. ~Expired' <=> now' < lease'.spec.renew + lease'.spec.secs * Second
  BY <1>2, UntilTypeNext
<1>4. {d \in Client : leading[d]} # {} => ~Expired'
  BY <1>1, <1>2 DEF LeadersSecure
<1> QED
  BY <1>1, <1>3, <1>4 DEF Lease!Wait

\* Every step is one of LeaderLease or a stutter.
LEMMA LeaseRefined ==
    ASSUME LeaseView, LeaseView', MaxDeletes = 0, [Next]_vars
    PROVE  [Lease!Next]_(Lease!vars)
<1>0. /\ TypeOK /\ SafetyInv
  BY DEF LeaseView, TimingInv, SafetyInv
<1>1. CASE Tick
  BY <1>1, TickWaits DEF Lease!Next
<1>2. CASE UNCHANGED vars
  BY <1>2 DEF vars, interfaceVars, electorVars, k8sVars, Lease!vars
<1>3. ASSUME NEW c \in Client, ElectorStep(c) \/ Die(c), UNCHANGED now
      PROVE  [Lease!Next]_(Lease!vars)
  <2>1. lease' = lease
    BY <1>3 DEF ElectorStep, Die, k8sVars, Returns, Fails, Refused, ContextEnds, Lost, ClientGone
  <2>2. \A d \in Client : d # c => leading'[d] = leading[d]
    <3>1. CASE Proceed(c)
      BY <1>0, <3>1 DEF TypeOK, ElectorTypeOK, Proceed, Run, StartTry, StartRound, PollTick,
         StopAcquiring, StopBetweenRounds, StopPolling, LeaveRenew, Cancel
    <3>2. CASE Resume(c)
      BY <1>0, <3>2 DEF TypeOK, ElectorTypeOK, Resume, CreateRecord, LeaseHeld, TakeOrRenew,
         SetSucceeds, ReleaseSucceeds, ReleaseEnds, TryFails
    <3>3. CASE Fail(c)
      BY <1>0, <3>3 DEF TypeOK, ElectorTypeOK, Fail, CallFails, ReleaseFails, ReleaseEnds, TryFails
    <3>4. CASE Die(c)
      BY <1>0, <3>4 DEF TypeOK, ElectorTypeOK, Die, Crash
    <3> QED
      BY <1>3, <3>1, <3>2, <3>3, <3>4 DEF ElectorStep
  <2> QED
    BY <1>3, <2>1, <2>2, LeadOrQuit
<1>4. ASSUME NEW c \in Client, ServerStep(c),
             UNCHANGED <<now, cancelled, deadline, electorVars>>
      PROVE  [Lease!Next]_(Lease!vars)
  <2>0. now' = now /\ leading' = leading
    BY <1>4 DEF electorVars
  <2>1. CASE GetAnswered(c)
    BY <2>0, <2>1 DEF GetAnswered, k8sVars, Lease!vars
  <2>2. CASE WriteAccepted(c)
    <3>1. /\ IsWrite(c) /\ call[c].st = "pending" /\ IsSent(c) /\ WriteOf(c).ver = Version
          /\ lease'.exists /\ lease'.spec = WriteOf(c).spec
      BY <2>2 DEF WriteAccepted, Store
    <3>2. Justified(c, WriteOf(c).spec) /\ WriteOf(c).spec.holder = c
      BY <1>0, <3>1, WriteJustified DEF Justified
    <3>3. Lease!Grant(c)
      BY <2>0, <3>1, <3>2, WriteGrants
    <3> QED
      BY <3>3 DEF Lease!Next
  <2> QED
    BY <1>4, <2>1, <2>2 DEF ServerStep
<1>5. ASSUME NEW w \in late, LateWrite(w),
             UNCHANGED <<now, cancelled, deadline, electorVars>>
      PROVE  [Lease!Next]_(Lease!vars)
  <2>0. now' = now /\ leading' = leading
    BY <1>5 DEF electorVars
  <2>1. /\ w.client \in Client /\ Justified(w.client, w.spec) /\ w.spec.holder = w.client
        /\ lease'.exists /\ lease'.spec = w.spec
    BY <1>0, <1>5 DEF SafetyInv, LateInv, Justified, LateWrite, Store, TypeOK, K8sTypeOK, Write
  <2>2. Lease!Grant(w.client)
    BY <2>0, <2>1, WriteGrants
  <2> QED
    BY <2>1, <2>2 DEF Lease!Next
<1>6. ~DeleteLease
  BY <1>0 DEF DeleteLease, TypeOK, K8sTypeOK
<1> QED
  BY <1>1, <1>2, <1>3, <1>4, <1>5, <1>6 DEF Next

\* The election over a Kubernetes Lease is a LeaderLease, for any number of
\* clients, lost or late writes and restarts: what the API server takes only
\* renews the lease of its owner or grants one that has ended, and no
\* OnStartedLeading context is live when the stored lease ends.
THEOREM LeaseImplemented == SafeTiming /\ MaxDeletes = 0 => (Spec => ImplementsLease)
<1> SUFFICES ASSUME SafeTiming, MaxDeletes = 0 PROVE Spec => ImplementsLease
  OBVIOUS
<1>1. Spec => []LeaseView
  BY LeaseViewInvariant
<1>2. Init => Lease!Init
  <2>1. 0 + 0 * Second = 0
    BY K8sAssumption
  <2> QED
    BY <2>1 DEF Init, InterfaceInit, ElectorInit, K8sInit, NoSpec, Lease!Init
<1>3. LeaseView /\ LeaseView' /\ [Next]_vars => [Lease!Next]_(Lease!vars)
  BY LeaseRefined
<1> QED
  BY <1>1, <1>2, <1>3, PTL DEF Spec, ImplementsLease, Lease!Spec
-----------------------------------------------------------------------------
\* The lease a write in flight would grant is not over yet.
LEMMA WriteRuns ==
    ASSUME TimingInv, SafeTiming, NEW d \in Client, IsWrite(d)
    PROVE  now < WriteOf(d).spec.renew + WriteOf(d).spec.secs * Second
<1>0. TypeOK /\ CallInv(d) /\ ClockInv(d)
  BY DEF TimingInv, SafetyInv, ClientInv
<1>t. now \in Nat /\ call[d].at \in Nat /\ call[d].rec.renew \in Nat
  BY <1>0, TimingTypes
<1>1. /\ WriteOf(d).spec.renew = call[d].rec.renew
      /\ WriteOf(d).spec.secs = ToSeconds(call[d].rec.dur)
  BY DEF WriteOf, LeaderElectionRecordToLeaseSpec
<1>2. pc[d] \in {"set", "release"} /\ now <= call[d].at + RequestTimeout
  BY <1>0 DEF CallInv, ClockInv, IsWrite, TypeOK, ElectorTypeOK, PCs
<1>3. CASE pc[d] = "set"
  <2>1. call[d].rec.dur = LeaseDuration /\ call[d].at <= call[d].rec.renew + RequestTimeout
    BY <1>0, <1>3 DEF ClockInv
  <2>2. 2 * RequestTimeout < ToSeconds(LeaseDuration) * Second
    BY TimingNumbers DEF SafeTiming, StoredDuration, LeadTime
  <2> QED
    BY <1>t, <1>1, <1>2, <2>1, <2>2, TimingNumbers
<1>4. CASE pc[d] = "release"
  <2>1. ReleaseOnCancel /\ call[d].rec.dur = 1 /\ call[d].rec.renew = call[d].at
    BY <1>0, <1>4 DEF ClockInv
  <2>2. RequestTimeout < ToSeconds(1) * Second
    BY <2>1, TimingNumbers DEF SafeTiming, StoredDuration
  <2> QED
    BY <1>t, <1>1, <1>2, <2>1, <2>2, TimingNumbers
<1> QED
  BY <1>2, <1>3, <1>4

\* If it would repeat what c has read, c has not waited long enough yet.
LEMMA RepeatsEarly ==
    ASSUME TimingInv, SafeTiming, NEW c \in Client, NEW w,
           now < w.spec.renew + w.spec.secs * Second,
           LeaseSpecToLeaderElectionRecord(w.spec) = observedRawRecord[c]
    PROVE  now < Due(c, 0)
<1>0. TypeOK /\ ObservedInv(c)
  BY DEF TimingInv, SafetyInv, ClientInv
<1>1. /\ observedRawRecord[c].renew = w.spec.renew
      /\ observedRawRecord[c].dur = w.spec.secs * Second
  BY DEF LeaseSpecToLeaderElectionRecord
<1>2. /\ observedTime[c] \in Nat /\ observedRawRecord[c].dur \in Nat
      /\ observedRawRecord[c].renew \in Nat /\ now \in Nat
      /\ observedRawRecord[c].renew <= observedTime[c]
  BY <1>0, LockAssumption
     DEF TypeOK, InterfaceTypeOK, ElectorTypeOK, Record, ObservedInv
<1>3. observedTime[c] + observedRawRecord[c].dur = Due(c, 0)
  BY <1>0, DueGrows DEF TypeOK
<1> QED
  BY <1>1, <1>2, <1>3

\* Once the Lease has changed, the record that c waits to overwrite is not
\* repeated.
LEMMA StaleNotRepeated ==
    ASSUME TimingInv, NEW c \in Client, StaleInv(c), TryInv(c), Candidate(c), pc[c] = "set",
           held[c] # Version
    PROVE  ~Repeatable(c)
<1>0. TypeOK /\ ObservedInv(c) /\ LateInv
  BY DEF TimingInv, SafetyInv, ClientInv
<1>1. /\ call[c].op = "update"
      /\ observedRawRecord[c].holder = c \/ call[c].rec.renew >= Due(c, 0)
  BY DEF TryInv
<1>2. SUFFICES ASSUME NEW w \in late,
                      LeaseSpecToLeaderElectionRecord(w.spec) = observedRawRecord[c]
               PROVE  FALSE
  BY DEF Repeatable
<1>3. w.client # c /\ call[c].rec.renew < w.spec.renew + w.spec.secs * Second
  BY <1>1 DEF StaleInv, HasRead, VersionRead, TryStart
<1>4. /\ observedRawRecord[c].renew = w.spec.renew
      /\ observedRawRecord[c].dur = w.spec.secs * Second
      /\ observedRawRecord[c].holder = w.spec.holder
  BY <1>2 DEF LeaseSpecToLeaderElectionRecord
<1>5. observedRawRecord[c].holder # c
  BY <1>0, <1>3, <1>4 DEF LateInv, Justified
<1>6. /\ observedTime[c] \in Nat /\ observedRawRecord[c].dur \in Nat
      /\ observedRawRecord[c].renew \in Nat /\ call[c].rec.renew \in Nat
      /\ observedRawRecord[c].renew <= observedTime[c]
  BY <1>0 DEF TypeOK, InterfaceTypeOK, ElectorTypeOK, Record, Call, ObservedInv
<1>7. observedTime[c] + observedRawRecord[c].dur = Due(c, 0)
  BY <1>0, DueGrows DEF TypeOK
<1> QED
  BY <1>1, <1>3, <1>4, <1>5, <1>6, <1>7

\* A write that the server takes is the end of every late one.
LEMMA StoreClears ==
    ASSUME TimingInv, MaxDeletes = 0, NEW w, Store(w)
    PROVE  /\ late' = {} /\ lease'.exists /\ lease'.rv = lease.rv + 1 /\ lease'.spec = w.spec
           /\ Version' = lease.rv + 1
<1>0. LateInv /\ LeaseInv /\ lease.rv \in Nat
  BY DEF TimingInv, SafetyInv, TypeOK, K8sTypeOK
<1>1. lease' = [exists |-> TRUE, rv |-> lease.rv + 1, spec |-> w.spec]
  BY DEF Store
<1>2. \A v \in late : ~StillPossible(v, lease.rv + 1, deletes < MaxDeletes)
  BY <1>0 DEF LateInv, LeaseInv, StillPossible, Version
<1> QED
  BY <1>1, <1>2 DEF Store, Version

\* Which tries may come to nothing.
LEMMA TriesType ==
    ASSUME NEW c \in Client
    PROVE  /\ TriesNeeded(c) \in {1, 2, 3} /\ TriesNeeded(c)' \in {1, 2, 3}
           /\ pc[c] = "set" /\ call[c].op = "update" => TriesNeeded(c) \in {1, 2}
BY DEF TriesNeeded, ReadsAgain, HasRead

\* A candidate that tries in time and has no more tries to spare keeps RetryInv.
LEMMA TriesEnough ==
    ASSUME TypeOK', NEW c \in Client, NEW m \in Nat, NEW f \in Nat, NEW u \in {1, 2, 3},
           TriesNeeded(c)' = u, faults' = f, m <= u + f, StartsBy(c, m)', ~cancelled'[c]
    PROVE  RetryInv(c)'
<1>1. u + f \in Nat
  OBVIOUS
<1>2. ASSUME NEW n \in Nat, n = u + f PROVE StartsBy(c, n)'
  BY <1>2, StartsLater DEF TypeOK
<1>3. TriesNeeded(c)' + faults' = u + f
  OBVIOUS
<1> QED
  BY <1>1, <1>2, <1>3 DEF RetryInv, StartsBy, Due

\* Before what it has read is over, a candidate has every retry left.
LEMMA EarlyStarts ==
    ASSUME TypeOK, TypeOK', NEW c \in Client, Candidate(c)', now < Due(c, 0)',
           pc'[c] = "wait" => wake'[c] <= now + RetryPause,
           pc'[c] = "get" => call'[c].at <= now,
           pc'[c] = "set" => call'[c].rec.renew <= now
    PROVE  StartsBy(c, 1)'
<1>1. TryStart(c)' \in Nat /\ TryStart(c)' <= now + RetryPause
  <2>1. wake'[c] \in Nat /\ call'[c].at \in Nat /\ call'[c].rec.renew \in Nat /\ now \in Nat
    BY LockAssumption DEF TypeOK, InterfaceTypeOK, ElectorTypeOK, Call, Record
  <2> QED
    BY <2>1, RetryTimeType DEF TryStart, Candidate
<1>2. Due(c, 0)' \in Nat /\ Due(c, 1)' = Due(c, 0)' + RetryTime
  <2>1. observedTime'[c] \in Nat /\ observedRawRecord'[c].dur \in Nat
    BY DEF TypeOK, ElectorTypeOK, Record
  <2> QED
    BY <2>1, RetryTimeType DEF Due
<1> QED
  BY <1>1, <1>2, RetryTimeType, LockAssumption DEF StartsBy, TypeOK, InterfaceTypeOK

LEMMA EarlyRetry ==
    ASSUME TypeOK, TypeOK', UNCHANGED now, NEW c \in Client, WriteInv(c)', TryInv(c)',
           Candidate(c)', ~cancelled'[c], now < Due(c, 0)'
    PROVE  RetryInv(c)'
<1>1. /\ pc'[c] = "wait" => wake'[c] <= now + RetryPause
      /\ pc'[c] = "get" => call'[c].at <= now
      /\ pc'[c] = "set" => call'[c].rec.renew <= now
  <2>1. call'[c].at \in Nat /\ call'[c].rec.renew \in Nat /\ now \in Nat
    BY LockAssumption DEF TypeOK, InterfaceTypeOK, Call, Record
  <2>2. call'[c].at <= now /\ (pc'[c] = "set" => call'[c].rec.renew <= call'[c].at)
    BY DEF WriteInv
  <2>3. pc'[c] = "wait" => wake'[c] <= now + RetryPause
    BY DEF TryInv
  <2> QED
    BY <2>1, <2>2, <2>3
<1>2. StartsBy(c, 1)'
  BY <1>1, EarlyStarts
<1>3. PICK u \in {1, 2, 3} : TriesNeeded(c)' = u
  BY TriesType
<1>4. PICK f \in Nat : faults' = f
  BY K8sAssumption DEF TypeOK, K8sTypeOK
<1>5. 1 <= u + f
  OBVIOUS
<1> QED
  BY <1>2, <1>3, <1>4, <1>5, TriesEnough

\* What a step of elector c does to the lock, and what it leaves of the others.
LEMMA LockAfterStep ==
    ASSUME TypeOK, NEW c \in Client, ElectorStep(c) \/ Die(c)
    PROVE  /\ lease' = lease /\ faults' \in {faults, faults + 1} /\ faults \in Nat
           /\ late' = late \/ (late' = late \cup {WriteOf(c)} /\ IsWrite(c))
           /\ \A d \in Client :
                d # c => SameElector(d) /\ call'[d] = call[d] /\ held'[d] = held[d]
<1>1. Proceed(c) \/ Resume(c) \/ Fail(c) \/ Crash(c)
  BY DEF ElectorStep, Die
<1>2. \A d \in Client : d # c => SameElector(d) /\ call'[d] = call[d]
  BY <1>1, OtherElectors DEF TypeOK
<1>3. \A d \in Client : d # c => held'[d] = held[d]
  BY DEF ElectorStep, Die, k8sVars, Returns, Fails, Refused, ContextEnds, Lost, ClientGone,
         LeaseAfterFailure, TypeOK, K8sTypeOK
<1>4. late' = late \/ (late' = late \cup {WriteOf(c)} /\ IsWrite(c))
  BY DEF ElectorStep, Die, k8sVars, Returns, Fails, Refused, ContextEnds, Lost, ClientGone, Abandoned
<1>5. lease' = lease /\ faults' \in {faults, faults + 1}
  BY DEF ElectorStep, Die, k8sVars, Returns, Fails, Refused, ContextEnds, Lost, ClientGone
<1>6. faults \in Nat
  BY K8sAssumption DEF TypeOK, K8sTypeOK
<1> QED
  BY <1>2, <1>3, <1>4, <1>5, <1>6

\* A write that becomes late repeats what d has read only early.
LEMMA LateAdded ==
    ASSUME TimingInv, SafeTiming, NEW c \in Client, NEW d \in Client, SameReading(d),
           late' = late \/ (late' = late \cup {WriteOf(c)} /\ IsWrite(c))
    PROVE  (Repeatable(d)' <=> Repeatable(d)) \/ now < Due(d, 0)'
<1>1. Due(d, 0)' = Due(d, 0)
  BY DEF Due, SameReading
<1>2. Repeatable(d) => Repeatable(d)'
  BY DEF Repeatable, SameReading
<1>3. ASSUME Repeatable(d)', ~Repeatable(d) PROVE now < Due(d, 0)
  <2>1. PICK w \in late' : LeaseSpecToLeaderElectionRecord(w.spec) = observedRawRecord[d]
    BY <1>3 DEF Repeatable, SameReading
  <2>2. w = WriteOf(c) /\ IsWrite(c)
    BY <1>3, <2>1 DEF Repeatable
  <2>3. now < w.spec.renew + w.spec.secs * Second
    BY <2>2, WriteRuns
  <2> QED
    BY <2>1, <2>3, RepeatsEarly
<1> QED
  BY <1>1, <1>2, <1>3

\* A step of elector c leaves the tries of the others in time.
LEMMA RetryOthers ==
    ASSUME TimingInv, TimingInv', SafeTiming, NEW c \in Client, ElectorStep(c) \/ Die(c),
           UNCHANGED now, NEW d \in Client, d # c, ElectorInv(d),
           AcquireInv(d), WriteInv(d), StaleInv(d), TryInv(d), RetryInv(d)
    PROVE  AcquireInv(d)' /\ WriteInv(d)' /\ StaleInv(d)' /\ TryInv(d)' /\ RetryInv(d)'
<1>0. TypeOK /\ TypeOK' /\ InterfaceTypeOK
  BY DEF TimingInv, SafetyInv, TypeOK
<1>1. /\ SameElector(d) /\ call'[d] = call[d] /\ held'[d] = held[d] /\ lease' = lease
      /\ faults' \in {faults, faults + 1} /\ faults \in Nat
      /\ late' = late \/ (late' = late \cup {WriteOf(c)} /\ IsWrite(c))
  BY <1>0, LockAfterStep
<1>2. /\ Candidate(d)' <=> Candidate(d)
      /\ AcquireInv(d)'
      /\ \A n : Due(d, n)' = Due(d, n)
      /\ \A n : Candidate(d) /\ StartsBy(d, n) => StartsBy(d, n)'
  BY <1>0, <1>1, CandidateStays
<1>3. WriteInv(d)'
  BY <1>1 DEF WriteInv, SameElector
<1>4. TryInv(d)'
  BY <1>1, <1>2 DEF TryInv, SameElector
<1>5. StaleInv(d)'
  <2>1. ASSUME HasRead(d), IsWrite(c)
        PROVE  /\ WriteOf(c).client # d
               /\ TryStart(d) < WriteOf(c).spec.renew + WriteOf(c).spec.secs * Second
    <3>1. WriteOf(c).client = c
      BY DEF WriteOf
    <3>2. TryStart(d) \in Nat /\ TryStart(d) <= now /\ now \in Nat
      BY <1>0, <2>1, LockAssumption
         DEF HasRead, TryStart, WriteInv, TypeOK, InterfaceTypeOK, Call, Record
    <3>3. now < WriteOf(c).spec.renew + WriteOf(c).spec.secs * Second
      BY <2>1, WriteRuns
    <3>4. WriteOf(c).spec.renew \in Nat /\ WriteOf(c).spec.secs * Second \in Nat
      <4>1. WriteOf(c).spec.renew \in Nat /\ WriteOf(c).spec.secs \in Nat
        BY <1>0, WriteOfType DEF Write, LeaseSpec
      <4> QED
        BY <4>1, K8sAssumption
    <3> QED
      BY <3>1, <3>2, <3>3, <3>4
  <2>2. (HasRead(d)' <=> HasRead(d)) /\ VersionRead(d)' = VersionRead(d) /\ Version' = Version
        /\ TryStart(d)' = TryStart(d)
    BY <1>1 DEF HasRead, VersionRead, Version, TryStart, SameElector
  <2> QED
    BY <1>1, <2>1, <2>2 DEF StaleInv
<1>6. RetryInv(d)'
  <2> SUFFICES ASSUME Candidate(d)' PROVE RetryInv(d)'
    BY DEF RetryInv
  <2>1. SameReading(d) /\ cancelled'[d] = cancelled[d]
    BY <1>1 DEF SameReading, SameElector
  <2>2. CASE cancelled[d]
    BY <1>2, <2>1, <2>2 DEF RetryInv
  <2>3. CASE ~cancelled[d] /\ now < Due(d, 0)'
    BY <1>0, <1>3, <1>4, <2>1, <2>3, EarlyRetry
  <2>4. CASE ~cancelled[d] /\ (Repeatable(d)' <=> Repeatable(d))
    <3>1. TriesNeeded(d)' = TriesNeeded(d)
      BY <1>1, <2>4 DEF TriesNeeded, ReadsAgain, HasRead, VersionRead, Version, Stored,
                        SameElector
    <3>2. PICK u \in {1, 2, 3} : TriesNeeded(d) = u
      BY TriesType
    <3>3. PICK f \in Nat : faults' = f /\ faults <= f
      BY <1>1
    <3>4. u + faults \in Nat /\ u + faults <= u + f
      BY <1>1, <3>3
    <3>5. StartsBy(d, u + faults)
      BY <1>2, <2>4, <3>2 DEF RetryInv
    <3>6. ASSUME NEW m \in Nat, m = u + faults PROVE StartsBy(d, m)'
      BY <1>2, <3>5, <3>6
    <3> QED
      BY <1>0, <2>1, <2>4, <3>1, <3>2, <3>3, <3>4, <3>6, TriesEnough
  <2> QED
    BY <1>1, <2>1, <2>2, <2>3, <2>4, LateAdded
<1> QED
  BY <1>2, <1>3, <1>4, <1>5, <1>6

\* The API server answers a Get.
LEMMA RetryGet ==
    ASSUME TimingInv, TimingInv', NEW c \in Client, GetAnswered(c),
           UNCHANGED <<now, cancelled, deadline, electorVars>>,
           NEW d \in Client, ElectorInv(d), StaleInv(d), TryInv(d), RetryInv(d)
    PROVE  StaleInv(d)' /\ TryInv(d)' /\ RetryInv(d)'
<1>0. /\ TypeOK /\ TypeOK' /\ InterfaceTypeOK /\ ObservedInv(d) /\ CallInv(d)
  BY DEF TimingInv, SafetyInv, ClientInv, TypeOK
<1>1. SameElector(d) /\ now' = now /\ UNCHANGED <<lease, held, late, faults>>
  BY DEF electorVars, observedVars, SameElector, GetAnswered, k8sVars
<1>2. /\ Candidate(d)' <=> Candidate(d)
      /\ \A n : Due(d, n)' = Due(d, n)
      /\ \A n : Candidate(d) /\ StartsBy(d, n) => StartsBy(d, n)'
  BY <1>0, <1>1, AnswersOnly, CandidateStays DEF ServerStep
<1>3. CASE d # c
  <2>1. call'[d] = call[d]
    BY <1>0, <1>3 DEF GetAnswered, Answer, InterfaceTypeOK
  <2>2. StaleInv(d)' /\ TryInv(d)'
    BY <1>1, <1>2, <2>1 DEF StaleInv, HasRead, VersionRead, Version, TryStart, TryInv, SameElector
  <2>3. TriesNeeded(d)' = TriesNeeded(d)
    BY <1>1, <2>1 DEF TriesNeeded, Repeatable, ReadsAgain, HasRead, VersionRead, Version, Stored,
                      SameElector
  <2> QED
    BY <1>1, <1>2, <2>2, <2>3 DEF RetryInv, SameElector, StartsBy
<1>4. CASE d = c
  <2>1. /\ call[d].op = "get" /\ call[d].st = "pending" /\ pc[d] = "get"
        /\ \/ /\ lease.exists /\ call'[d].st = "ok" /\ call'[d].rec = Stored
              /\ call'[d].ver = lease.rv
           \/ ~lease.exists /\ call'[d].st = "notexist"
        /\ call'[d].op = "get" /\ call'[d].at = call[d].at
    BY <1>0, <1>4 DEF GetAnswered, Answer, InterfaceTypeOK, TypeOK, ElectorTypeOK, PCs, CallInv
  <2>2. StaleInv(d)'
    BY <1>1, <2>1 DEF StaleInv, HasRead, VersionRead, Version, SameElector
  <2>3. Candidate(d) => lease.exists
    BY <1>0, LockAssumption DEF TryInv, ObservedInv
  <2>4. TryInv(d)'
    BY <1>1, <1>2, <2>1, <2>3 DEF TryInv, SameElector
  <2>5. Candidate(d) => TriesNeeded(d)' = TriesNeeded(d)
    BY <1>1, <2>1, <2>3 DEF TriesNeeded, Repeatable, ReadsAgain, HasRead, VersionRead, Version,
                            Stored, SameElector
  <2> QED
    BY <1>1, <1>2, <2>2, <2>4, <2>5 DEF RetryInv, SameElector, StartsBy
<1> QED
  BY <1>3, <1>4

\* The API server takes a write: it repeats what d has read only if a late one
\* could, or early.
LEMMA RetryStored ==
    ASSUME TimingInv, TimingInv', SafeTiming, MaxDeletes = 0,
           UNCHANGED <<now, cancelled, deadline, electorVars>>,
           NEW w, Store(w), UNCHANGED <<held, faults>>,
           \/ UNCHANGED call
           \/ \E c \in Client : \E rec, ver :
                IsWrite(c) /\ Answer(c, "ok", rec, ver) /\ rec = call[c].rec,
           NEW d \in Client, ElectorInv(d), WriteInv(d)', TryInv(d), RetryInv(d),
           LeaseSpecToLeaderElectionRecord(w.spec) = observedRawRecord[d] =>
             Repeatable(d) \/ now < Due(d, 0)
    PROVE  StaleInv(d)' /\ TryInv(d)' /\ RetryInv(d)'
<1>0. /\ TypeOK /\ TypeOK' /\ InterfaceTypeOK /\ ObservedInv(d) /\ GetInv(d)
      /\ lease.rv \in Nat /\ held[d] \in Nat /\ call[d].ver \in Nat
      /\ ElectorTypeOK /\ faults \in Nat
  BY K8sAssumption DEF TimingInv, SafetyInv, ClientInv, TypeOK, K8sTypeOK, InterfaceTypeOK, Call
<1>1. SameElector(d) /\ now' = now
  BY DEF electorVars, observedVars, SameElector
<1>2. /\ Candidate(d)' <=> Candidate(d)
      /\ \A n : Due(d, n)' = Due(d, n)
      /\ \A n : Candidate(d) /\ StartsBy(d, n) => StartsBy(d, n)'
  BY <1>0, <1>1, CandidateStays
<1>3. /\ late' = {} /\ lease'.exists /\ lease'.rv = lease.rv + 1 /\ lease'.spec = w.spec
      /\ Version' = lease.rv + 1
  BY StoreClears
<1>4. /\ pc[d] = "get" => call'[d] = call[d]
      /\ pc[d] = "set" => call'[d].op = call[d].op /\ call'[d].rec = call[d].rec
  BY <1>0 DEF Answer, IsWrite, InterfaceTypeOK, ElectorInv, CallMatches
<1>5. StaleInv(d)' /\ ~Repeatable(d)'
  BY <1>3 DEF StaleInv, Repeatable
<1>6. TryInv(d)'
  BY <1>1, <1>2, <1>4 DEF TryInv, SameElector
<1>7. RetryInv(d)'
  <2> SUFFICES ASSUME Candidate(d)' PROVE RetryInv(d)'
    BY DEF RetryInv
  <2>1. SameReading(d) /\ cancelled'[d] = cancelled[d]
    BY <1>1 DEF SameReading, SameElector
  <2>2. CASE cancelled[d]
    BY <1>1, <1>2, <2>1, <2>2 DEF RetryInv
  <2>3. CASE ~cancelled[d] /\ now < Due(d, 0)
    BY <1>0, <1>1, <1>2, <1>6, <2>1, <2>3, EarlyRetry
  <2>4. CASE ~cancelled[d] /\ ~(now < Due(d, 0))
    <3>1. PICK u \in {1, 2, 3} : TriesNeeded(d) = u
      BY TriesType
    <3>2. PICK v \in {1, 2, 3} : TriesNeeded(d)' = v
      BY TriesType
    <3>3. u <= v
      <4>1. CASE Stored' = observedRawRecord[d]
        <5>1. Repeatable(d)
          BY <1>3, <2>4, <4>1 DEF Stored
        <5> QED
          BY <3>1, <3>2, <5>1 DEF TriesNeeded
      <4>2. CASE Stored' # observedRawRecord[d]
        <5>1. ReadsAgain(d)' <=> ReadsAgain(d)
          BY <1>1, <1>4 DEF ReadsAgain, HasRead, SameElector
        <5>2. v = IF ReadsAgain(d) THEN 2 ELSE 3
          BY <1>1, <1>5, <3>2, <4>2, <5>1 DEF TriesNeeded, SameElector
        <5> QED
          BY <3>1, <5>2 DEF TriesNeeded
      <4> QED
        BY <4>1, <4>2
    <3>4. StartsBy(d, u + faults)
      BY <1>2, <2>4, <3>1 DEF RetryInv
    <3>5. ASSUME NEW m \in Nat, m = u + faults, NEW f \in Nat, f = faults PROVE RetryInv(d)'
      <4>1. StartsBy(d, m)'
        BY <1>2, <3>4, <3>5
      <4>2. m <= v + f /\ faults' = f
        BY <3>3, <3>5
      <4> QED
        BY <1>0, <2>1, <2>4, <3>2, <4>1, <4>2, TriesEnough
    <3> QED
      BY <1>0, <3>5
  <2> QED
    BY <2>2, <2>3, <2>4
<1> QED
  BY <1>5, <1>6, <1>7

\* The API server leaves the tries of a candidate in time.
LEMMA RetryServer ==
    ASSUME TimingInv, TimingInv', SafeTiming, MaxDeletes = 0,
           UNCHANGED <<now, cancelled, deadline, electorVars>>,
           (\E c \in Client : ServerStep(c)) \/ (\E w \in late : LateWrite(w)),
           NEW d \in Client, ElectorInv(d),
           AcquireInv(d), WriteInv(d), StaleInv(d), TryInv(d), RetryInv(d)
    PROVE  AcquireInv(d)' /\ WriteInv(d)' /\ StaleInv(d)' /\ TryInv(d)' /\ RetryInv(d)'
<1>0. TypeOK /\ InterfaceTypeOK /\ now \in Nat /\ call[d].at \in Nat
  BY LockAssumption DEF TimingInv, SafetyInv, TypeOK, InterfaceTypeOK, Call
<1>1. SameElector(d)
  BY DEF electorVars, observedVars, SameElector
<1>2. \/ UNCHANGED call
      \/ \E c \in Client : \E st, rec, ver :
           Answer(c, st, rec, ver) /\ (IsWrite(c) => rec = call[c].rec)
  BY AnswersOnly
<1>3. AcquireInv(d)'
  BY <1>0, <1>1, <1>2, CandidateStays
<1>4. WriteInv(d)'
  <2>1. pc'[d] = pc[d] /\ now' = now /\ now <= now
    BY <1>0, <1>1 DEF SameElector
  <2> QED
    BY <1>0, <1>2, <2>1, WriteKept
<1>5. ASSUME NEW c \in Client, WriteAccepted(c) PROVE StaleInv(d)' /\ TryInv(d)' /\ RetryInv(d)'
  <2>1. /\ IsWrite(c) /\ Store(WriteOf(c)) /\ Answer(c, "ok", call[c].rec, lease.rv + 1)
        /\ UNCHANGED <<held, faults>>
    BY <1>5 DEF WriteAccepted
  <2>2. LeaseSpecToLeaderElectionRecord(WriteOf(c).spec) = observedRawRecord[d]
          => now < Due(d, 0)
    BY <2>1, WriteRuns, RepeatsEarly
  <2> QED
    BY <1>4, <2>1, <2>2, RetryStored
<1>6. ASSUME NEW w \in late, LateWrite(w) PROVE StaleInv(d)' /\ TryInv(d)' /\ RetryInv(d)'
  <2>1. Store(w) /\ UNCHANGED <<held, faults>> /\ UNCHANGED call
    BY <1>6 DEF LateWrite
  <2>2. LeaseSpecToLeaderElectionRecord(w.spec) = observedRawRecord[d] => Repeatable(d)
    BY DEF Repeatable
  <2> QED
    BY <1>4, <2>1, <2>2, RetryStored
<1> QED
  BY <1>3, <1>4, <1>5, <1>6, RetryGet DEF ServerStep

\* So does the clock.
LEMMA RetryTick ==
    ASSUME TimingInv, Tick, NEW d \in Client, ElectorInv(d),
           AcquireInv(d), WriteInv(d), StaleInv(d), TryInv(d), RetryInv(d)
    PROVE  AcquireInv(d)' /\ WriteInv(d)' /\ StaleInv(d)' /\ TryInv(d)' /\ RetryInv(d)'
<1>0. /\ TypeOK /\ InterfaceTypeOK /\ ElectorTypeOK /\ NoTimerDue(d) /\ CallMayWait(d)
      /\ now' = now + 1 /\ now \in Nat /\ call[d].at \in Nat /\ call' = call
      /\ UNCHANGED <<lease, held, late, faults>>
  BY LockAssumption DEF TimingInv, SafetyInv, TypeOK, Tick, InterfaceTypeOK, Call, k8sVars
<1>1. SameElector(d)
  BY DEF Tick, electorVars, observedVars, SameElector
<1>2. /\ Candidate(d)' <=> Candidate(d)
      /\ AcquireInv(d)'
      /\ \A n : Due(d, n)' = Due(d, n)
      /\ \A n : Candidate(d) /\ StartsBy(d, n) => StartsBy(d, n)'
  BY <1>0, <1>1, CandidateStays
<1>3. WriteInv(d)'
  <2>1. pc'[d] = pc[d] /\ now' \in Nat /\ now <= now'
    BY <1>0, <1>1 DEF SameElector
  <2> QED
    BY <1>0, <2>1, WriteKept
<1>4. StaleInv(d)'
  BY <1>0, <1>1 DEF StaleInv, HasRead, VersionRead, Version, TryStart, SameElector
<1>5. TryInv(d)'
  <2>1. wake[d] <= now + RetryPause => wake[d] <= (now + 1) + RetryPause
    BY <1>0, RetryTimeType DEF ElectorTypeOK
  <2> QED
    BY <1>0, <1>1, <1>2, <2>1 DEF TryInv, SameElector
<1>6. RetryInv(d)'
  <2>1. Candidate(d) => ~cancelled[d]
    BY <1>0, CandidateFrozen
  <2>2. TriesNeeded(d)' = TriesNeeded(d)
    BY <1>0, <1>1 DEF TriesNeeded, Repeatable, ReadsAgain, HasRead, VersionRead, Version, Stored,
                      SameElector
  <2> QED
    BY <1>0, <1>1, <1>2, <2>1, <2>2 DEF RetryInv, SameElector, StartsBy
<1> QED
  BY <1>2, <1>3, <1>4, <1>5, <1>6

\* A step of its own keeps the version that the try of c has read, or ends the try.
LEMMA StaleElector ==
    ASSUME TimingInv, NEW c \in Client, ElectorStep(c) \/ Die(c), UNCHANGED now,
           ElectorInv(c), StaleInv(c)
    PROVE  StaleInv(c)'
<1>t. /\ pc \in [Client -> PCs] /\ call \in [Client -> Call] /\ held \in [Client -> Nat]
  BY DEF TimingInv, SafetyInv, TypeOK, InterfaceTypeOK, ElectorTypeOK, K8sTypeOK
<1>1. CASE Proceed(c) /\ UNCHANGED k8sVars
  <2>1. CASE Cancel(c)
    BY <1>1, <2>1 DEF Cancel, k8sVars, StaleInv, HasRead, VersionRead, Version, TryStart
  <2>2. CASE StartTry(c) \/ StartRound(c) \/ PollTick(c)
    BY <1>t, <2>2 DEF StartTry, StartRound, PollTick, Invoke, StaleInv, HasRead
  <2>3. CASE Run(c) \/ StopAcquiring(c) \/ StopBetweenRounds(c) \/ StopPolling(c)
    BY <1>t, <2>3 DEF Run, StopAcquiring, StopBetweenRounds, StopPolling, LeaveRenew, StaleInv,
                      HasRead
  <2> QED
    BY <1>1, <2>1, <2>2, <2>3 DEF Proceed
<1>2. CASE Resume(c) /\ Returns(c)
  <2>1. CASE TakeOrRenew(c)
    <3>1. /\ pc[c] = "get" /\ call[c].st = "ok" /\ pc'[c] = "set" /\ call'[c].rec.renew = call[c].at
          /\ held'[c] = call[c].ver /\ lease' = lease /\ late' = late
      BY <1>t, <1>2, <2>1 DEF TakeOrRenew, Returns, Invoke, NewRecord
    <3>2. HasRead(c) /\ VersionRead(c)' = VersionRead(c) /\ TryStart(c)' = TryStart(c)
          /\ Version' = Version
      BY <3>1 DEF HasRead, VersionRead, TryStart, Version
    <3> QED
      BY <3>1, <3>2 DEF StaleInv
  <2>2. CASE CreateRecord(c)
    BY <1>t, <2>2 DEF CreateRecord, Invoke, StaleInv, HasRead
  <2>3. CASE LeaseHeld(c) \/ SetSucceeds(c) \/ ReleaseSucceeds(c)
    BY <1>t, <2>3 DEF LeaseHeld, TryFails, SetSucceeds, ReleaseSucceeds, ReleaseEnds, StaleInv,
                      HasRead
  <2> QED
    BY <1>2, <2>1, <2>2, <2>3 DEF Resume
<1>3. CASE Fail(c) \/ Crash(c)
  BY <1>t, <1>3 DEF Fail, CallFails, ReleaseFails, ReleaseEnds, TryFails, Crash, StaleInv, HasRead
<1> QED
  BY <1>1, <1>2, <1>3 DEF ElectorStep, Die

\* What a candidate has read and is about to write, after a step of its own.
LEMMA TryElector ==
    ASSUME TimingInv, NEW c \in Client, ElectorStep(c) \/ Die(c), UNCHANGED now,
           ElectorInv(c), AcquireInv(c), AcquireInv(c)', TryInv(c)
    PROVE  TryInv(c)'
<1>0. InterfaceTypeOK /\ ElectorTypeOK /\ GetInv(c)
  BY DEF TimingInv, SafetyInv, ClientInv, TypeOK
<1>t. /\ pc \in [Client -> PCs] /\ call \in [Client -> Call] /\ now \in Nat
      /\ observedTime \in [Client -> Nat] /\ observedRawRecord \in [Client -> Record]
      /\ call[c].rec \in Record
  BY <1>0, LockAssumption DEF InterfaceTypeOK, ElectorTypeOK, Call
<1> SUFFICES ASSUME Candidate(c)' PROVE TryInv(c)'
  BY DEF TryInv
<1>1. ASSUME Fail(c) \/ Crash(c) PROVE TryInv(c)'
  <2>1. Candidate(c) /\ Pauses(c) /\ SameReading(c)
    BY <1>0, <1>1, CandidateFails
  <2> QED
    BY <2>1 DEF TryInv, Pauses, SameReading
<1>2. ASSUME Proceed(c) \/ Resume(c) PROVE TryInv(c)'
  <2>1. ASSUME SameReading(c), pc[c] \in {"wait", "get", "set"}, ~inRenew[c] PROVE Candidate(c)
    BY <2>1 DEF Candidate, SameReading
  <2>2. ASSUME Reads(c), pc[c] = "get", call[c].st = "ok"
        PROVE  observedRawRecord'[c] = call[c].rec /\ observedRawRecord'[c].holder \in Client
    <3>1. call[c].op = "get"
      BY <1>0, <2>2 DEF ElectorInv, CallMatches
    <3> QED
      BY <1>0, <2>2, <3>1 DEF Reads, SameReading, GetInv
  <2>3. CASE Cancel(c) /\ SameReading(c) /\ pc'[c] = pc[c] /\ wake'[c] = wake[c]
             /\ call'[c] = call[c]
    <3>1. Candidate(c) /\ Due(c, 0)' = Due(c, 0)
      BY <2>3 DEF Candidate, SameReading, Due, Cancel
    <3> QED
      BY <2>3, <3>1 DEF TryInv, SameReading
  <2>4. CASE StartTry(c) /\ SameReading(c) /\ pc[c] = "wait" /\ pc'[c] = "get"
             /\ call'[c].st = "pending"
    <3>1. Candidate(c)
      BY <2>4 DEF Candidate, SameReading, StartTry
    <3> QED
      BY <2>4, <3>1 DEF TryInv, SameReading
  <2>5. CASE LeaseHeld(c) /\ Pauses(c) /\ Reads(c) /\ pc[c] = "get" /\ call[c].st = "ok"
    BY <2>2, <2>5 DEF TryInv, Pauses
  <2>6. CASE CreateRecord(c) /\ Writes(c) /\ SameReading(c) /\ call[c].st = "notexist"
    <3>1. Candidate(c) /\ pc[c] = "get"
      BY <1>2, <2>6 DEF Candidate, SameReading, CreateRecord
    <3> QED
      BY <2>6, <3>1 DEF TryInv
  <2>7. CASE TakeOrRenew(c) /\ Writes(c) /\ Reads(c) /\ call[c].st = "ok"
    <3>1. /\ pc[c] = "get" /\ pc'[c] = "set" /\ call'[c].rec.renew = call[c].at
          /\ call'[c].op = "update"
      BY <1>t, <2>7 DEF Writes, TakeOrRenew, Invoke
    <3>2. observedRawRecord'[c] = call[c].rec /\ observedRawRecord'[c].holder \in Client
      BY <2>2, <2>7, <3>1
    <3>3. observedRecord'[c] = observedRawRecord'[c]
      BY DEF AcquireInv, Candidate
    <3>4. \/ observedTime'[c] + call[c].rec.dur <= call[c].at
          \/ observedRawRecord'[c].holder = c
      <4>1. observedTime'[c] \in Nat
        BY <1>t, <2>7 DEF Reads, SameReading
      <4>2. call[c].rec.dur \in Nat /\ call[c].at \in Nat
        BY <1>t DEF Record, Call
      <4> QED
        BY <2>7, <3>2, <3>3, <4>1, <4>2, LockAssumption DEF TakeOrRenew, HeldByOther
    <3>5. Due(c, 0)' = observedTime'[c] + call[c].rec.dur
      <4>1. observedTime'[c] \in Nat /\ call[c].rec.dur \in Nat
        BY <1>t, <2>7 DEF Reads, SameReading, Record
      <4> QED
        BY <3>2, <4>1, RetryTimeType DEF Due
    <3> QED
      BY <3>1, <3>2, <3>4, <3>5 DEF TryInv
  <2> QED
    BY <1>0, <1>2, <2>3, <2>4, <2>5, <2>6, <2>7, CandidateSteps
<1> QED
  BY <1>1, <1>2 DEF ElectorStep, Die

\* A candidate that tries in time is not stuck.
LEMMA RetriesInTime ==
    ASSUME TimingInv, NEW c \in Client, ElectorInv(c), TimelyInv(c), WriteInv(c), TryInv(c),
           RetryInv(c), Candidate(c)
    PROVE  now <= Due(c, 3 + MaxFaults)
<1>0. /\ InterfaceTypeOK /\ ElectorTypeOK /\ faults \in Nat /\ MaxFaults \in Nat
      /\ faults <= MaxFaults /\ now \in Nat
  BY K8sAssumption, LockAssumption
     DEF TimingInv, SafetyInv, TypeOK, K8sTypeOK, InterfaceTypeOK
<1>1. PICK u \in {1, 2, 3} : TriesNeeded(c) = u
  BY TriesType
<1>2. CASE cancelled[c]
  BY <1>2 DEF RetryInv
<1>3. CASE ~cancelled[c]
  <2>1. u + faults \in Nat /\ StartsBy(c, u + faults)
    BY <1>0, <1>1, <1>3 DEF RetryInv
  <2>2. /\ now <= Due(c, u + faults + 1)
        /\ pc[c] \in {"wait", "get"} => now <= Due(c, u + faults)
    BY <1>0, <2>1, CandidateInTime
  <2>3. pc[c] = "set" => u <= 2
    BY <1>1, TriesType DEF TryInv
  <2>4. ASSUME NEW n \in Nat, n <= 3 + MaxFaults, now <= Due(c, n)
        PROVE  now <= Due(c, 3 + MaxFaults)
    <3>1. 3 + MaxFaults \in Nat
      BY <1>0
    <3>2. Due(c, n) \in Nat /\ Due(c, 3 + MaxFaults) \in Nat /\ Due(c, n) <= Due(c, 3 + MaxFaults)
      BY <1>0, <2>4, <3>1, DueGrows, Zenon
    <3> QED
      BY <1>0, <2>4, <3>2
  <2>5. CASE pc[c] = "set"
    <3>1. u + faults + 1 \in Nat /\ u + faults + 1 <= 3 + MaxFaults
      BY <1>0, <2>3, <2>5
    <3> QED
      BY <2>2, <2>4, <3>1
  <2>6. CASE pc[c] \in {"wait", "get"}
    <3>1. u + faults <= 3 + MaxFaults
      BY <1>0
    <3> QED
      BY <2>1, <2>2, <2>4, <2>6, <3>1
  <2> QED
    BY <2>5, <2>6 DEF Candidate
<1> QED
  BY <1>2, <1>3

\* The call of a candidate fails: the Lease has changed since its Get, or the
\* call is lost.
LEMMA CandidateLoses ==
    ASSUME TimingInv, NEW c \in Client, ElectorInv(c), AcquireInv(c), StaleInv(c), TryInv(c),
           Candidate(c), ~cancelled[c], Fails(c)
    PROVE  \/ /\ faults' = faults /\ late' = late /\ pc[c] = "set" /\ call[c].op = "update"
              /\ held[c] # Version /\ ~Repeatable(c)
           \/ faults' = faults + 1
<1>0. TypeOK /\ LeaseInv /\ ObservedInv(c)
  BY DEF TimingInv, SafetyInv, ClientInv
<1>1. CASE Refused(c)
  <2>1. /\ IsWrite(c) /\ faults' = faults /\ late' = late
        /\ ~IsSent(c) \/ WriteOf(c).ver # Version
    BY <1>1 DEF Refused
  <2>2. pc[c] = "set" /\ call[c].op = "update"
    BY <2>1 DEF IsWrite, ElectorInv, CallMatches, Candidate, TryInv
  <2>3. lease.exists /\ lease.rv >= 1 /\ lease.rv \in Nat
    BY <1>0, LockAssumption DEF TryInv, ObservedInv, LeaseInv, TypeOK, K8sTypeOK
  <2>4. held[c] # Version
    BY <2>1, <2>2, <2>3 DEF IsSent, WriteOf, Version
  <2> QED
    BY <2>1, <2>2, <2>4, StaleNotRepeated
<1>2. ~ContextEnds(c)
  <2>1. now \in Nat /\ now < Never /\ Never \in Nat
    BY <1>0, LockAssumption DEF TypeOK, InterfaceTypeOK, Never
  <2> QED
    BY <2>1 DEF ContextEnds, CallCtxDone, CtxDone, AcquireInv, Candidate
<1> QED
  BY <1>1, <1>2 DEF Fails, Lost

\* A candidate still tries in time after a step of its own.
LEMMA RetryElector ==
    ASSUME TimingInv, TimingInv', SafeTiming, NEW c \in Client, ElectorStep(c) \/ Die(c),
           UNCHANGED now, ElectorInv(c), TimelyInv(c), AcquireInv(c), WriteInv(c), WriteInv(c)',
           StaleInv(c), TryInv(c), TryInv(c)', RetryInv(c)
    PROVE  RetryInv(c)'
<1>0. /\ InterfaceTypeOK /\ ElectorTypeOK /\ TypeOK /\ TypeOK' /\ ElectorTypeOK'
      /\ faults \in Nat /\ MaxFaults \in Nat
  BY K8sAssumption DEF TimingInv, SafetyInv, TypeOK, K8sTypeOK
<1> SUFFICES ASSUME Candidate(c)' PROVE RetryInv(c)'
  BY DEF RetryInv
<1>s. Proceed(c) \/ Resume(c) \/ Fail(c) \/ Crash(c)
  BY DEF ElectorStep, Die
<1>k. /\ lease' = lease /\ faults' \in {faults, faults + 1}
      /\ late' = late \/ (late' = late \cup {WriteOf(c)} /\ IsWrite(c))
  BY <1>0, LockAfterStep
<1>u. PICK u \in {1, 2, 3} : TriesNeeded(c) = u
  BY TriesType
<1>v. PICK v \in {1, 2, 3} : TriesNeeded(c)' = v
  BY TriesType
<1>f. PICK f \in Nat : faults' = f
  BY <1>0, <1>k
<1>1. CASE cancelled'[c]
  <2>1. ASSUME NEW n \in Nat, n = 3 + MaxFaults PROVE now <= Due(c, n)'
    BY <1>0, <1>s, <2>1, CandidateNotLater, RetriesInTime
  <2> QED
    BY <1>0, <1>1, <2>1 DEF RetryInv
<1>2. CASE ~cancelled'[c]
  <2>1. ~cancelled[c]
    BY <1>0, <1>s, <1>2, CandidateSteps, CandidateFails
  <2>2. Candidate(c) => StartsBy(c, u + faults)
    BY <1>u, <2>1 DEF RetryInv
  <2>3. ASSUME NEW m \in Nat, m <= v + f, StartsBy(c, m)' PROVE RetryInv(c)'
    BY <1>0, <1>2, <1>v, <1>f, <2>3, TriesEnough
  <2>4. CASE (Proceed(c) /\ UNCHANGED k8sVars) \/ (Resume(c) /\ Returns(c))
    <3>1. CASE StartsBy(c, 1)'
      BY <2>3, <3>1
    <3>2. CASE ~StartsBy(c, 1)'
      <4>1. Candidate(c) /\ SameReading(c) /\ TryStart(c)' = TryStart(c)
        BY <1>0, <2>4, <3>2, CandidateGoesOn
      <4>2. faults' = faults /\ late' = late
        BY <2>4 DEF k8sVars, Returns
      <4>3. \/ /\ StartTry(c) /\ pc[c] = "wait" /\ pc'[c] = "get" /\ call'[c].st = "pending"
            \/ /\ TakeOrRenew(c) /\ Writes(c) /\ Reads(c) /\ call[c].st = "ok"
        <5>1. ~Cancel(c)
          BY <1>0, <1>2 DEF Cancel, InterfaceTypeOK
        <5>2. ~LeaseHeld(c) \/ ~Pauses(c) \/ pc[c] # "get"
          BY <1>0, <2>4, <3>2, CandidateGoesOn DEF Pauses
        <5>3. ~CreateRecord(c)
          BY <4>1 DEF TryInv, CreateRecord
        <5> QED
          BY <1>0, <2>4, <5>1, <5>2, <5>3, CandidateSteps
      <4>4. TriesNeeded(c)' = TriesNeeded(c)
        <5>1. /\ Repeatable(c)' <=> Repeatable(c)
              /\ Version' = Version /\ Stored' = Stored
          BY <1>k, <4>1, <4>2 DEF Repeatable, SameReading, Version, Stored
        <5>2. CASE StartTry(c) /\ pc[c] = "wait" /\ pc'[c] = "get" /\ call'[c].st = "pending"
          BY <4>1, <5>1, <5>2 DEF TriesNeeded, ReadsAgain, HasRead, SameReading
        <5>3. CASE TakeOrRenew(c) /\ Writes(c) /\ Reads(c) /\ call[c].st = "ok"
          <6>1. /\ pc[c] = "get" /\ pc'[c] = "set" /\ call'[c].op = "update"
                /\ call[c].rec = observedRawRecord[c]
            BY <1>0, <4>1, <5>3
               DEF Writes, TakeOrRenew, Invoke, Reads, SameReading, InterfaceTypeOK
          <6>2. held'[c] = call[c].ver
            <7>1. ~Proceed(c)
              BY <1>0, <6>1 DEF Proceed, Run, StartTry, StartRound, PollTick, StopAcquiring,
                                StopBetweenRounds, StopPolling, Cancel, ElectorTypeOK
            <7> QED
              BY <1>0, <2>4, <5>3, <7>1 DEF Returns, TypeOK, K8sTypeOK
          <6>3. ReadsAgain(c) /\ ReadsAgain(c)' /\ VersionRead(c)' = VersionRead(c)
            BY <5>3, <6>1, <6>2 DEF ReadsAgain, HasRead, VersionRead
          <6> QED
            BY <4>1, <5>1, <6>3 DEF TriesNeeded, SameReading
        <5> QED
          BY <4>3, <5>2, <5>3
      <4>5. u = v /\ f = faults
        BY <1>u, <1>v, <1>f, <4>2, <4>4
      <4>6. ASSUME NEW m \in Nat, m = u + faults PROVE StartsBy(c, m)'
        BY <2>2, <4>1, <4>6 DEF StartsBy, Due, SameReading
      <4>7. u + faults \in Nat /\ u + faults <= v + f
        BY <1>0, <4>5
      <4> QED
        BY <2>3, <4>6, <4>7
    <3> QED
      BY <3>1, <3>2
  <2>5. CASE Fail(c) /\ Fails(c)
    <3>1. Candidate(c) /\ Pauses(c) /\ SameReading(c)
      BY <1>0, <2>5, CandidateFails
    <3>2. ASSUME NEW n \in Nat, n = u + faults PROVE StartsBy(c, n + 1)'
      BY <1>0, <2>2, <2>5, <3>1, <3>2, CandidateRetries
    <3>3. CASE now < Due(c, 0)'
      BY <1>0, <1>2, <3>3, EarlyRetry
    <3>4. CASE ~(now < Due(c, 0)')
      <4>1. (Repeatable(c)' <=> Repeatable(c)) /\ Stored' = Stored
        BY <1>k, <3>1, <3>4, LateAdded DEF Stored
      <4>2. v = IF Repeatable(c) THEN 1 ELSE IF Stored = observedRawRecord[c] THEN 2 ELSE 3
        BY <1>v, <3>1, <4>1 DEF TriesNeeded, ReadsAgain, HasRead, Pauses, SameReading
      <4>3. u <= v
        BY <1>u, <4>2 DEF TriesNeeded
      <4>4. u + faults + 1 <= v + f
        <5>1. CASE faults' = faults + 1
          BY <1>0, <1>f, <4>3, <5>1
        <5>2. CASE faults' = faults /\ pc[c] = "set" /\ call[c].op = "update"
                   /\ held[c] # Version /\ ~Repeatable(c)
          <6>1. u = IF Stored = observedRawRecord[c] THEN 1 ELSE 2
            BY <1>u, <5>2 DEF TriesNeeded, ReadsAgain, HasRead, VersionRead
          <6> QED
            BY <1>0, <1>f, <4>2, <5>2, <6>1
        <5> QED
          BY <2>1, <2>5, <3>1, <5>1, <5>2, CandidateLoses
      <4>5. ASSUME NEW m \in Nat, m = u + faults + 1 PROVE StartsBy(c, m)'
        <5>1. ASSUME NEW n \in Nat, n = u + faults PROVE StartsBy(c, m)'
          <6>1. m = n + 1
            BY <1>0, <4>5, <5>1
          <6> QED
            BY <3>2, <5>1, <6>1
        <5>2. u + faults \in Nat
          BY <1>0
        <5> QED
          BY <5>1, <5>2
      <4>6. u + faults + 1 \in Nat
        BY <1>0
      <4> QED
        BY <2>3, <4>4, <4>5, <4>6
    <3> QED
      BY <3>3, <3>4
  <2>6. ~Die(c)
    BY <1>0 DEF Die, Crash, Candidate, ElectorTypeOK
  <2> QED
    BY <2>4, <2>5, <2>6 DEF ElectorStep
<1> QED
  BY <1>1, <1>2

\* Every step preserves CandidatesInv.
LEMMA CandidatesStep ==
    ASSUME CandidatesInv, SafeTiming, MaxDeletes = 0, [Next]_vars
    PROVE  CandidatesInv'
<1>0. /\ TimingInv /\ TypeOK /\ InterfaceTypeOK /\ ElectorTypeOK
      /\ \A c \in Client : /\ ElectorInv(c) /\ TimelyInv(c) /\ AcquireInv(c) /\ WriteInv(c)
                           /\ StaleInv(c) /\ TryInv(c) /\ RetryInv(c)
  BY DEF CandidatesInv, TimingInv, SafetyInv, TypeOK
<1>1. TimingInv' /\ LocalInv'
  BY <1>0, TimingStep, LocalStep DEF LocalInv
<1> SUFFICES \A d \in Client :
               AcquireInv(d)' /\ WriteInv(d)' /\ StaleInv(d)' /\ TryInv(d)' /\ RetryInv(d)'
  BY <1>1 DEF CandidatesInv, LocalInv
<1>2. CASE Tick
  BY <1>0, <1>2, RetryTick
<1>3. CASE UNCHANGED vars
  BY <1>0, <1>3
     DEF vars, interfaceVars, electorVars, observedVars, k8sVars, AcquireInv, WriteInv, StaleInv,
         TryInv, RetryInv, Candidate, HasRead, VersionRead, Version, TryStart, StartsBy, Due,
         TriesNeeded, Repeatable, ReadsAgain, Stored
<1>4. ASSUME NEW c \in Client, ElectorStep(c) \/ Die(c), UNCHANGED now, NEW d \in Client
      PROVE  AcquireInv(d)' /\ WriteInv(d)' /\ StaleInv(d)' /\ TryInv(d)' /\ RetryInv(d)'
  <2>1. CASE d # c
    BY <1>0, <1>1, <1>4, <2>1, RetryOthers
  <2>2. CASE d = c
    <3>1. Proceed(c) \/ Resume(c) \/ Fail(c) \/ Crash(c)
      BY <1>4 DEF ElectorStep, Die
    <3>2. AcquireInv(c)' /\ WriteInv(c)'
      BY <1>0, <1>4, <3>1, AcquireStep, WriteStep
    <3>3. StaleInv(c)' /\ TryInv(c)'
      BY <1>0, <1>4, <3>2, StaleElector, TryElector
    <3>4. RetryInv(c)'
      BY <1>0, <1>1, <1>4, <3>2, <3>3, RetryElector
    <3> QED
      BY <2>2, <3>2, <3>3, <3>4
  <2> QED
    BY <2>1, <2>2
<1>5. ASSUME (\E c \in Client : ServerStep(c)) \/ (\E w \in late : LateWrite(w)),
             UNCHANGED <<now, cancelled, deadline, electorVars>>
      PROVE  \A d \in Client :
               AcquireInv(d)' /\ WriteInv(d)' /\ StaleInv(d)' /\ TryInv(d)' /\ RetryInv(d)'
  BY <1>0, <1>1, <1>5, RetryServer
<1>6. ~DeleteLease
  BY <1>0 DEF DeleteLease, TypeOK, K8sTypeOK
<1> QED
  BY <1>2, <1>3, <1>4, <1>5, <1>6 DEF Next

\* Initially no one is a candidate.
LEMMA CandidatesInit ==
    ASSUME Init PROVE CandidatesInv
<1>1. TimingInv
  BY TimingInit
<1>2. ASSUME NEW c \in Client PROVE ElectorInv(c) /\ TimelyInv(c)
  BY ElectorInvInit DEF Init
<1>3. ASSUME NEW c \in Client PROVE ~Candidate(c) /\ ~HasRead(c) /\ AcquireInv(c) /\ WriteInv(c)
  BY DEF Init, InterfaceInit, ElectorInit, Idle, Candidate, HasRead, AcquireInv, WriteInv
<1> QED
  BY <1>1, <1>2, <1>3 DEF CandidatesInv, StaleInv, TryInv, RetryInv

\* The tries of every candidate start in time, for any number of clients and of
\* failures, when the Lease is not deleted and outlasts its leader.
THEOREM CandidatesInvariant == SafeTiming /\ MaxDeletes = 0 => (Spec => []CandidatesInv)
<1> SUFFICES ASSUME SafeTiming, MaxDeletes = 0 PROVE Spec => []CandidatesInv
  OBVIOUS
<1>1. Init => CandidatesInv
  BY CandidatesInit
<1>2. CandidatesInv /\ [Next]_vars => CandidatesInv'
  BY CandidatesStep
<1> QED
  BY <1>1, <1>2, PTL DEF Spec

\* A candidate has taken the lease, or observed another record, three retries
\* after the record it has read is over, and one more for each lost call:
\* tryAcquireOrRenew does not stay behind a record that no one renews.
THEOREM CandidateMovesOn == SafeTiming /\ MaxDeletes = 0 => (Spec => []CandidateNotStuck)
<1> SUFFICES ASSUME SafeTiming, MaxDeletes = 0 PROVE Spec => []CandidateNotStuck
  OBVIOUS
<1>1. Spec => []CandidatesInv
  BY CandidatesInvariant
<1>2. CandidatesInv => CandidateNotStuck
  <2> SUFFICES ASSUME CandidatesInv, NEW c \in Client, StuckFor(c, 3 + MaxFaults + MaxDeletes)
               PROVE  FALSE
    BY DEF CandidateNotStuck
  <2>1. Candidate(c)
    BY DEF StuckFor, Candidate
  <2>2. now <= Due(c, 3 + MaxFaults)
    BY <2>1, RetriesInTime DEF CandidatesInv
  <2>3. 3 + MaxFaults + MaxDeletes = 3 + MaxFaults
    BY K8sAssumption
  <2>4. now > Due(c, 3 + MaxFaults)
    BY <2>3 DEF StuckFor, Due, RetryTime, RetryPause
  <2>5. now \in Nat /\ Due(c, 3 + MaxFaults) \in Nat
    BY DueGrows, K8sAssumption, LockAssumption
       DEF CandidatesInv, TimingInv, SafetyInv, TypeOK, InterfaceTypeOK
  <2> QED
    BY <2>2, <2>4, <2>5
<1> QED
  BY <1>1, <1>2, PTL
=============================================================================
