--------------------------- MODULE ElectorProofs ----------------------------
(***************************************************************************)
(* What the elector's own steps preserve, over any lock: its types, and    *)
(* the invariants of ElectorInv.  Each election adds what its lock does.   *)
(***************************************************************************)
EXTENDS ElectorInv, TLAPS

\* The initial state of the interface and of the electors is well typed.
LEMMA ElectorTypeInit == InterfaceInit /\ ElectorInit => InterfaceTypeOK /\ ElectorTypeOK
<1> SUFFICES ASSUME InterfaceInit, ElectorInit PROVE InterfaceTypeOK /\ ElectorTypeOK
  OBVIOUS
<1>1. ZeroRecord \in Record /\ Idle \in Call
  BY DEF ZeroRecord, Record, Idle, Call
<1>2. InterfaceTypeOK
  BY <1>1, LockAssumption DEF InterfaceInit, InterfaceTypeOK, Never
<1>3. ElectorTypeOK
  BY <1>1, ElectorAssumption DEF ElectorInit, ElectorTypeOK, PCs
<1> QED
  BY <1>2, <1>3

\* The ticker of PollImmediateUntil fires at natural instants.
LEMMA NextTickType ==
    ASSUME InterfaceTypeOK, ElectorTypeOK, NEW c \in Client, NEW t \in NextTick(c) PROVE t \in Nat
<1>1. CASE deadline[c] = wake[c] + RenewDeadline
  BY <1>1, ElectorAssumption, LockAssumption DEF NextTick, InterfaceTypeOK
<1>2. CASE deadline[c] # wake[c] + RenewDeadline /\ now < wake[c]
  BY <1>2 DEF NextTick, ElectorTypeOK
<1>3. CASE deadline[c] # wake[c] + RenewDeadline /\ ~(now < wake[c])
  <2>1. t \in now .. now + RetryPeriod
    BY <1>3 DEF NextTick
  <2> QED
    BY <2>1, ElectorAssumption, LockAssumption DEF InterfaceTypeOK
<1> QED
  BY <1>1, <1>2, <1>3

\* A call that was answered is still a call.
LEMMA AnswerType ==
    ASSUME InterfaceTypeOK, ElectorTypeOK, NEW c \in Client, NEW st \in {"ok", "notexist"},
           NEW rec \in Record, NEW ver \in Nat, Answer(c, st, rec, ver)
    PROVE  call' \in [Client -> Call]
BY DEF InterfaceTypeOK, Answer, Call

\* A call that was invoked is a call.
LEMMA InvokeType ==
    ASSUME InterfaceTypeOK, ElectorTypeOK, NEW c \in Client,
           NEW op \in {"get", "create", "update", "release"}, NEW rec \in Record,
           Invoke(c, op, rec)
    PROVE  call' \in [Client -> Call]
BY DEF InterfaceTypeOK, Invoke, Call

\* A client that has no call waits for none.
LEMMA ReturnType ==
    ASSUME InterfaceTypeOK, ElectorTypeOK, NEW c \in Client, Return(c)
    PROVE  call' \in [Client -> Call]
BY DEF InterfaceTypeOK, Return, Call, Idle, ZeroRecord, Record

\* What has been observed is a Record, at some instant.
LEMMA ObserveType ==
    ASSUME InterfaceTypeOK, ElectorTypeOK, NEW c \in Client, NEW rec \in Record, Observe(c, rec)
    PROVE  /\ observedRecord' \in [Client -> Record]
           /\ observedRawRecord' \in [Client -> Record]
           /\ observedTime' \in [Client -> Nat]
BY LockAssumption
   DEF InterfaceTypeOK, ElectorTypeOK, Observe, SetObservedRecord, observedVars

\* A try that fails leaves the elector well typed.
LEMMA TryFailsType ==
    ASSUME InterfaceTypeOK, ElectorTypeOK, NEW c \in Client, TryFails(c), observedRecord' \in [Client -> Record]
    PROVE  /\ pc' \in [Client -> PCs] /\ inRenew' \in [Client -> BOOLEAN]
           /\ wake' \in [Client -> Nat] /\ reportedLeader' \in [Client -> Client \cup {NoOne}]
           /\ metric' \in [Client -> BOOLEAN] /\ leading' \in [Client -> BOOLEAN]
           /\ stops' \in 0..MaxStops /\ call' \in [Client -> Call]
           /\ cancelled' \in [Client -> BOOLEAN] /\ deadline' \in [Client -> Nat]
<1> USE DEF InterfaceTypeOK, ElectorTypeOK, PCs
<1>1. call' \in [Client -> Call]
  BY ReturnType DEF TryFails
<1>2. \A d \in RetryDelays : now + d \in Nat
  BY ElectorAssumption, LockAssumption DEF RetryDelays
<1>3. CASE inRenew[c]
  BY <1>1, <1>3, NextTickType DEF TryFails
<1>4. CASE ~inRenew[c]
  <2>1. observedRecord'[c].holder \in Client \cup {NoOne}
    BY DEF Record
  <2>2. reportedLeader' \in [Client -> Client \cup {NoOne}]
    BY <1>4, <2>1 DEF TryFails, MaybeReportTransition
  <2>3. wake' \in [Client -> Nat] /\ pc' \in [Client -> PCs]
    BY <1>2, <1>4 DEF TryFails
  <2> QED
    BY <1>1, <2>2, <2>3 DEF TryFails
<1> QED
  BY <1>3, <1>4

\* Every step that needs no call to return preserves the types,
LEMMA ProceedType ==
    ASSUME InterfaceTypeOK, ElectorTypeOK, NEW c \in Client, Proceed(c), UNCHANGED now
    PROVE  InterfaceTypeOK' /\ ElectorTypeOK'
<1> USE DEF InterfaceTypeOK, ElectorTypeOK, PCs, observedVars
<1>z. ZeroRecord \in Record
  BY DEF ZeroRecord, Record
<1>n. Never \in Nat /\ now + RenewDeadline \in Nat /\ now \in Nat
  BY LockAssumption, ElectorAssumption DEF Never
<1>1. CASE Run(c)
  BY <1>1, <1>n DEF Run
<1>2. CASE StartTry(c)
  BY <1>2, <1>z, InvokeType DEF StartTry
<1>3. CASE StartRound(c)
  BY <1>3, <1>z, <1>n, InvokeType DEF StartRound
<1>4. CASE PollTick(c)
  BY <1>4, <1>z, InvokeType DEF PollTick
<1>5. CASE StopAcquiring(c)
  BY <1>5 DEF StopAcquiring
<1>6. ASSUME LeaveRenew(c)
      PROVE  /\ call' \in [Client -> Call] /\ deadline' \in [Client -> Nat]
             /\ pc' \in [Client -> PCs] /\ leading' \in [Client -> BOOLEAN]
  <2>1. CASE ReleaseOnCancel /\ IsLeader(c)
    <3>1. ReleaseRecord(c) \in Record
      BY <1>n DEF ReleaseRecord, Record
    <3>2. Invoke(c, "release", ReleaseRecord(c))
      BY <1>6, <2>1 DEF LeaveRenew
    <3>3. call' \in [Client -> Call]
      BY <3>1, <3>2, InvokeType
    <3> QED
      BY <1>6, <1>n, <2>1, <3>3 DEF LeaveRenew
  <2>2. CASE ~(ReleaseOnCancel /\ IsLeader(c))
    BY <1>6, <1>n, <2>2 DEF LeaveRenew
  <2> QED
    BY <2>1, <2>2
<1>7. CASE StopBetweenRounds(c)
  BY <1>6, <1>7 DEF StopBetweenRounds, LeaveRenew
<1>8. CASE StopPolling(c)
  <2>1. observedRecord'[c].holder \in Client \cup {NoOne}
    BY <1>8 DEF StopPolling, LeaveRenew, Record
  <2>2. reportedLeader' \in [Client -> Client \cup {NoOne}]
    BY <1>8, <2>1 DEF StopPolling, MaybeReportTransition
  <2> QED
    BY <1>6, <1>8, <2>2 DEF StopPolling, LeaveRenew
<1>9. CASE Cancel(c)
  BY <1>9, ElectorAssumption DEF Cancel
<1> QED
  BY <1>1, <1>2, <1>3, <1>4, <1>5, <1>7, <1>8, <1>9 DEF Proceed

\* and every step on the return of a call, and a crash.
LEMMA ResumeType ==
    ASSUME InterfaceTypeOK, ElectorTypeOK, NEW c \in Client, Resume(c) \/ Fail(c) \/ Crash(c), UNCHANGED now
    PROVE  InterfaceTypeOK' /\ ElectorTypeOK'
<1> USE DEF InterfaceTypeOK, ElectorTypeOK, PCs, observedVars
<1>n. Never \in Nat /\ now + RetryPeriod \in Nat /\ now \in Nat
  BY LockAssumption, ElectorAssumption DEF Never
<1>c. call[c].rec \in Record /\ call[c].at \in Nat
  BY DEF Call
<1>r. \A t \in Nat : NewRecord(c, call[c].at, t) \in Record
  BY <1>c, ElectorAssumption DEF NewRecord, Record
<1>1. CASE CreateRecord(c)
  BY <1>1, <1>r, InvokeType DEF CreateRecord
<1>2. CASE LeaseHeld(c)
  BY <1>2, <1>c, ObserveType, TryFailsType DEF LeaseHeld
<1>3. CASE TakeOrRenew(c)
  <2>1. call[c].rec.trans \in Nat /\ call[c].rec.trans + 1 \in Nat
    BY <1>c DEF Record
  <2>2. call' \in [Client -> Call]
    BY <1>3, <1>r, <2>1, InvokeType DEF TakeOrRenew
  <2> QED
    BY <1>3, <1>c, <2>2, ObserveType DEF TakeOrRenew
<1>4. CASE SetSucceeds(c)
  <2>1. /\ observedRecord' \in [Client -> Record] /\ observedTime' \in [Client -> Nat]
        /\ observedRecord'[c].holder \in Client \cup {NoOne}
    BY <1>4, <1>c, <1>n DEF SetSucceeds, SetObservedRecord, Record
  <2>2. reportedLeader' \in [Client -> Client \cup {NoOne}]
    BY <1>4, <2>1 DEF SetSucceeds, MaybeReportTransition
  <2>3. wake' \in [Client -> Nat] /\ deadline' \in [Client -> Nat] /\ pc' \in [Client -> PCs]
    BY <1>4, <1>n DEF SetSucceeds
  <2>4. metric' \in [Client -> BOOLEAN] /\ leading' \in [Client -> BOOLEAN]
        /\ inRenew' \in [Client -> BOOLEAN]
    BY <1>4 DEF SetSucceeds
  <2> QED
    BY <1>4, <2>1, <2>2, <2>3, <2>4, ReturnType DEF SetSucceeds
<1>5. CASE ReleaseSucceeds(c)
  BY <1>5, <1>c, <1>n, ReturnType DEF ReleaseSucceeds, ReleaseEnds, SetObservedRecord
<1>6. CASE CallFails(c)
  BY <1>6, TryFailsType DEF CallFails
<1>7. CASE ReleaseFails(c)
  BY <1>7, ReturnType DEF ReleaseFails, ReleaseEnds
<1>8. CASE Crash(c)
  <2>1. ZeroRecord \in Record /\ Idle \in Call
    BY DEF ZeroRecord, Record, Idle, Call
  <2> QED
    BY <1>8, <1>n, <2>1, ElectorAssumption DEF Crash
<1> QED
  BY <1>1, <1>2, <1>3, <1>4, <1>5, <1>6, <1>7, <1>8 DEF Resume, Fail

\* So does the clock.
LEMMA ElectorTypeTick ==
    ASSUME InterfaceTypeOK, ElectorTypeOK, now < MaxTime, now' = now + 1,
           UNCHANGED <<call, cancelled, deadline, electorVars>>
    PROVE  InterfaceTypeOK' /\ ElectorTypeOK'
BY LockAssumption DEF InterfaceTypeOK, ElectorTypeOK, electorVars, observedVars

-----------------------------------------------------------------------------
\* All that the invariants say about client d is left alone.
SameElector(d) ==
    /\ pc'[d] = pc[d] /\ inRenew'[d] = inRenew[d] /\ wake'[d] = wake[d]
    /\ observedRecord'[d] = observedRecord[d] /\ observedTime'[d] = observedTime[d]
    /\ observedRawRecord'[d] = observedRawRecord[d]
    /\ reportedLeader'[d] = reportedLeader[d] /\ metric'[d] = metric[d]
    /\ leading'[d] = leading[d] /\ cancelled'[d] = cancelled[d]
    /\ deadline'[d] = deadline[d]

\* A step of one client leaves the others alone.
LEMMA OtherElectors ==
    ASSUME InterfaceTypeOK, ElectorTypeOK, NEW c \in Client, NEW d \in Client \ {c},
           Proceed(c) \/ Resume(c) \/ Fail(c) \/ Crash(c)
    PROVE  SameElector(d) /\ call'[d] = call[d]
<1> USE DEF InterfaceTypeOK, ElectorTypeOK, SameElector, observedVars
<1>1. ASSUME Proceed(c) PROVE SameElector(d) /\ call'[d] = call[d]
  BY <1>1 DEF Proceed, Run, StartTry, StartRound, PollTick, StopAcquiring, StopBetweenRounds,
              StopPolling, LeaveRenew, Cancel, Invoke, MaybeReportTransition
<1>2. ASSUME TryFails(c), UNCHANGED observedVars \/ Observe(c, call[c].rec)
      PROVE  SameElector(d) /\ call'[d] = call[d]
  BY <1>2 DEF TryFails, Return, MaybeReportTransition, Observe, SetObservedRecord
<1>3. ASSUME Resume(c) PROVE SameElector(d) /\ call'[d] = call[d]
  BY <1>2, <1>3 DEF Resume, CreateRecord, LeaseHeld, TakeOrRenew, SetSucceeds, ReleaseSucceeds,
                    ReleaseEnds, Invoke, Return, Observe, SetObservedRecord, MaybeReportTransition
<1>4. ASSUME Fail(c) PROVE SameElector(d) /\ call'[d] = call[d]
  BY <1>2, <1>4 DEF Fail, CallFails, ReleaseFails, ReleaseEnds, Return
<1>5. ASSUME Crash(c) PROVE SameElector(d) /\ call'[d] = call[d]
  BY <1>5 DEF Crash
<1> QED
  BY <1>1, <1>3, <1>4, <1>5

\* What an invariant of d needs to survive a step that is not of d: the kind
\* and the time of its call stay, and the holder a release writes.
LEMMA ElectorInvFrame ==
    ASSUME NEW d \in Client, ElectorInv(d), UNCHANGED now, SameElector(d),
           call'[d].op = call[d].op, call'[d].at = call[d].at,
           pc[d] = "release" => call'[d].rec = call[d].rec
    PROVE  ElectorInv(d)'
BY DEF ElectorInv, CallMatches, ReportInv, MetricInv, TimersInv, GiveUpInv, InRound, SameElector

\* The initial state satisfies the invariants.
LEMMA ElectorInvInit ==
    InterfaceInit /\ ElectorInit => \A c \in Client : ElectorInv(c) /\ TimelyInv(c)
<1> SUFFICES ASSUME InterfaceInit, ElectorInit, NEW c \in Client
             PROVE  ElectorInv(c) /\ TimelyInv(c)
  OBVIOUS
<1>1. /\ pc[c] = "off" /\ call[c] = Idle /\ now = 0 /\ observedTime[c] = 0
      /\ ~metric[c] /\ ~leading[c] /\ ~inRenew[c]
      /\ reportedLeader[c] = NoOne /\ observedRecord[c] = ZeroRecord
  BY DEF InterfaceInit, ElectorInit
<1> QED
  BY <1>1 DEF ElectorInv, TimelyInv, CallMatches, ReportInv, MetricInv, TimersInv, GiveUpInv,
              InRound, Idle, ZeroRecord

\* The clock does not advance past a timer or the deadline of a call.
LEMMA ElectorInvTick ==
    ASSUME InterfaceTypeOK, ElectorTypeOK, NEW c \in Client, ElectorInv(c), NoTimerDue(c),
           call[c].op # "none" => ~CallCtxDone(c),
           now' = now + 1, UNCHANGED <<call, cancelled, deadline, electorVars>>
    PROVE  ElectorInv(c)'
<1> USE DEF electorVars, observedVars
<1>1. CallMatches(c)' /\ ReportInv(c)' /\ MetricInv(c)' /\ GiveUpInv(c)'
  BY DEF ElectorInv, CallMatches, ReportInv, MetricInv, GiveUpInv, InRound
<1>2. now \in Nat /\ observedTime[c] \in Nat /\ wake[c] \in Nat /\ deadline[c] \in Nat
  BY LockAssumption DEF InterfaceTypeOK, ElectorTypeOK
<1>3. ASSUME InRound(c), inRenew[c] PROVE now < deadline[c]
  BY <1>2, <1>3 DEF ElectorInv, CallMatches, InRound, NoTimerDue, CallCtxDone, CtxDone
<1>4. TimersInv(c)'
  BY <1>2, <1>3 DEF ElectorInv, TimersInv, InRound, NoTimerDue
<1> QED
  BY <1>1, <1>4 DEF ElectorInv

\* A step that needs no call to return preserves the invariants of its client.
LEMMA ElectorInvProceed ==
    ASSUME InterfaceTypeOK, ElectorTypeOK, NEW c \in Client, ElectorInv(c), Proceed(c),
           UNCHANGED now
    PROVE  ElectorInv(c)'
<1> USE DEF ElectorInv, CallMatches, ReportInv, MetricInv, TimersInv, GiveUpInv, InRound,
            observedVars
<1>t. /\ now \in Nat /\ observedTime[c] \in Nat /\ wake[c] \in Nat /\ deadline[c] \in Nat
      /\ RetryPeriod \in Nat /\ RenewDeadline \in Nat
      /\ pc \in [Client -> PCs] /\ call \in [Client -> Call] /\ wake \in [Client -> Nat]
      /\ deadline \in [Client -> Nat] /\ cancelled \in [Client -> BOOLEAN]
      /\ leading \in [Client -> BOOLEAN] /\ metric \in [Client -> BOOLEAN]
      /\ reportedLeader \in [Client -> Client \cup {NoOne}]
  BY LockAssumption, ElectorAssumption DEF InterfaceTypeOK, ElectorTypeOK
<1>1. CASE Run(c)
  BY <1>t, <1>1 DEF Run
<1>2. CASE StartTry(c)
  BY <1>t, <1>2 DEF StartTry, Invoke
<1>3. CASE StartRound(c)
  BY <1>t, <1>3 DEF StartRound, Invoke
<1>4. CASE PollTick(c)
  BY <1>t, <1>4 DEF PollTick, Invoke
<1>5. CASE StopAcquiring(c)
  BY <1>t, <1>5 DEF StopAcquiring
<1>6. CASE StopBetweenRounds(c)
  <2>1. CASE ReleaseOnCancel /\ IsLeader(c)
    BY <1>t, <1>6, <2>1 DEF StopBetweenRounds, LeaveRenew, Invoke, ReleaseRecord
  <2>2. CASE ~(ReleaseOnCancel /\ IsLeader(c))
    BY <1>t, <1>6, <2>2 DEF StopBetweenRounds, LeaveRenew
  <2> QED
    BY <2>1, <2>2
<1>7. CASE StopPolling(c)
  <2>1. reportedLeader'[c] = observedRecord'[c].holder
    BY <1>t, <1>7 DEF StopPolling, MaybeReportTransition
  <2>2. ~metric'[c] /\ observedRecord'[c] = observedRecord[c] /\ observedTime'[c] = observedTime[c]
    BY <1>t, <1>7 DEF StopPolling, LeaveRenew
  <2>3. CASE ReleaseOnCancel /\ IsLeader(c)
    <3>1. /\ pc'[c] = "release" /\ call'[c].op = "release" /\ call'[c].at = now
          /\ call'[c].rec.holder = observedRecord[c].holder
      BY <1>t, <1>7, <2>3 DEF StopPolling, LeaveRenew, Invoke, ReleaseRecord
    <3>2. leading[c] => now <= observedTime[c] + RetryPeriod + RenewDeadline
      BY <1>t, <1>7 DEF StopPolling
    <3> QED
      BY <1>t, <1>7, <2>1, <2>2, <2>3, <3>1, <3>2 DEF StopPolling, LeaveRenew
  <2>4. CASE ~(ReleaseOnCancel /\ IsLeader(c))
    BY <1>t, <1>7, <2>1, <2>2, <2>4 DEF StopPolling, LeaveRenew
  <2> QED
    BY <2>3, <2>4
<1>8. CASE Cancel(c)
  BY <1>t, <1>8 DEF Cancel
<1> QED
  BY <1>1, <1>2, <1>3, <1>4, <1>5, <1>6, <1>7, <1>8 DEF Proceed

\* What is observed now has not been observed before.
LEMMA ObserveLater ==
    ASSUME InterfaceTypeOK, ElectorTypeOK, NEW c \in Client, NEW rec, Observe(c, rec),
           observedTime[c] <= now
    PROVE  /\ observedTime'[c] \in Nat
           /\ observedTime[c] <= observedTime'[c] /\ observedTime'[c] <= now
BY LockAssumption
   DEF InterfaceTypeOK, ElectorTypeOK, Observe, SetObservedRecord, observedVars

\* A try that fails preserves them, whether or not it has observed a record.
LEMMA ElectorInvTryFails ==
    ASSUME InterfaceTypeOK, ElectorTypeOK, NEW c \in Client, ElectorInv(c), TryFails(c),
           UNCHANGED now, pc[c] \in {"get", "set"},
           UNCHANGED observedVars \/ Observe(c, call[c].rec)
    PROVE  ElectorInv(c)'
<1> USE DEF ElectorInv, CallMatches, ReportInv, MetricInv, TimersInv, GiveUpInv, InRound
<1>t. /\ now \in Nat /\ observedTime[c] \in Nat /\ wake[c] \in Nat /\ deadline[c] \in Nat
      /\ RetryPeriod \in Nat /\ RenewDeadline \in Nat
      /\ pc \in [Client -> PCs] /\ call \in [Client -> Call] /\ wake \in [Client -> Nat]
      /\ reportedLeader \in [Client -> Client \cup {NoOne}]
  BY LockAssumption, ElectorAssumption DEF InterfaceTypeOK, ElectorTypeOK
<1>1. /\ observedTime'[c] \in Nat
      /\ observedTime[c] <= observedTime'[c] /\ observedTime'[c] <= now
  BY <1>t, ObserveLater DEF observedVars
<1>2. call'[c].op = "none"
  BY <1>t DEF TryFails, Return, Idle
<1>3. CASE inRenew[c]
  BY <1>t, <1>1, <1>2, <1>3 DEF TryFails
<1>4. CASE ~inRenew[c]
  <2>1. reportedLeader'[c] = observedRecord'[c].holder
    BY <1>t, <1>4 DEF TryFails, MaybeReportTransition
  <2>2. now <= wake'[c]
    <3>1. PICK d \in RetryDelays : wake' = [wake EXCEPT ![c] = now + d]
      BY <1>4 DEF TryFails
    <3> QED
      BY <1>t, <3>1 DEF RetryDelays
  <2> QED
    BY <1>t, <1>1, <1>2, <1>4, <2>1, <2>2 DEF TryFails
<1> QED
  BY <1>3, <1>4

\* A step on the return of a call and a crash preserve them.
LEMMA ElectorInvResume ==
    ASSUME InterfaceTypeOK, ElectorTypeOK, NEW c \in Client, ElectorInv(c),
           Resume(c) \/ Fail(c) \/ Crash(c), UNCHANGED now
    PROVE  ElectorInv(c)'
<1> USE DEF ElectorInv, CallMatches, ReportInv, MetricInv, TimersInv, GiveUpInv, InRound
<1>t. /\ now \in Nat /\ observedTime[c] \in Nat /\ wake[c] \in Nat /\ deadline[c] \in Nat
      /\ RetryPeriod \in Nat /\ RenewDeadline \in Nat
      /\ pc \in [Client -> PCs] /\ call \in [Client -> Call] /\ wake \in [Client -> Nat]
      /\ deadline \in [Client -> Nat] /\ cancelled \in [Client -> BOOLEAN]
      /\ leading \in [Client -> BOOLEAN] /\ metric \in [Client -> BOOLEAN]
      /\ inRenew \in [Client -> BOOLEAN] /\ observedTime \in [Client -> Nat]
      /\ observedRecord \in [Client -> Record]
      /\ reportedLeader \in [Client -> Client \cup {NoOne}]
  BY LockAssumption, ElectorAssumption DEF InterfaceTypeOK, ElectorTypeOK
<1>1. CASE CreateRecord(c)
  BY <1>t, <1>1 DEF CreateRecord, Invoke, observedVars
<1>2. CASE LeaseHeld(c)
  BY <1>2, ElectorInvTryFails DEF LeaseHeld
<1>3. CASE TakeOrRenew(c)
  <2>1. /\ observedTime'[c] \in Nat
        /\ observedTime[c] <= observedTime'[c] /\ observedTime'[c] <= now
    BY <1>t, <1>3, ObserveLater DEF TakeOrRenew
  <2>2. pc'[c] = "set" /\ call'[c].op = "update"
    BY <1>t, <1>3 DEF TakeOrRenew, Invoke
  <2> QED
    BY <1>t, <1>3, <2>1, <2>2 DEF TakeOrRenew
<1>4. CASE SetSucceeds(c)
  <2>1. reportedLeader'[c] = observedRecord'[c].holder /\ observedTime'[c] = now
    BY <1>t, <1>4 DEF SetSucceeds, MaybeReportTransition, SetObservedRecord
  <2>2. pc'[c] = "wait" /\ call'[c].op = "none" /\ inRenew'[c]
    BY <1>t, <1>4 DEF SetSucceeds, Return, Idle
  <2>3. now <= wake'[c] /\ wake'[c] <= now + RetryPeriod
    BY <1>t, <1>4 DEF SetSucceeds
  <2>4. cancelled'[c] = cancelled[c] /\ (leading'[c] => ~cancelled[c])
    BY <1>t, <1>4 DEF SetSucceeds
  <2>5. metric'[c] => leading'[c] \/ cancelled[c]
    BY <1>t, <1>4 DEF SetSucceeds
  <2>6. now' = now /\ now <= now
    BY <1>t
  <2> QED
    BY <2>1, <2>2, <2>3, <2>4, <2>5, <2>6
<1>5. ASSUME ReleaseEnds(c)
      PROVE  /\ pc'[c] = "done" /\ call'[c].op = "none" /\ ~leading'[c]
             /\ metric'[c] => cancelled'[c]
             /\ reportedLeader'[c] = observedRecord[c].holder
  BY <1>t, <1>5 DEF ReleaseEnds, Return, Idle
<1>6. CASE ReleaseSucceeds(c)
  <2>1. observedTime'[c] = now /\ observedRecord'[c] = call[c].rec /\ pc[c] = "release"
    BY <1>t, <1>6 DEF ReleaseSucceeds, ReleaseEnds, SetObservedRecord
  <2> QED
    BY <1>t, <1>5, <1>6, <2>1 DEF ReleaseSucceeds
<1>7. CASE CallFails(c)
  BY <1>7, ElectorInvTryFails DEF CallFails
<1>8. CASE ReleaseFails(c)
  BY <1>t, <1>5, <1>8 DEF ReleaseFails, observedVars
<1>9. CASE Crash(c)
  BY <1>t, <1>9 DEF Crash, Idle, ZeroRecord
<1> QED
  BY <1>1, <1>2, <1>3, <1>4, <1>6, <1>7, <1>8, <1>9 DEF Resume, Fail

\* Every step of an elector, its crash too, preserves the invariants of all.
LEMMA ElectorInvStep ==
    ASSUME InterfaceTypeOK, ElectorTypeOK, \A d \in Client : ElectorInv(d), NEW c \in Client,
           Proceed(c) \/ Resume(c) \/ Fail(c) \/ Crash(c), UNCHANGED now
    PROVE  \A d \in Client : ElectorInv(d)'
<1> SUFFICES ASSUME NEW d \in Client PROVE ElectorInv(d)'
  OBVIOUS
<1>1. CASE d = c
  BY <1>1, ElectorInvProceed, ElectorInvResume
<1>2. CASE d # c
  BY <1>2, OtherElectors, ElectorInvFrame
<1> QED
  BY <1>1, <1>2

\* So does a lock that acts on the call of a client.
LEMMA ElectorInvAnswer ==
    ASSUME InterfaceTypeOK, \A d \in Client : ElectorInv(d),
           UNCHANGED <<now, cancelled, deadline, electorVars>>,
           \/ UNCHANGED call
           \/ \E c \in Client : \E st, rec, ver :
                Answer(c, st, rec, ver) /\ (IsWrite(c) => rec = call[c].rec)
    PROVE  \A d \in Client : ElectorInv(d)'
<1> SUFFICES ASSUME NEW d \in Client PROVE ElectorInv(d)'
  OBVIOUS
<1>1. SameElector(d) /\ ElectorInv(d)
  BY DEF SameElector, electorVars, observedVars
<1>2. pc[d] = "release" => IsWrite(d)
  BY <1>1 DEF ElectorInv, CallMatches, IsWrite
<1>3. /\ call'[d].op = call[d].op /\ call'[d].at = call[d].at
      /\ IsWrite(d) => call'[d].rec = call[d].rec
  BY DEF Answer, InterfaceTypeOK
<1> QED
  BY <1>1, <1>2, <1>3, ElectorInvFrame

\* A call that starts has all its time; one that is answered keeps its time.
LEMMA TimelyStep ==
    ASSUME InterfaceTypeOK, ElectorTypeOK, \A d \in Client : TimelyInv(d), NEW c \in Client,
           Proceed(c) \/ Resume(c) \/ Fail(c) \/ Crash(c), UNCHANGED now
    PROVE  \A d \in Client : TimelyInv(d)'
<1> SUFFICES ASSUME NEW d \in Client PROVE TimelyInv(d)'
  OBVIOUS
<1>t. now \in Nat /\ call \in [Client -> Call] /\ RequestTimeout \in Nat
  BY LockAssumption DEF InterfaceTypeOK
<1>1. CASE d # c
  BY <1>1, OtherElectors DEF TimelyInv
<1>2. CASE d = c
  <2>1. CASE call'[c] = call[c]
    BY <1>2, <2>1 DEF TimelyInv
  <2>2. CASE call'[c] = Idle
    BY <1>2, <2>2 DEF TimelyInv, Idle
  <2>3. CASE call'[c].at = now
    BY <1>t, <1>2, <2>3 DEF TimelyInv
  <2>4. call'[c] = call[c] \/ call'[c] = Idle \/ call'[c].at = now
    <3>1. CASE Proceed(c)
      BY <1>t, <3>1 DEF Proceed, Run, StartTry, StartRound, PollTick, StopAcquiring,
                    StopBetweenRounds, StopPolling, LeaveRenew, Cancel, Invoke
    <3>2. CASE Resume(c)
      <4>1. CASE CreateRecord(c) \/ TakeOrRenew(c)
        BY <1>t, <4>1 DEF CreateRecord, TakeOrRenew, Invoke
      <4>2. CASE LeaseHeld(c) \/ SetSucceeds(c) \/ ReleaseSucceeds(c)
        BY <1>t, <4>2 DEF LeaseHeld, SetSucceeds, ReleaseSucceeds, ReleaseEnds, TryFails, Return
      <4> QED
        BY <3>2, <4>1, <4>2 DEF Resume
    <3>3. CASE Fail(c) \/ Crash(c)
      BY <1>t, <3>3 DEF Fail, CallFails, ReleaseFails, ReleaseEnds, TryFails, Return, Crash
    <3> QED
      BY <3>1, <3>2, <3>3
  <2> QED
    BY <2>1, <2>2, <2>3, <2>4
<1> QED
  BY <1>1, <1>2

\* An answer leaves the time of a call as it is.
LEMMA TimelyAnswer ==
    ASSUME InterfaceTypeOK, \A d \in Client : TimelyInv(d), UNCHANGED now,
           UNCHANGED call \/ \E c \in Client : \E st, rec, ver : Answer(c, st, rec, ver)
    PROVE  \A d \in Client : TimelyInv(d)'
BY DEF Answer, TimelyInv, InterfaceTypeOK

\* The clock waits for a call that has no time left.
LEMMA TimelyTick ==
    ASSUME InterfaceTypeOK, NEW c \in Client, TimelyInv(c), CallMayWait(c), now' = now + 1,
           UNCHANGED call
    PROVE  TimelyInv(c)'
<1>1. now \in Nat /\ call[c].at \in Nat /\ RequestTimeout \in Nat
  BY LockAssumption DEF InterfaceTypeOK, Call
<1> QED
  BY <1>1 DEF TimelyInv, CallMayWait, TimedOut

\* Without releases, a write is the Create or Update of a try.
LEMMA NoReleaseCalls ==
    ASSUME ~ReleaseOnCancel, ElectorTypeOK, NEW c \in Client, ElectorInv(c)
    PROVE  /\ IsWrite(c) <=> pc[c] = "set"
           /\ pc[c] # "release"
           /\ call[c].op = "get" <=> pc[c] = "get"
BY DEF ElectorTypeOK, ElectorInv, CallMatches, IsWrite, PCs

\* And so a step of c goes on with its call.
LEMMA NoReleaseStep ==
    ASSUME ~ReleaseOnCancel, InterfaceTypeOK, ElectorTypeOK, NEW c \in Client, ElectorInv(c),
           Proceed(c) \/ Resume(c) \/ Fail(c) \/ Crash(c)
    PROVE  \/ pc'[c] \notin {"get", "set"} /\ call'[c].op = "none" /\ call'[c].at \in {0, call[c].at}
           \/ /\ pc'[c] = "get" /\ call'[c].op = "get" /\ call'[c].st = "pending"
              /\ call'[c].at = now /\ pc[c] \in {"wait", "poll"}
           \/ /\ pc'[c] = "set" /\ pc[c] = "get" /\ Resume(c)
              /\ call'[c].st = "pending" /\ call'[c].at = now /\ call'[c].op # "get"
              /\ call'[c].rec.holder = c /\ call'[c].rec.dur = LeaseDuration
              /\ call'[c].rec.renew = call[c].at
           \/ pc'[c] = pc[c] /\ call'[c] = call[c]
<1>0. /\ call \in [Client -> Call] /\ pc \in [Client -> PCs] /\ CallMatches(c)
      /\ pc[c] # "release" /\ ~ReleaseOnCancel
  BY NoReleaseCalls DEF InterfaceTypeOK, ElectorTypeOK, ElectorInv
<1>1. CASE Run(c) \/ StopAcquiring(c)
  BY <1>0, <1>1 DEF Run, StopAcquiring, CallMatches
<1>2. CASE StartTry(c) \/ StartRound(c) \/ PollTick(c)
  BY <1>0, <1>2 DEF StartTry, StartRound, PollTick, Invoke
<1>3. CASE StopBetweenRounds(c) \/ StopPolling(c)
  BY <1>0, <1>3 DEF StopBetweenRounds, StopPolling, LeaveRenew, CallMatches
<1>4. CASE Cancel(c)
  BY <1>0, <1>4 DEF Cancel
<1>5. CASE Crash(c)
  BY <1>0, <1>5 DEF Crash, Idle
<1>6. ASSUME TryFails(c) PROVE pc'[c] \notin {"get", "set"} /\ call'[c].op = "none" /\ call'[c].at = 0
  BY <1>0, <1>6 DEF TryFails, Return, Idle
<1>7. CASE Fail(c)
  BY <1>0, <1>6, <1>7 DEF Fail, CallFails, ReleaseFails, ReleaseEnds
<1>8. CASE CreateRecord(c)
  BY <1>0, <1>8 DEF CreateRecord, Resume, Invoke, NewRecord
<1>9. CASE LeaseHeld(c)
  BY <1>6, <1>9 DEF LeaseHeld
<1>10. CASE TakeOrRenew(c)
  <2>1. \E n : Invoke(c, "update", NewRecord(c, call[c].at, n))
    BY <1>10 DEF TakeOrRenew
  <2>2. pc[c] = "get" /\ pc' = [pc EXCEPT ![c] = "set"] /\ Resume(c)
    BY <1>10 DEF TakeOrRenew, Resume
  <2> QED
    BY <1>0, <2>1, <2>2 DEF Invoke, NewRecord
<1>11. CASE SetSucceeds(c)
  BY <1>0, <1>11 DEF SetSucceeds, Return, Idle
<1>12. CASE ReleaseSucceeds(c)
  BY <1>0, <1>12 DEF ReleaseSucceeds, ReleaseEnds
<1> QED
  BY <1>1, <1>2, <1>3, <1>4, <1>5, <1>7, <1>8, <1>9, <1>10, <1>11, <1>12 DEF Proceed, Resume

\* A leader that goes on does so until the time it had, or has a pause and a
\* round more since a try has succeeded.
LEMMA LeadGoesOn ==
    ASSUME ~ReleaseOnCancel, InterfaceTypeOK, ElectorTypeOK, NEW c \in Client, ElectorInv(c),
           Proceed(c) \/ Resume(c) \/ Fail(c) \/ Crash(c), UNCHANGED now, leading'[c]
    PROVE  /\ LeadEnd(c)' \in Nat
           /\ \/ leading[c] /\ LeadEnd(c)' <= LeadEnd(c)
              \/ /\ pc[c] = "set" /\ call[c].st = "ok"
                 /\ LeadEnd(c)' <= now + RetryPeriod + RenewDeadline
<1>t. /\ now \in Nat /\ wake[c] \in Nat /\ deadline[c] \in Nat
      /\ RetryPeriod \in Nat /\ RenewDeadline \in Nat
  BY LockAssumption, ElectorAssumption DEF InterfaceTypeOK, ElectorTypeOK
<1>n. wake'[c] \in Nat /\ deadline'[c] \in Nat
  BY ProceedType, ResumeType DEF InterfaceTypeOK, ElectorTypeOK
<1>g. leading[c] => inRenew[c] /\ pc[c] # "off" /\ (pc[c] = "wait" => now <= wake[c])
  BY DEF ElectorInv, GiveUpInv, TimersInv
<1>1. CASE Run(c) \/ StartTry(c) \/ StopAcquiring(c)
  BY <1>g, <1>1 DEF Run, StartTry, StopAcquiring
<1>2. CASE StartRound(c)
  <2>1. /\ pc[c] = "wait" /\ pc'[c] = "get" /\ deadline'[c] = now + RenewDeadline
        /\ leading' = leading
    BY <1>2 DEF StartRound, ElectorTypeOK, InterfaceTypeOK
  <2> QED
    BY <1>t, <1>n, <1>g, <2>1 DEF LeadEnd
<1>3. CASE PollTick(c) \/ CreateRecord(c) \/ TakeOrRenew(c)
  <2>1. /\ pc[c] # "wait" /\ pc'[c] # "wait" /\ deadline' = deadline /\ leading' = leading
    BY <1>3 DEF PollTick, CreateRecord, TakeOrRenew, ElectorTypeOK
  <2> QED
    BY <1>t, <1>n, <2>1 DEF LeadEnd
<1>4. CASE StopBetweenRounds(c) \/ StopPolling(c) \/ Cancel(c) \/ Crash(c)
  BY <1>4 DEF StopBetweenRounds, StopPolling, LeaveRenew, Cancel, Crash, ElectorTypeOK
<1>5. CASE pc[c] \in {"get", "set"} /\ TryFails(c)
  <2>1. leading' = leading /\ deadline' = deadline
    BY <1>5 DEF TryFails
  <2>2. pc'[c] = "poll"
    BY <1>g, <1>5, <2>1 DEF TryFails, ElectorTypeOK
  <2> QED
    BY <1>t, <1>n, <1>5, <2>1, <2>2 DEF LeadEnd
<1>6. CASE SetSucceeds(c)
  <2>1. /\ pc[c] = "set" /\ call[c].st = "ok" /\ pc'[c] = "wait"
        /\ wake'[c] \in {now, now + RetryPeriod}
    BY <1>6 DEF SetSucceeds, ElectorTypeOK
  <2> QED
    BY <1>t, <1>n, <2>1 DEF LeadEnd
<1>7. ~ReleaseSucceeds(c) /\ ~ReleaseFails(c)
  BY NoReleaseCalls DEF ReleaseSucceeds, ReleaseFails, ReleaseEnds
<1> QED
  BY <1>1, <1>2, <1>3, <1>4, <1>5, <1>6, <1>7
     DEF Proceed, Resume, Fail, CallFails, LeaseHeld

-----------------------------------------------------------------------------
(***************************************************************************)
(* The candidates: what a client in acquire does next, and when.           *)
(***************************************************************************)
\* The first half of acquire's invariant is the elector's own.
LEMMA AcquireStep ==
    ASSUME InterfaceTypeOK, ElectorTypeOK, NEW c \in Client, NEW d \in Client, AcquireInv(d),
           Proceed(c) \/ Resume(c) \/ Fail(c) \/ Crash(c), d = c => ElectorInv(c)
    PROVE  AcquireInv(d)'
<1>t. /\ pc \in [Client -> PCs] /\ inRenew \in [Client -> BOOLEAN]
      /\ deadline \in [Client -> Nat] /\ observedRecord \in [Client -> Record]
      /\ observedRawRecord \in [Client -> Record]
  BY DEF InterfaceTypeOK, ElectorTypeOK
<1>1. CASE d # c
  BY <1>1, OtherElectors DEF SameElector, AcquireInv
<1>2. CASE d = c
  <2> USE <1>t, <1>2 DEF AcquireInv, observedVars
  <2>1. CASE Run(c) \/ StartTry(c) \/ StopAcquiring(c) \/ Cancel(c) \/ CreateRecord(c)
    BY <2>1 DEF Run, StartTry, StopAcquiring, Cancel, CreateRecord
  <2>2. CASE StartRound(c) \/ PollTick(c) \/ StopBetweenRounds(c) \/ StopPolling(c)
    <3>1. pc[c] = "poll" => inRenew[c]
      BY DEF ElectorInv, TimersInv
    <3> QED
      BY <2>2, <3>1 DEF StartRound, PollTick, StopBetweenRounds, StopPolling, LeaveRenew
  <2>3. CASE TakeOrRenew(c)
    BY <2>3 DEF TakeOrRenew, Observe, SetObservedRecord
  <2>4. CASE LeaseHeld(c) \/ CallFails(c)
    BY <2>4 DEF LeaseHeld, CallFails, TryFails, Observe, SetObservedRecord
  <2>5. CASE SetSucceeds(c)
    BY <2>5 DEF SetSucceeds
  <2>6. CASE ReleaseSucceeds(c) \/ ReleaseFails(c)
    <3>1. pc[c] = "release" => inRenew[c]
      BY DEF ElectorInv, TimersInv
    <3> QED
      BY <2>6, <3>1 DEF ReleaseSucceeds, ReleaseFails, ReleaseEnds
  <2>7. CASE Crash(c)
    BY <2>7 DEF Crash
  <2> QED
    BY <2>1, <2>2, <2>3, <2>4, <2>5, <2>6, <2>7 DEF Proceed, Resume, Fail
<1> QED
  BY <1>1, <1>2

\* The pauses and the calls of a retry take a natural time.
LEMMA RetryTimeType ==
    RetryPause \in Nat /\ RetryTime \in Nat /\ RetryTime = RetryPause + 2 * RequestTimeout
<1>1. RetryPeriod \in Nat /\ RequestTimeout \in Nat
  BY LockAssumption, ElectorAssumption
<1>2. RetryPause \in Nat
  BY <1>1 DEF RetryPause
<1> QED
  BY <1>1, <1>2 DEF RetryTime

\* What c has read, and when, is left alone.
SameReading(c) ==
    observedRawRecord'[c] = observedRawRecord[c] /\ observedTime'[c] = observedTime[c]

\* The Get of c has returned what c had read, or something else.
Reads(c) ==
    \/ observedRawRecord[c] = call[c].rec /\ SameReading(c)
    \/ observedRawRecord[c] # call[c].rec /\ observedRawRecord'[c] = call[c].rec
       /\ observedTime'[c] = now

\* c pauses before its next try.
Pauses(c) ==
    /\ pc[c] \in {"get", "set"} /\ pc'[c] = "wait" /\ call'[c] = Idle
    /\ wake'[c] >= now /\ wake'[c] <= now + RetryPause

\* c goes on with the write of the try that started with its Get.
Writes(c) ==
    /\ pc[c] = "get" /\ pc'[c] = "set" /\ call'[c].st = "pending" /\ call'[c].at = now
    /\ call'[c].ver = 0
    /\ call'[c].op \in {"create", "update"}
    /\ call'[c].rec.holder = c /\ call'[c].rec.dur = LeaseDuration
    /\ call'[c].rec.renew = call[c].at

\* A try that fails is followed by a pause.
LEMMA CandidatePauses ==
    ASSUME InterfaceTypeOK, ElectorTypeOK, NEW c \in Client, TryFails(c),
           pc[c] \in {"get", "set"}, ~inRenew'[c]
    PROVE  ~inRenew[c] /\ cancelled' = cancelled /\ Pauses(c)
<1>t. /\ pc \in [Client -> PCs] /\ call \in [Client -> Call] /\ wake \in [Client -> Nat]
      /\ now \in Nat /\ RetryPeriod \in Nat
  BY LockAssumption, ElectorAssumption DEF InterfaceTypeOK, ElectorTypeOK
<1>1. ~inRenew[c]
  BY DEF TryFails
<1>2. PICK d \in RetryDelays : wake' = [wake EXCEPT ![c] = now + d]
  BY <1>1 DEF TryFails
<1>3. d \in RetryPeriod .. RetryPause /\ wake'[c] = now + d
  BY <1>t, <1>2 DEF RetryDelays, RetryPause
<1>4. pc'[c] = "wait" /\ call'[c] = Idle /\ cancelled' = cancelled
  BY <1>t, <1>1 DEF TryFails, Return
<1>5. wake'[c] >= now /\ wake'[c] <= now + RetryPause
  BY <1>t, <1>3, RetryTimeType
<1> QED
  BY <1>1, <1>4, <1>5 DEF Pauses

\* The step after a failed call with which c stays a candidate.
LEMMA CandidateFails ==
    ASSUME InterfaceTypeOK, ElectorTypeOK, NEW c \in Client, ElectorInv(c),
           Fail(c) \/ Crash(c), Candidate(c)'
    PROVE  /\ Fail(c) /\ Candidate(c) /\ Pauses(c) /\ SameReading(c)
           /\ cancelled'[c] = cancelled[c] /\ ~inRenew[c]
<1>1. ~ReleaseFails(c) /\ ~Crash(c)
  BY DEF ReleaseFails, ReleaseEnds, Crash, Candidate, ElectorTypeOK
<1>2. CallFails(c) /\ ~inRenew'[c] /\ observedRawRecord'[c] # ZeroRecord
  BY <1>1 DEF Fail, Candidate
<1>3. Pauses(c) /\ cancelled' = cancelled /\ ~inRenew[c]
  BY <1>2, CandidatePauses DEF CallFails
<1> QED
  BY <1>1, <1>2, <1>3 DEF CallFails, SameReading, observedVars, Candidate

\* The other steps after which c is a candidate.
LEMMA CandidateSteps ==
    ASSUME InterfaceTypeOK, ElectorTypeOK, NEW c \in Client, ElectorInv(c), AcquireInv(c),
           Proceed(c) \/ Resume(c), UNCHANGED now, Candidate(c)'
    PROVE  /\ ~inRenew[c] /\ ~inRenew'[c]
           /\ Candidate(c) \/ observedTime'[c] = now
           /\ \/ /\ Cancel(c) /\ SameReading(c) /\ pc'[c] = pc[c] /\ wake'[c] = wake[c]
                 /\ call'[c] = call[c] /\ cancelled'[c]
              \/ /\ cancelled'[c] = cancelled[c]
                 /\ \/ /\ StartTry(c) /\ SameReading(c) /\ wake[c] = now
                       /\ pc[c] = "wait" /\ pc'[c] = "get" /\ call'[c].at = now
                       /\ call'[c].op = "get" /\ call'[c].st = "pending"
                    \/ /\ LeaseHeld(c) /\ Pauses(c) /\ Reads(c) /\ pc[c] = "get"
                       /\ call[c].st = "ok" /\ call[c].at < Due(c, 0)'
                       /\ observedRawRecord'[c].holder # c
                    \/ /\ CreateRecord(c) /\ Writes(c) /\ SameReading(c)
                       /\ call[c].st = "notexist"
                    \/ /\ TakeOrRenew(c) /\ Writes(c) /\ Reads(c) /\ call[c].st = "ok"
<1>t. /\ pc \in [Client -> PCs] /\ inRenew \in [Client -> BOOLEAN]
      /\ deadline \in [Client -> Nat] /\ observedRecord \in [Client -> Record]
      /\ observedRawRecord \in [Client -> Record] /\ observedTime \in [Client -> Nat]
      /\ cancelled \in [Client -> BOOLEAN] /\ call \in [Client -> Call]
      /\ wake \in [Client -> Nat] /\ now \in Nat /\ RetryPeriod \in Nat
  BY LockAssumption, ElectorAssumption DEF InterfaceTypeOK, ElectorTypeOK
<1>p. /\ pc'[c] \in {"wait", "get", "set"} /\ ~inRenew'[c]
      /\ observedRawRecord'[c] # ZeroRecord
  BY DEF Candidate
<1>w. pc[c] = "wait" => now <= wake[c]
  BY DEF ElectorInv, TimersInv
<1>o. ASSUME Observe(c, call[c].rec)
      PROVE  Reads(c) /\ (Candidate(c) \/ pc[c] # "get" \/ inRenew[c] \/ observedTime'[c] = now)
  BY <1>t, <1>o, <1>p DEF Observe, SetObservedRecord, Reads, SameReading, observedVars, Candidate
<1>f. ASSUME TryFails(c), pc[c] \in {"get", "set"}
      PROVE  ~inRenew[c] /\ cancelled' = cancelled /\ Pauses(c)
  BY <1>f, <1>p, CandidatePauses
<1>1. ~Run(c) /\ ~StartRound(c) /\ ~StopAcquiring(c) /\ ~StopBetweenRounds(c) /\ ~StopPolling(c)
  BY <1>t, <1>p DEF Run, AcquireInv, observedVars, StartRound, StopAcquiring, StopBetweenRounds,
                    StopPolling, LeaveRenew
<1>2. ~PollTick(c) /\ ~SetSucceeds(c) /\ ~ReleaseSucceeds(c)
  <2>1. ~PollTick(c)
    BY <1>t, <1>p DEF ElectorInv, TimersInv, PollTick
  <2>2. ~SetSucceeds(c) /\ ~ReleaseSucceeds(c)
    BY <1>t, <1>p DEF SetSucceeds, ReleaseSucceeds, ReleaseEnds
  <2> QED
    BY <2>1, <2>2
<1>3. CASE StartTry(c)
  BY <1>t, <1>w, <1>p, <1>3 DEF StartTry, Invoke, SameReading, observedVars, Candidate
<1>4. CASE Cancel(c)
  BY <1>t, <1>p, <1>4 DEF Cancel, SameReading, observedVars, Candidate
<1>5. CASE LeaseHeld(c)
  <2>1. pc[c] = "get" /\ call[c].st = "ok" /\ Reads(c) /\ Pauses(c) /\ ~inRenew[c]
        /\ cancelled' = cancelled
    BY <1>f, <1>o, <1>5 DEF LeaseHeld
  <2>2. Candidate(c) \/ observedTime'[c] = now
    BY <1>o, <1>5, <2>1 DEF LeaseHeld
  <2>3. observedTime'[c] + call[c].rec.dur > call[c].at /\ observedRecord'[c].holder # c
    BY <1>5 DEF LeaseHeld, HeldByOther
  <2>4. observedRawRecord'[c] = call[c].rec /\ observedRecord'[c] = observedRawRecord'[c]
    BY <1>t, <1>5, <2>1 DEF LeaseHeld, Observe, SetObservedRecord, observedVars, AcquireInv
  <2>5. ~inRenew'[c]
    BY <1>p
  <2>6. call[c].at \in Nat /\ observedTime'[c] \in Nat /\ call[c].rec.dur \in Nat
    BY <1>t, <2>1 DEF Call, Record, Reads, SameReading
  <2>7. call[c].at < Due(c, 0)'
    BY <2>3, <2>4, <2>6, RetryTimeType DEF Due
  <2> QED
    BY <1>5, <2>1, <2>2, <2>3, <2>4, <2>5, <2>7
<1>6. CASE CreateRecord(c)
  <2>1. /\ pc[c] = "get" /\ call[c].st = "notexist" /\ pc'[c] = "set" /\ SameReading(c)
        /\ cancelled' = cancelled /\ inRenew' = inRenew
        /\ Invoke(c, "create", NewRecord(c, call[c].at, 0))
    BY <1>t, <1>6 DEF CreateRecord, SameReading, observedVars
  <2>2. Writes(c)
    BY <1>t, <2>1 DEF Writes, Invoke, NewRecord
  <2> QED
    BY <1>p, <1>6, <2>1, <2>2 DEF Candidate, SameReading
<1>7. CASE TakeOrRenew(c)
  <2>1. /\ pc[c] = "get" /\ call[c].st = "ok" /\ pc'[c] = "set" /\ Observe(c, call[c].rec)
        /\ cancelled' = cancelled /\ inRenew' = inRenew
    BY <1>t, <1>7 DEF TakeOrRenew
  <2>2. \E n : Invoke(c, "update", NewRecord(c, call[c].at, n))
    BY <1>7 DEF TakeOrRenew
  <2>3. Writes(c)
    BY <1>t, <2>1, <2>2 DEF Writes, Invoke, NewRecord
  <2> QED
    BY <1>o, <1>p, <1>7, <2>1, <2>3
<1> QED
  BY <1>1, <1>2, <1>3, <1>4, <1>5, <1>6, <1>7 DEF Proceed, Resume

\* The write of a try starts within the time its Get may take.
LEMMA WriteStep ==
    ASSUME InterfaceTypeOK, ElectorTypeOK, NEW c \in Client, NEW d \in Client,
           d = c => TimelyInv(c) /\ ElectorInv(c), WriteInv(d),
           Proceed(c) \/ Resume(c) \/ Fail(c) \/ Crash(c), UNCHANGED now
    PROVE  WriteInv(d)'
<1>t. /\ now \in Nat /\ call \in [Client -> Call] /\ RequestTimeout \in Nat /\ pc \in [Client -> PCs]
  BY LockAssumption DEF InterfaceTypeOK, ElectorTypeOK
<1>1. CASE d # c
  BY <1>1, OtherElectors DEF WriteInv, SameElector
<1>2. CASE d = c
  <2>1. call[c].at \in Nat /\ call[c].at <= now
    BY <1>t, <1>2 DEF Call, WriteInv
  <2>2. CASE CreateRecord(c) \/ TakeOrRenew(c)
    <3>1. \E op, n : Invoke(c, op, NewRecord(c, call[c].at, n))
      BY <2>2 DEF CreateRecord, TakeOrRenew
    <3>2. /\ call'[c].at = now /\ call'[c].rec.holder = c /\ call'[c].rec.dur = LeaseDuration
          /\ call'[c].rec.renew = call[c].at
      BY <1>t, <3>1 DEF Invoke, NewRecord
    <3>3. now <= call[c].at + RequestTimeout
      BY <1>2, <2>2 DEF CreateRecord, TakeOrRenew, TimelyInv, ElectorInv, CallMatches
    <3> QED
      BY <1>t, <1>2, <2>1, <3>2, <3>3 DEF WriteInv
  <2>3. ASSUME pc'[c] # "set", call'[c] = call[c] \/ call'[c].at \in {0, now} PROVE WriteInv(c)'
    BY <1>t, <2>1, <2>3 DEF WriteInv
  <2>4. CASE Cancel(c)
    BY <1>2, <2>4 DEF Cancel, WriteInv
  <2>5. CASE Run(c) \/ StartTry(c) \/ StartRound(c) \/ PollTick(c) \/ StopAcquiring(c)
             \/ StopBetweenRounds(c) \/ StopPolling(c)
    BY <1>t, <1>2, <2>3, <2>5 DEF Run, StartTry, StartRound, PollTick, StopAcquiring,
                    StopBetweenRounds, StopPolling, LeaveRenew, Invoke
  <2>6. CASE LeaseHeld(c) \/ CallFails(c) \/ SetSucceeds(c) \/ ReleaseSucceeds(c)
             \/ ReleaseFails(c) \/ Crash(c)
    <3>1. call'[c] = Idle
      BY <1>t, <2>6 DEF LeaseHeld, CallFails, SetSucceeds, ReleaseSucceeds, ReleaseFails,
                        ReleaseEnds, TryFails, Return, Crash
    <3>2. pc'[c] # "set"
      BY <1>t, <2>6 DEF LeaseHeld, CallFails, SetSucceeds, ReleaseSucceeds, ReleaseFails,
                        ReleaseEnds, TryFails, Crash
    <3>3. call'[c].at = 0
      BY <3>1 DEF Idle
    <3> QED
      BY <1>2, <2>3, <3>2, <3>3
  <2> QED
    BY <2>2, <2>4, <2>5, <2>6 DEF Proceed, Resume, Fail
<1> QED
  BY <1>1, <1>2

\* A lock that answers leaves it alone, and the clock does.
LEMMA WriteKept ==
    ASSUME NEW d \in Client, WriteInv(d), ElectorInv(d), pc'[d] = pc[d],
           call[d].at \in Nat, now \in Nat, now' \in Nat, now <= now',
           \/ UNCHANGED call
           \/ \E c \in Client : \E st, rec, ver :
                Answer(c, st, rec, ver) /\ (IsWrite(c) => rec = call[c].rec),
           InterfaceTypeOK
    PROVE  WriteInv(d)'
<1>1. call'[d].at = call[d].at /\ (IsWrite(d) => call'[d].rec = call[d].rec)
  BY DEF Answer, InterfaceTypeOK
<1>2. pc[d] = "set" => IsWrite(d)
  BY DEF ElectorInv, CallMatches, IsWrite
<1> QED
  BY <1>1, <1>2 DEF WriteInv

\* A multiple of a natural number is one, and grows with the factor.
LEMMA Multiples ==
    ASSUME NEW R \in Nat
    PROVE  /\ \A n \in Nat : n * R \in Nat /\ (n + 1) * R = n * R + R
           /\ \A m, n \in Nat : m <= n => m * R <= n * R
           /\ 0 * R = 0
<1>1. \A n \in Nat : n * R \in Nat /\ (n + 1) * R = n * R + R
  OBVIOUS
<1>2. ASSUME NEW m \in Nat, NEW n \in Nat, m <= n PROVE m * R <= n * R
  <2>1. n - m \in Nat /\ n = m + (n - m)
    BY <1>2
  <2>2. n * R = m * R + (n - m) * R /\ (n - m) * R \in Nat /\ m * R \in Nat
    BY <2>1
  <2> QED
    BY <2>2
<1> QED
  BY <1>1, <1>2

\* Retries follow each other.
LEMMA DueGrows ==
    ASSUME ElectorTypeOK, NEW c \in Client
    PROVE  /\ \A n \in Nat : Due(c, n) \in Nat /\ Due(c, n + 1) = Due(c, n) + RetryTime
           /\ \A m, n \in Nat : m <= n => Due(c, m) <= Due(c, n)
           /\ observedTime[c] + observedRawRecord[c].dur = Due(c, 0)
           /\ observedTime[c] <= Due(c, 0)
           /\ observedTime[c] \in Nat /\ observedRawRecord[c].dur \in Nat
<1> DEFINE T == observedTime[c] + observedRawRecord[c].dur
<1>1. T \in Nat /\ observedTime[c] \in Nat /\ observedRawRecord[c].dur \in Nat
  BY DEF ElectorTypeOK, Record
<1>2. \A n \in Nat : Due(c, n) = T + n * RetryTime
  BY DEF Due
<1> HIDE DEF T
<1>3. /\ \A n \in Nat : n * RetryTime \in Nat /\ (n + 1) * RetryTime = n * RetryTime + RetryTime
      /\ \A m, n \in Nat : m <= n => m * RetryTime <= n * RetryTime
      /\ 0 * RetryTime = 0
  BY Multiples, RetryTimeType
<1>4. ASSUME NEW m \in Nat, NEW n \in Nat, m <= n PROVE Due(c, m) <= Due(c, n)
  <2>1. m * RetryTime \in Nat /\ n * RetryTime \in Nat /\ m * RetryTime <= n * RetryTime
    BY <1>3, <1>4
  <2>2. Due(c, m) = T + m * RetryTime /\ Due(c, n) = T + n * RetryTime
    BY <1>2
  <2> QED
    BY <1>1, <2>1, <2>2
<1>5. ASSUME NEW n \in Nat PROVE Due(c, n) \in Nat /\ Due(c, n + 1) = Due(c, n) + RetryTime
  <2>1. n * RetryTime \in Nat /\ (n + 1) * RetryTime = n * RetryTime + RetryTime
    BY <1>3
  <2>2. Due(c, n) = T + n * RetryTime /\ Due(c, n + 1) = T + (n + 1) * RetryTime
    BY <1>2
  <2> QED
    BY <1>1, <2>1, <2>2, RetryTimeType
<1>6. Due(c, 0) = T
  BY <1>1, <1>2, <1>3
<1>7. observedTime[c] + observedRawRecord[c].dur = Due(c, 0) /\ observedTime[c] <= Due(c, 0)
  BY <1>1, <1>6 DEF T
<1> QED
  BY <1>1, <1>4, <1>5, <1>7, Zenon

\* A candidate that tries in time is not late.
LEMMA CandidateInTime ==
    ASSUME InterfaceTypeOK, ElectorTypeOK, NEW c \in Client, NEW n \in Nat,
           ElectorInv(c), TimelyInv(c), WriteInv(c), Candidate(c), StartsBy(c, n)
    PROVE  /\ now <= Due(c, n) + RequestTimeout /\ now <= Due(c, n + 1)
           /\ pc[c] \in {"wait", "get"} => now <= Due(c, n)
<1>t. /\ now \in Nat /\ RequestTimeout \in Nat /\ wake[c] \in Nat /\ call[c].at \in Nat
      /\ call[c].rec.renew \in Nat
  BY LockAssumption DEF InterfaceTypeOK, ElectorTypeOK, Call, Record
<1>d. /\ Due(c, n) \in Nat /\ Due(c, n + 1) = Due(c, n) + RetryTime
      /\ RetryTime = RetryPause + 2 * RequestTimeout /\ RetryPause \in Nat
  BY DueGrows, RetryTimeType
<1>1. CASE pc[c] = "wait"
  <2>1. now <= wake[c] /\ TryStart(c) = wake[c]
    BY <1>1 DEF ElectorInv, TimersInv, TryStart
  <2> QED
    BY <1>t, <1>d, <2>1 DEF StartsBy
<1>2. CASE pc[c] = "get"
  <2>1. now <= call[c].at + RequestTimeout /\ TryStart(c) = call[c].at
    BY <1>2 DEF ElectorInv, CallMatches, TimelyInv, TryStart
  <2> QED
    BY <1>t, <1>d, <2>1 DEF StartsBy
<1>3. CASE pc[c] = "set"
  <2>1. /\ now <= call[c].at + RequestTimeout /\ TryStart(c) = call[c].rec.renew
        /\ call[c].at <= call[c].rec.renew + RequestTimeout
    BY <1>3 DEF ElectorInv, CallMatches, TimelyInv, TryStart, WriteInv
  <2> QED
    BY <1>t, <1>d, <1>3, <2>1 DEF StartsBy
<1> QED
  BY <1>1, <1>2, <1>3 DEF Candidate

\* A candidate that goes on has read something new, or a lease that runs, or
\* goes on with the try it is at.
LEMMA CandidateGoesOn ==
    ASSUME InterfaceTypeOK, ElectorTypeOK, ElectorTypeOK', NEW c \in Client, ElectorInv(c),
           AcquireInv(c), TimelyInv(c), WriteInv(c),
           Proceed(c) \/ Resume(c), UNCHANGED now, Candidate(c)'
    PROVE  /\ \/ StartsBy(c, 1)'
              \/ Candidate(c) /\ SameReading(c) /\ TryStart(c)' = TryStart(c)
           /\ pc[c] = "get" /\ pc'[c] = "wait" => StartsBy(c, 1)'
           /\ ~SameReading(c) => StartsBy(c, 1)'
<1>t. /\ now \in Nat /\ RequestTimeout \in Nat /\ wake'[c] \in Nat /\ call[c].at \in Nat
      /\ call[c].at <= now /\ RetryPause \in Nat /\ RetryTime = RetryPause + 2 * RequestTimeout
  BY LockAssumption, RetryTimeType DEF InterfaceTypeOK, ElectorTypeOK, Call, WriteInv
<1>d. /\ Due(c, 0)' \in Nat /\ Due(c, 1)' = Due(c, 0)' + RetryTime /\ observedTime'[c] <= Due(c, 0)'
      /\ observedTime'[c] \in Nat
  <2>1. observedTime'[c] \in Nat /\ observedRawRecord'[c].dur \in Nat
    BY DEF ElectorTypeOK, Record
  <2> QED
    BY <2>1, RetryTimeType DEF Due
<1>s. pc[c] = "get" => now <= call[c].at + RequestTimeout
  BY DEF ElectorInv, CallMatches, TimelyInv
<1>1. ASSUME Pauses(c), pc[c] = "get", call[c].at < Due(c, 0)' PROVE StartsBy(c, 1)'
  <2>1. TryStart(c)' = wake'[c] /\ wake'[c] <= now + RetryPause
    BY <1>1 DEF Pauses, TryStart
  <2> QED
    BY <1>t, <1>d, <1>s, <1>1, <2>1 DEF StartsBy
<1>2. ASSUME Writes(c), observedTime'[c] = now PROVE StartsBy(c, 1)'
  <2>1. TryStart(c)' = call[c].at
    BY <1>2 DEF Writes, TryStart
  <2> QED
    BY <1>t, <1>d, <1>2, <2>1 DEF StartsBy
<1>3. ASSUME Writes(c), SameReading(c) PROVE TryStart(c)' = TryStart(c)
  BY <1>3 DEF Writes, TryStart
<1>4. CASE Cancel(c) /\ SameReading(c) /\ pc'[c] = pc[c] /\ wake'[c] = wake[c] /\ call'[c] = call[c]
  <2>1. Candidate(c)
    BY <1>4 DEF Candidate, SameReading, Cancel
  <2> QED
    BY <1>4, <2>1 DEF TryStart
<1>5. CASE StartTry(c) /\ SameReading(c) /\ wake[c] = now /\ pc[c] = "wait" /\ pc'[c] = "get"
           /\ call'[c].at = now
  <2>1. Candidate(c)
    BY <1>5 DEF Candidate, SameReading, StartTry
  <2> QED
    BY <1>5, <2>1 DEF TryStart
<1>6. CASE Pauses(c) /\ pc[c] = "get" /\ call[c].at < Due(c, 0)'
  BY <1>1, <1>6
<1>7. CASE Writes(c) /\ SameReading(c)
  <2>1. Candidate(c) \/ observedTime'[c] = now
    BY CandidateSteps
  <2>2. pc'[c] # "wait"
    BY <1>7 DEF Writes
  <2> QED
    BY <1>2, <1>3, <1>7, <2>1, <2>2
<1>8. CASE Writes(c) /\ Reads(c) /\ ~SameReading(c)
  <2>1. observedTime'[c] = now /\ pc'[c] # "wait"
    BY <1>8 DEF Reads, Writes
  <2> QED
    BY <1>2, <1>8, <2>1
<1> QED
  BY <1>4, <1>5, <1>6, <1>7, <1>8, CandidateSteps

\* One whose call fails tries again a retry later.
LEMMA CandidateRetries ==
    ASSUME InterfaceTypeOK, ElectorTypeOK, ElectorTypeOK', NEW c \in Client, NEW n \in Nat,
           ElectorInv(c), TimelyInv(c), WriteInv(c), StartsBy(c, n),
           Fail(c) \/ Crash(c), Candidate(c)'
    PROVE  StartsBy(c, n + 1)'
<1>1. Candidate(c) /\ Pauses(c) /\ SameReading(c)
  BY CandidateFails
<1>2. now <= Due(c, n) + RequestTimeout
  BY <1>1, CandidateInTime
<1>3. TryStart(c)' = wake'[c] /\ wake'[c] <= now + RetryPause
  BY <1>1 DEF Pauses, TryStart
<1>4. Due(c, n + 1)' = Due(c, n + 1)
  BY <1>1 DEF Due, SameReading
<1>5. /\ Due(c, n) \in Nat /\ Due(c, n + 1) = Due(c, n) + RetryTime
      /\ RetryTime = RetryPause + 2 * RequestTimeout /\ RetryPause \in Nat
      /\ RequestTimeout \in Nat /\ now \in Nat /\ wake'[c] \in Nat
  BY DueGrows, RetryTimeType, LockAssumption DEF InterfaceTypeOK, ElectorTypeOK
<1> QED
  BY <1>2, <1>3, <1>4, <1>5 DEF StartsBy

\* What is due in time after a step is due later, too.
LEMMA StartsLater ==
    ASSUME InterfaceTypeOK', ElectorTypeOK', NEW c \in Client, NEW m \in Nat, NEW n \in Nat,
           m <= n, StartsBy(c, m)'
    PROVE  StartsBy(c, n)'
<1>1. /\ TryStart(c)' \in Nat /\ RequestTimeout \in Nat
  BY LockAssumption DEF InterfaceTypeOK, ElectorTypeOK, Call, Record, TryStart
<1>2. observedTime'[c] \in Nat /\ observedRawRecord'[c].dur \in Nat
  BY DEF ElectorTypeOK, Record
<1>3. m * RetryTime \in Nat /\ n * RetryTime \in Nat /\ m * RetryTime <= n * RetryTime
  BY Multiples, RetryTimeType
<1> QED
  BY <1>1, <1>2, <1>3 DEF StartsBy, Due

\* A candidate is not late after a step of its own if it was not before.
LEMMA CandidateNotLater ==
    ASSUME InterfaceTypeOK, ElectorTypeOK, ElectorTypeOK', NEW c \in Client, NEW n \in Nat,
           ElectorInv(c), AcquireInv(c), Candidate(c) => now <= Due(c, n),
           Proceed(c) \/ Resume(c) \/ Fail(c) \/ Crash(c), UNCHANGED now, Candidate(c)'
    PROVE  now <= Due(c, n)'
<1>1. (Candidate(c) /\ SameReading(c)) \/ observedTime'[c] = now
  BY CandidateSteps, CandidateFails DEF Reads
<1>2. CASE Candidate(c) /\ SameReading(c)
  BY <1>2 DEF Due, SameReading
<1>3. CASE observedTime'[c] = now
  <2>1. /\ observedTime'[c] \in Nat /\ observedRawRecord'[c].dur \in Nat /\ n * RetryTime \in Nat
    BY Multiples, RetryTimeType DEF ElectorTypeOK, Record
  <2> QED
    BY <1>3, <2>1 DEF Due
<1> QED
  BY <1>1, <1>2, <1>3

\* The clock waits for a candidate whose context is cancelled.
LEMMA CandidateFrozen ==
    ASSUME NEW c \in Client, ElectorInv(c), Candidate(c), NoTimerDue(c), CallMayWait(c)
    PROVE  ~cancelled[c]
BY DEF ElectorInv, CallMatches, Candidate, NoTimerDue, CallMayWait, CallCtxDone, CtxDone

\* A client that does nothing is the candidate it was.
LEMMA CandidateStays ==
    ASSUME InterfaceTypeOK, NEW d \in Client, ElectorInv(d), SameElector(d),
           \/ call'[d] = call[d]
           \/ \E c \in Client : \E st, rec, ver :
                Answer(c, st, rec, ver) /\ (IsWrite(c) => rec = call[c].rec)
    PROVE  /\ Candidate(d)' <=> Candidate(d)
           /\ AcquireInv(d) => AcquireInv(d)'
           /\ \A n : Due(d, n)' = Due(d, n)
           /\ Candidate(d) => TryStart(d)' = TryStart(d)
           /\ \A n : Candidate(d) /\ StartsBy(d, n) => StartsBy(d, n)'
<1>1. call'[d].at = call[d].at /\ (IsWrite(d) => call'[d].rec = call[d].rec)
  BY DEF Answer, InterfaceTypeOK
<1>2. pc[d] = "set" => IsWrite(d)
  BY DEF ElectorInv, CallMatches, IsWrite
<1>3. Candidate(d) => TryStart(d)' = TryStart(d)
  BY <1>1, <1>2 DEF TryStart, Candidate, SameElector
<1>4. \A n : Due(d, n)' = Due(d, n)
  BY DEF Due, SameElector
<1>5. (Candidate(d)' <=> Candidate(d)) /\ (AcquireInv(d) => AcquireInv(d)')
  BY DEF Candidate, AcquireInv, SameElector
<1> QED
  BY <1>3, <1>4, <1>5 DEF StartsBy
=============================================================================
