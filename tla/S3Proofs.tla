------------------------------ MODULE S3Proofs ------------------------------
(***************************************************************************)
(* S3Election, for every set of clients and every configuration New        *)
(* accepts: its types; and, when clients do not release, that a lease is   *)
(* taken over early only after the object was deleted or overwritten       *)
(* unseen, that only then, and for no longer than a leader needs to        *)
(* notice, two clients lead, and that only then a candidate is stuck.      *)
(***************************************************************************)
EXTENDS S3ElectionInv, ElectorProofs

(***************************************************************************)
(* Types, and what holds of every elector.                                 *)
(***************************************************************************)
\* A PutObject that is sent is one.
LEMMA PutType ==
    ASSUME TypeOK, NEW c \in Client
    PROVE  PutOf(c) \in Put
<1>1. etag[c] \in Record /\ call[c].rec \in Record
  BY DEF TypeOK, S3TypeOK, InterfaceTypeOK, Call
<1> QED
  BY <1>1 DEF PutOf, Put

\* The lock of c after a call of c ends, or c dies.
LEMMA LockSideType ==
    ASSUME TypeOK, NEW c \in Client, Returns(c) \/ Fails(c) \/ ClientGone(c)
    PROVE  S3TypeOK' /\ UNCHANGED <<object, raced>>
<1> USE DEF S3TypeOK
<1>0. /\ S3TypeOK /\ call[c].rec \in Record /\ NoObject \in Record /\ PutOf(c) \in Put
  BY PutType DEF TypeOK, InterfaceTypeOK, Call, NoObject, ZeroRecord, Record
<1>1. ASSUME CallOver(c) PROVE stated' \in [Client -> BOOLEAN]
  BY <1>0, <1>1 DEF CallOver
<1>2. CASE Returns(c)
  BY <1>0, <1>1, <1>2 DEF Returns
<1>3. ASSUME Abandoned(c)
      PROVE  /\ etag' \in [Client -> Record] /\ late' \subseteq Put
             /\ stated' \in [Client -> BOOLEAN] /\ UNCHANGED <<object, raced>>
  BY <1>0, <1>1, <1>3 DEF Abandoned
<1>4. CASE Refused(c)
  BY <1>0, <1>1, <1>4 DEF Refused
<1>5. CASE ContextEnds(c)
  BY <1>0, <1>3, <1>5 DEF ContextEnds
<1>6. CASE Lost(c)
  BY <1>0, <1>3, <1>6, S3Assumption DEF Lost
<1>7. CASE ClientGone(c)
  BY <1>0, <1>1, <1>7 DEF ClientGone
<1> QED
  BY <1>2, <1>4, <1>5, <1>6, <1>7 DEF Fails

\* A step of an elector keeps the invariant, and so does the death of a client.
LEMMA LocalElectorStep ==
    ASSUME LocalInv, NEW c \in Client, ElectorStep(c) \/ Die(c), UNCHANGED now
    PROVE  LocalInv'
<1>0. /\ TypeOK /\ InterfaceTypeOK /\ ElectorTypeOK /\ S3TypeOK
      /\ \A d \in Client : ElectorInv(d) /\ TimelyInv(d)
  BY DEF LocalInv, TypeOK
<1>1. Proceed(c) \/ Resume(c) \/ Fail(c) \/ Crash(c)
  BY DEF ElectorStep, Die
<1>2. InterfaceTypeOK' /\ ElectorTypeOK'
  BY <1>0, <1>1, ProceedType, ResumeType
<1>3. S3TypeOK'
  <2>1. CASE Returns(c) \/ Fails(c) \/ ClientGone(c)
    BY <1>0, <2>1, LockSideType
  <2>2. CASE UNCHANGED s3Vars
    BY <1>0, <2>2 DEF s3Vars, S3TypeOK
  <2> QED
    BY <2>1, <2>2 DEF ElectorStep, Die
<1>4. \A d \in Client : ElectorInv(d)' /\ TimelyInv(d)'
  BY <1>0, <1>1, ElectorInvStep, TimelyStep
<1> QED
  BY <1>2, <1>3, <1>4 DEF LocalInv, TypeOK

\* What the store does to the call of c, or to none.
LEMMA LocalStoreStep ==
    ASSUME LocalInv, UNCHANGED <<now, cancelled, deadline, electorVars>>,
           (\E c \in Client : StoreStep(c)) \/ (\E put \in late : LatePut(put)) \/ DeleteObject
    PROVE  LocalInv'
<1>0. /\ TypeOK /\ InterfaceTypeOK /\ ElectorTypeOK /\ S3TypeOK /\ call \in [Client -> Call]
      /\ now \in 0..Never /\ NoObject \in Record /\ ZeroRecord \in Record
      /\ \A d \in Client : ElectorInv(d) /\ TimelyInv(d)
  BY LockAssumption DEF LocalInv, TypeOK, InterfaceTypeOK, Never, NoObject, ZeroRecord, Record
<1>1. \/ UNCHANGED call
      \/ \E c \in Client : \E st, rec, ver :
           Answer(c, st, rec, ver) /\ (IsWrite(c) => rec = call[c].rec)
  <2>1. ASSUME NEW c \in Client, GetStat(c) \/ GetObject(c) PROVE ~IsWrite(c)
    BY <2>1 DEF GetStat, GetObject, Pending, IsWrite
  <2> QED
    BY <2>1 DEF StoreStep, GetStat, GetStatFails, GetObject, SetStat, PutObject, LatePut,
       DeleteObject
<1>2. call' \in [Client -> Call]
  <2>1. ASSUME NEW c \in Client, StoreStep(c) PROVE call' \in [Client -> Call]
    <3>1. call[c].rec \in Record /\ object \in Record /\ 0 \in Nat
      BY <1>0 DEF Call, S3TypeOK
    <3> QED
      BY <1>0, <2>1, <3>1, AnswerType
         DEF StoreStep, GetStat, GetStatFails, GetObject, SetStat, PutObject
  <2> QED
    BY <1>0, <2>1 DEF LatePut, DeleteObject
<1>3. S3TypeOK'
  <2>1. ASSUME NEW put \in Put, Store(put) PROVE object' \in Record /\ raced' \in 0..Never
    BY <1>0, <2>1 DEF Store, Put, S3TypeOK
  <2>2. ASSUME NEW c \in Client, StoreStep(c) PROVE S3TypeOK'
    <3>1. CASE GetStat(c) \/ GetObject(c) \/ SetStat(c)
      BY <1>0, <3>1 DEF GetStat, GetObject, SetStat, S3TypeOK, s3Vars
    <3>2. CASE GetStatFails(c)
      BY <1>0, <3>2, S3Assumption DEF GetStatFails, S3TypeOK
    <3>3. CASE PutObject(c)
      BY <1>0, <2>1, <3>3, PutType DEF PutObject, S3TypeOK
    <3> QED
      BY <2>2, <3>1, <3>2, <3>3 DEF StoreStep
  <2>3. ASSUME NEW put \in late, LatePut(put) PROVE S3TypeOK'
    BY <1>0, <2>1, <2>3 DEF LatePut, S3TypeOK
  <2>4. CASE DeleteObject
    BY <1>0, <2>4, S3Assumption DEF DeleteObject, S3TypeOK
  <2> QED
    BY <2>2, <2>3, <2>4
<1>4. InterfaceTypeOK' /\ ElectorTypeOK'
  BY <1>0, <1>2 DEF InterfaceTypeOK, ElectorTypeOK, electorVars, observedVars
<1>5. \A d \in Client : ElectorInv(d)' /\ TimelyInv(d)'
  BY <1>0, <1>1, ElectorInvAnswer, TimelyAnswer
<1> QED
  BY <1>3, <1>4, <1>5 DEF LocalInv, TypeOK

\* Time passes.
LEMMA LocalTick ==
    ASSUME LocalInv, Tick PROVE LocalInv'
<1>0. /\ InterfaceTypeOK /\ ElectorTypeOK /\ S3TypeOK
      /\ \A d \in Client : ElectorInv(d) /\ TimelyInv(d)
      /\ now < MaxTime /\ now' = now + 1
      /\ UNCHANGED <<call, cancelled, deadline, electorVars>> /\ UNCHANGED s3Vars
      /\ \A d \in Client : NoTimerDue(d) /\ CallMayWait(d)
  BY DEF LocalInv, TypeOK, Tick
<1>1. InterfaceTypeOK' /\ ElectorTypeOK'
  BY <1>0, ElectorTypeTick
<1>2. S3TypeOK'
  BY <1>0 DEF s3Vars, S3TypeOK
<1>3. ASSUME NEW d \in Client PROVE ElectorInv(d)' /\ TimelyInv(d)'
  <2>1. ElectorInv(d)'
    BY <1>0, ElectorInvTick DEF CallMayWait
  <2>2. TimelyInv(d)'
    BY <1>0, TimelyTick
  <2> QED
    BY <2>1, <2>2
<1> QED
  BY <1>1, <1>2, <1>3 DEF LocalInv, TypeOK

\* Initially there is no object and no one waits.
LEMMA LocalInit ==
    ASSUME Init PROVE LocalInv
<1>1. InterfaceTypeOK /\ ElectorTypeOK /\ \A c \in Client : ElectorInv(c) /\ TimelyInv(c)
  BY ElectorTypeInit, ElectorInvInit DEF Init
<1>2. NoObject \in Record /\ Never \in 0..Never
  BY LockAssumption DEF NoObject, ZeroRecord, Record, Never
<1>3. S3TypeOK
  BY <1>2, S3Assumption DEF Init, S3Init, S3TypeOK
<1> QED
  BY <1>1, <1>3 DEF LocalInv, TypeOK

\* Every step keeps what holds without any condition.
LEMMA LocalStep ==
    ASSUME LocalInv, [Next]_vars PROVE LocalInv'
<1>1. CASE UNCHANGED vars
  BY <1>1 DEF vars, interfaceVars, electorVars, observedVars, s3Vars, LocalInv, TypeOK,
     InterfaceTypeOK, ElectorTypeOK, S3TypeOK, ElectorInv, CallMatches, ReportInv, MetricInv,
     TimersInv, GiveUpInv, InRound, TimelyInv
<1>2. CASE Next
  BY <1>2, LocalTick, LocalElectorStep, LocalStoreStep DEF Next
<1> QED
  BY <1>1, <1>2

\* Every elector keeps within its timers, whatever requests race.
THEOREM LocalInvariant == Spec => []LocalInv
<1>1. Init => LocalInv
  BY LocalInit
<1>2. LocalInv /\ [Next]_vars => LocalInv'
  BY LocalStep
<1> QED
  BY <1>1, <1>2, PTL DEF Spec

\* Type correctness: the object, the ETags and the late PutObjects of s3.go are
\* records, whatever fails, is deleted or is late.
THEOREM TypeCorrect == Spec => []TypeOK
<1>1. LocalInv => TypeOK
  BY DEF LocalInv
<1> QED
  BY <1>1, LocalInvariant, PTL

-----------------------------------------------------------------------------
(***************************************************************************)
(* The object, when clients do not release.                                *)
(***************************************************************************)
\* The types the argument needs.
LEMMA StoreTypes ==
    LocalInv =>
        /\ now \in Nat /\ raced \in Nat /\ object \in Record /\ object.renew \in Nat
        /\ LeaseDuration \in Nat /\ LeaseDuration > 0 /\ RequestTimeout \in Nat
        /\ \A c \in Client :
             /\ LastTry(c) \in Nat /\ call[c] \in Call /\ call[c].at \in Nat
             /\ call[c].rec \in Record /\ call[c].rec.renew \in Nat
             /\ etag[c] \in Record /\ observedRawRecord[c] \in Record
             /\ observedRecord[c] \in Record /\ observedTime[c] \in Nat
             /\ wake[c] \in Nat /\ deadline[c] \in Nat
<1> SUFFICES ASSUME LocalInv
             PROVE  /\ now \in Nat /\ raced \in Nat /\ object \in Record /\ object.renew \in Nat
                    /\ LeaseDuration \in Nat /\ LeaseDuration > 0 /\ RequestTimeout \in Nat
                    /\ \A c \in Client :
                         /\ LastTry(c) \in Nat /\ call[c] \in Call /\ call[c].at \in Nat
                         /\ call[c].rec \in Record /\ call[c].rec.renew \in Nat
                         /\ etag[c] \in Record /\ observedRawRecord[c] \in Record
                         /\ observedRecord[c] \in Record /\ observedTime[c] \in Nat
                         /\ wake[c] \in Nat /\ deadline[c] \in Nat
  OBVIOUS
<1>1. /\ now \in Nat /\ raced \in Nat /\ object \in Record
      /\ \A c \in Client :
           /\ call[c] \in Call /\ etag[c] \in Record /\ observedRawRecord[c] \in Record
           /\ observedRecord[c] \in Record /\ observedTime[c] \in Nat
           /\ wake[c] \in Nat /\ deadline[c] \in Nat
  BY LockAssumption DEF LocalInv, TypeOK, InterfaceTypeOK, ElectorTypeOK, S3TypeOK, Never
<1>2. LeaseDuration \in Nat /\ LeaseDuration > 0 /\ RequestTimeout \in Nat
  BY LockAssumption, ElectorAssumption DEF NewAccepts
<1> QED
  BY <1>1, <1>2 DEF LastTry, Call, Record

\* The same of the next state.
LEMMA StoreTypesNext ==
    (LocalInv =>
        /\ now \in Nat /\ raced \in Nat /\ object \in Record /\ object.renew \in Nat
        /\ LeaseDuration \in Nat /\ LeaseDuration > 0 /\ RequestTimeout \in Nat
        /\ \A c \in Client :
             /\ LastTry(c) \in Nat /\ call[c] \in Call /\ call[c].at \in Nat
             /\ call[c].rec \in Record /\ call[c].rec.renew \in Nat
             /\ etag[c] \in Record /\ observedRawRecord[c] \in Record
             /\ observedRecord[c] \in Record /\ observedTime[c] \in Nat
             /\ wake[c] \in Nat /\ deadline[c] \in Nat)'
BY StoreTypes, PTL

\* Every record was made by now.
LEMMA MadeByNow ==
    ASSUME StoreInv, NEW r, Made(r) PROVE r.renew \in Nat /\ r.renew <= now
<1>1. LocalInv /\ \A c \in Client : GetInv(c) /\ SetInv(c)
  BY DEF StoreInv
<1>2. ASSUME NEW c \in Client PROVE LastTry(c) \in Nat /\ LastTry(c) <= now
  BY <1>1, StoreTypes DEF LastTry, GetInv, SetInv
<1> QED
  BY <1>1, <1>2, StoreTypes DEF Made, Record

\* Records are made by clients: NoObject is not one of them.
LEMMA MadeByClient ==
    ASSUME NEW r, Made(r) PROVE r # NoObject /\ r.holder # NoOne
BY LockAssumption DEF Made, NoObject, ZeroRecord

(***************************************************************************)
(* How the object may change: not at all; with a race; or, without one, to *)
(* a record made later, unless there was no object or a race has already   *)
(* caught up with the one there was.                                       *)
(***************************************************************************)
Forward ==
    /\ now <= now' /\ \A d \in Client : LastTry(d) <= LastTry(d)'
    /\ \/ UNCHANGED <<object, raced>>
       \/ raced' = now
       \/ /\ raced' = raced
          /\ \/ object = NoObject \/ Raced(object)
             \/ object' = object \/ object'.renew > object.renew

\* Then a record stays made, raced, past and seen.
LEMMA ForwardKeeps ==
    ASSUME StoreInv, LocalInv', Forward, NEW r, Made(r)
    PROVE  /\ Made(r)' /\ (Raced(r) => Raced(r)') /\ (Past(r) => Past(r)')
           /\ Seen(r) => Seen(r)'
<1>0. LocalInv /\ r # NoObject
  BY MadeByClient DEF StoreInv
<1>t. /\ now \in Nat /\ raced \in Nat /\ object.renew \in Nat /\ now' \in Nat
      /\ raced' \in Nat /\ object'.renew \in Nat /\ r.renew \in Nat /\ r.renew <= now
      /\ r \in Record /\ r.holder \in Client
      /\ \A d \in Client : LastTry(d) \in Nat /\ LastTry(d)' \in Nat
  BY <1>0, StoreTypes, StoreTypesNext, MadeByNow DEF Made
<1>1. Made(r)'
  BY <1>t DEF Made, Forward
<1>2. Raced(r) => Raced(r)'
  BY <1>t DEF Raced, Forward
<1>n. NoObject.renew = 0
  BY DEF NoObject, ZeroRecord
<1>3. ASSUME Past(r) PROVE Past(r)'
  BY <1>t, <1>n, <1>2, <1>3 DEF Past, Raced, Forward
<1>4. ASSUME object = r PROVE object' = r \/ Past(r)'
  BY <1>0, <1>t, <1>2, <1>4 DEF Past, Raced, Forward
<1> QED
  BY <1>1, <1>2, <1>3, <1>4 DEF Seen

\* And a PutObject stays sound.
LEMMA ForwardSound ==
    ASSUME StoreInv, LocalInv', Forward, NEW put, Sound(put)
    PROVE  Sound(put)'
<1>1. Made(put.rec) /\ ~put.release
  BY DEF Sound
<1>2. Made(put.rec)'
  BY <1>1, ForwardKeeps
<1>3. ASSUME put.tag # NoObject
      PROVE  Made(put.tag)' /\ (Past(put.tag) => Past(put.tag)')
  BY <1>3, ForwardKeeps DEF Sound
<1> QED
  BY <1>1, <1>2, <1>3 DEF Sound

\* What was seen stays so, NoObject included.
LEMMA ForwardSeen ==
    ASSUME StoreInv, LocalInv', Forward, NEW r, Seen(r)
    PROVE  Seen(r)' /\ (Past(r) /\ r # NoObject => Past(r)')
<1>1. CASE r = NoObject
  BY <1>1 DEF Seen
<1>2. CASE r # NoObject
  <2>1. Made(r)
    BY <1>2 DEF Seen
  <2> QED
    BY <2>1, ForwardKeeps
<1> QED
  BY <1>1, <1>2

\* A record that does not cut short what c has read last still does not.
LEMMA ForwardOver ==
    ASSUME StoreInv, LocalInv', Forward, NEW c \in Client, NEW t, RawIsOver(c, t),
           Seen(observedRawRecord[c]), observedRawRecord'[c] = observedRawRecord[c], t' = t
    PROVE  RawIsOver(c, t)'
<1>1. CASE observedRawRecord[c] = NoObject
  BY <1>1 DEF RawIsOver, NoObject, ZeroRecord
<1>2. CASE observedRawRecord[c] # NoObject
  <2>1. Raced(observedRawRecord[c]) => Raced(observedRawRecord[c])'
    BY <1>2, ForwardKeeps DEF Seen
  <2> QED
    BY <2>1 DEF RawIsOver
<1> QED
  BY <1>1, <1>2

\* A write is the Create or Update of a try: no one releases.
LEMMA WriteIsSet ==
    ASSUME ~ReleaseOnCancel, LocalInv, NEW c \in Client
    PROVE  /\ IsWrite(c) <=> pc[c] = "set"
           /\ pc[c] # "release"
           /\ call[c].op = "get" <=> pc[c] = "get"
BY NoReleaseCalls DEF LocalInv, TypeOK

\* How a step of c goes on with its call.
LEMMA CallGoesOn ==
    ASSUME ~ReleaseOnCancel, LocalInv, NEW c \in Client,
           Proceed(c) \/ Resume(c) \/ Fail(c) \/ Crash(c)
    PROVE  \/ pc'[c] \notin {"get", "set"} /\ call'[c].op = "none"
           \/ /\ pc'[c] = "get" /\ call'[c].op = "get" /\ call'[c].st = "pending"
              /\ call'[c].at = now /\ pc[c] \in {"wait", "poll"}
           \/ /\ pc'[c] = "set" /\ pc[c] = "get" /\ Resume(c)
              /\ call'[c].st = "pending" /\ call'[c].at = now /\ call'[c].op # "get"
              /\ call'[c].rec.holder = c /\ call'[c].rec.dur = LeaseDuration
              /\ call'[c].rec.renew = call[c].at
           \/ pc'[c] = pc[c] /\ call'[c] = call[c]
BY NoReleaseStep DEF LocalInv, TypeOK

\* A client goes on from one try to a later one.
LEMMA ElectorForward ==
    ASSUME ~ReleaseOnCancel, StoreInv, NEW c \in Client, UNCHANGED <<now, object, raced>>,
           Proceed(c) \/ Resume(c) \/ Fail(c) \/ Crash(c)
    PROVE  Forward
<1>0. LocalInv /\ InterfaceTypeOK /\ ElectorTypeOK /\ GetInv(c) /\ SetInv(c)
  BY DEF StoreInv, LocalInv, TypeOK
<1>t. now \in Nat /\ call[c].at \in Nat /\ call[c].rec.renew \in Nat
  BY <1>0, StoreTypes
<1>1. LastTry(c) <= LastTry(c)'
  BY <1>0, <1>t, CallGoesOn DEF LastTry, GetInv, SetInv
<1>2. ASSUME NEW d \in Client, d # c PROVE LastTry(d) <= LastTry(d)'
  <2>1. SameElector(d) /\ call'[d] = call[d]
    BY <1>0, <1>2, OtherElectors
  <2>2. LastTry(d)' = LastTry(d) /\ LastTry(d) \in Nat
    BY <1>0, <2>1, StoreTypes DEF LastTry, SameElector
  <2> QED
    BY <2>2
<1> QED
  BY <1>t, <1>1, <1>2 DEF Forward

\* What c knows stays true when c observes nothing.
LEMMA ObservedFrame ==
    ASSUME StoreInv, LocalInv', Forward, NEW c \in Client, Seen(etag[c])',
           observedRecord'[c] = observedRecord[c], observedTime'[c] = observedTime[c],
           observedRawRecord'[c] = observedRawRecord[c]
    PROVE  ObservedInv(c)'
<1>0. ObservedInv(c)
  BY DEF StoreInv
<1>1. Seen(observedRawRecord[c])'
  BY <1>0, ForwardSeen DEF ObservedInv
<1>2. ASSUME IsLeader(c) PROVE Made(observedRecord[c])'
  BY <1>0, <1>2, ForwardKeeps DEF ObservedInv
<1>3. ASSUME IsLeader(c), NEW t, t = observedRecord[c].renew PROVE RawIsOver(c, t)'
  BY <1>0, <1>3, ForwardOver DEF ObservedInv
<1>4. ASSUME IsLeader(c) PROVE RawIsOver(c, observedRecord[c].renew)'
  BY <1>3, <1>4
<1> QED
  BY <1>0, <1>1, <1>2, <1>4 DEF ObservedInv, IsLeader

\* What a call of c carries stays true when nothing is done to it.
LEMMA CallFrame ==
    ASSUME StoreInv, LocalInv', Forward, NEW c \in Client, pc'[c] = pc[c],
           call'[c] = call[c], etag'[c] = etag[c], observedRawRecord'[c] = observedRawRecord[c]
    PROVE  GetInv(c)' /\ SetInv(c)' /\ (Seen(etag[c])')
<1>0. LocalInv /\ ObservedInv(c) /\ GetInv(c) /\ SetInv(c)
  BY DEF StoreInv
<1>t. now \in Nat /\ now' \in Nat /\ now <= now' /\ call[c].at \in Nat
  BY <1>0, StoreTypes, StoreTypesNext DEF Forward
<1>1. Seen(etag[c])' /\ (etag[c] # NoObject /\ Past(etag[c]) => Past(etag[c])')
  BY <1>0, ForwardSeen DEF ObservedInv
<1>2. Seen(call[c].rec) => Seen(call[c].rec)'
  BY ForwardSeen
<1>3. observedRawRecord[c] # NoObject /\ Raced(observedRawRecord[c])
        => Raced(observedRawRecord[c])'
  BY <1>0, ForwardKeeps DEF ObservedInv, Seen
<1>4. GetInv(c)'
  BY <1>0, <1>t, <1>1, <1>2, <1>3 DEF GetInv, NoObject
<1>5. ASSUME pc[c] = "set" PROVE Sound(PutOf(c))' /\ RawIsOver(c, call[c].rec.renew)'
  <2>1. ASSUME NEW put, put = PutOf(c) PROVE Sound(put)'
    BY <1>0, <1>5, <2>1, ForwardSound DEF SetInv
  <2>2. PutOf(c)' = PutOf(c)
    BY DEF PutOf
  <2>3. ASSUME NEW t, t = call[c].rec.renew PROVE RawIsOver(c, t)'
    BY <1>0, <1>5, <2>3, ForwardOver DEF SetInv, ObservedInv
  <2> QED
    BY <2>1, <2>2, <2>3
<1>6. SetInv(c)'
  BY <1>0, <1>t, <1>2, <1>5 DEF SetInv
<1> QED
  BY <1>1, <1>4, <1>6

\* Steps of an elector that no call is involved in.
LEMMA OwnProceed ==
    ASSUME ~ReleaseOnCancel, StoreInv, LocalInv', Forward, NEW c \in Client, Proceed(c),
           UNCHANGED now, UNCHANGED s3Vars
    PROVE  ObservedInv(c)' /\ GetInv(c)' /\ SetInv(c)'
<1>0. LocalInv /\ ObservedInv(c) /\ ElectorTypeOK /\ etag'[c] = etag[c] /\ now \in Nat
  BY StoreTypes DEF StoreInv, LocalInv, TypeOK, s3Vars
<1>1. /\ observedRecord'[c] = observedRecord[c] /\ observedTime'[c] = observedTime[c]
      /\ observedRawRecord'[c] = observedRawRecord[c]
  BY DEF Proceed, Run, StartTry, StartRound, PollTick, StopAcquiring, StopBetweenRounds,
         StopPolling, LeaveRenew, Cancel, observedVars
<1>2. ObservedInv(c)'
  BY <1>0, <1>1, ForwardSeen, ObservedFrame DEF ObservedInv
<1>3. \/ pc'[c] \notin {"get", "set"}
      \/ pc'[c] = "get" /\ call'[c].st = "pending" /\ call'[c].at = now
      \/ pc'[c] = pc[c] /\ call'[c] = call[c]
  <2>1. pc'[c] # "set" \/ pc[c] # "get"
    BY <1>0 DEF Proceed, Run, StartTry, StartRound, PollTick, StopAcquiring, StopBetweenRounds,
           StopPolling, LeaveRenew, Cancel, ElectorTypeOK, PCs
  <2> QED
    BY <1>0, <2>1, CallGoesOn
<1>4. CASE pc'[c] = pc[c] /\ call'[c] = call[c]
  BY <1>0, <1>1, <1>2, <1>4, CallFrame
<1>5. CASE pc'[c] \notin {"get", "set"} \/ (pc'[c] = "get" /\ call'[c].st = "pending" /\ call'[c].at = now)
  BY <1>0, <1>2, <1>5 DEF GetInv, SetInv
<1> QED
  BY <1>3, <1>4, <1>5

\* c's call fails, or c dies: it forgets the object, or knows of it what it knew.
LEMMA OwnStops ==
    ASSUME ~ReleaseOnCancel, StoreInv, LocalInv', Forward, NEW c \in Client, UNCHANGED now,
           (Fail(c) /\ Fails(c)) \/ Die(c)
    PROVE  ObservedInv(c)' /\ GetInv(c)' /\ SetInv(c)'
<1>0. LocalInv /\ ObservedInv(c) /\ ElectorTypeOK /\ InterfaceTypeOK /\ S3TypeOK /\ pc[c] # "release"
  BY WriteIsSet DEF StoreInv, LocalInv, TypeOK
<1>1. etag'[c] \in {etag[c], NoObject}
  BY <1>0 DEF Fails, Refused, ContextEnds, Lost, Abandoned, Die, ClientGone, S3TypeOK
<1>2. Seen(etag[c])'
  <2>1. Seen(etag[c]) /\ Seen(NoObject)
    BY <1>0 DEF ObservedInv, Seen
  <2>2. ASSUME NEW r, r = etag'[c] PROVE Seen(r)'
    BY <1>1, <2>1, <2>2, ForwardSeen
  <2> QED
    BY <2>2
<1>3. CASE Fail(c)
  <2>1. CallFails(c)
    BY <1>0, <1>3 DEF Fail, ReleaseFails, ReleaseEnds
  <2>2. pc'[c] \in {"wait", "poll"} /\ UNCHANGED observedVars
    BY <1>0, <2>1 DEF CallFails, TryFails, ElectorTypeOK
  <2>3. ObservedInv(c)'
    BY <1>2, <2>2, ObservedFrame DEF observedVars
  <2> QED
    BY <2>2, <2>3 DEF GetInv, SetInv
<1>4. CASE Die(c)
  <2>1. /\ pc'[c] = "off" /\ observedRecord'[c] = ZeroRecord
        /\ observedRawRecord'[c] = ZeroRecord /\ observedTime'[c] = 0
    BY <1>0, <1>4 DEF Die, Crash, ElectorTypeOK
  <2> QED
    BY <1>2, <2>1, LockAssumption
       DEF ObservedInv, GetInv, SetInv, Seen, IsLeader, NoObject, ZeroRecord
<1> QED
  BY <1>3, <1>4

\* A Get has returned a record: c has now read it last.
LEMMA OwnObserve ==
    ASSUME ~ReleaseOnCancel, StoreInv, LocalInv', Forward, NEW c \in Client, UNCHANGED now,
           pc[c] = "get", call[c].st = "ok", Observe(c, call[c].rec), etag'[c] = etag[c]
    PROVE  /\ ObservedInv(c)' /\ observedRawRecord'[c] = call[c].rec /\ Made(call[c].rec)
           /\ observedRecord'[c].holder = c =>
                \/ call[c].rec.holder = c
                \/ call[c].at >= call[c].rec.renew + LeaseDuration
                \/ Raced(call[c].rec)
<1>0. LocalInv /\ ObservedInv(c) /\ GetInv(c) /\ ElectorTypeOK
  BY DEF StoreInv, LocalInv, TypeOK
<1>1. Seen(call[c].rec) /\ Made(call[c].rec) /\ call[c].rec.holder # NoOne
  BY <1>0, MadeByClient DEF GetInv, Seen
<1>t. /\ call[c].rec.renew \in Nat /\ call[c].rec.renew <= now /\ now \in Nat
      /\ observedTime[c] \in Nat /\ call[c].at \in Nat /\ LeaseDuration \in Nat
      /\ observedRecord[c] \in Record
  BY <1>0, <1>1, MadeByNow, StoreTypes
<1>2. Seen(etag[c])'
  BY <1>0, ForwardSeen DEF ObservedInv
<1>3. CASE observedRawRecord[c] = call[c].rec
  <2>1. UNCHANGED <<observedRecord, observedRawRecord, observedTime>>
    BY <1>3 DEF Observe, observedVars
  <2>2. ObservedInv(c)'
    BY <1>2, <2>1, ObservedFrame
  <2>3. ASSUME IsLeader(c)
        PROVE  \/ call[c].rec.holder = c
               \/ call[c].at >= call[c].rec.renew + LeaseDuration
               \/ Raced(call[c].rec)
    <3>1. observedRecord[c].renew <= call[c].at /\ observedRecord[c].renew \in Nat
      BY <1>0, <2>3, <1>t DEF ObservedInv, IsLeader, Made, LastTry, Record
    <3> QED
      BY <1>0, <1>1, <1>3, <1>t, <2>3, <3>1 DEF ObservedInv, RawIsOver
  <2> QED
    BY <1>1, <1>3, <2>1, <2>2, <2>3 DEF IsLeader
<1>4. CASE observedRawRecord[c] # call[c].rec
  <2>1. /\ observedRecord'[c] = call[c].rec /\ observedTime'[c] = now
        /\ observedRawRecord'[c] = call[c].rec
    BY <1>0, <1>4 DEF Observe, SetObservedRecord, ElectorTypeOK
  <2>2. ASSUME NEW r, r = call[c].rec PROVE Seen(r)' /\ Made(r)'
    BY <1>1, <2>2, ForwardKeeps
  <2>3. Seen(observedRawRecord[c])' /\ Made(observedRecord[c])'
    BY <2>1, <2>2
  <2>4. ObservedInv(c)'
    BY <1>t, <1>2, <2>1, <2>3 DEF ObservedInv, IsLeader, RawIsOver
  <2> QED
    BY <1>1, <2>1, <2>4
<1> QED
  BY <1>3, <1>4

\* A Get has returned and c goes on to write.
LEMMA OwnWrites ==
    ASSUME ~ReleaseOnCancel, StoreInv, LocalInv', Forward, NEW c \in Client, UNCHANGED now,
           Resume(c), pc[c] = "get", pc'[c] = "set", etag'[c] = etag[c], ObservedInv(c)',
           NEW rec, rec = call'[c].rec, RawIsOver(c, rec.renew)',
           \/ etag[c] = NoObject \/ Past(etag[c]) \/ rec = etag[c]
           \/ rec.holder = etag[c].holder /\ rec.renew > etag[c].renew
           \/ rec.renew >= etag[c].renew + LeaseDuration
    PROVE  GetInv(c)' /\ SetInv(c)'
<1>0. LocalInv /\ ObservedInv(c) /\ GetInv(c) /\ TimelyInv(c)
  BY DEF StoreInv, LocalInv
<1>t. /\ now \in Nat /\ call[c].at \in Nat /\ RequestTimeout \in Nat
      /\ rec \in Record /\ rec.renew \in Nat
  BY <1>0, StoreTypes, StoreTypesNext
<1>1. /\ call'[c].st = "pending" /\ call'[c].at = now /\ call'[c].op # "get"
      /\ rec.holder = c /\ rec.dur = LeaseDuration /\ rec.renew = call[c].at
  BY <1>0, CallGoesOn
<1>2. call[c].at <= now /\ now <= call[c].at + RequestTimeout
  BY <1>0, WriteIsSet DEF GetInv, TimelyInv
<1>3. Made(rec)'
  BY <1>t, <1>1 DEF Made, LastTry
<1>4. call'[c].op # "release"
  BY DEF Resume, CreateRecord, LeaseHeld, TakeOrRenew, SetSucceeds, ReleaseSucceeds, ReleaseEnds,
         TryFails, Invoke, Return, Idle, LocalInv, TypeOK, ElectorTypeOK, InterfaceTypeOK,
         StoreInv
<1>5. Sound(PutOf(c))'
  <2>1. PutOf(c)' = [tag |-> etag[c], rec |-> rec, release |-> FALSE]
    BY <1>4 DEF PutOf
  <2>2. etag[c] # NoObject => Made(etag[c])' /\ (Past(etag[c]) => Past(etag[c])')
    BY <1>0, ForwardKeeps DEF ObservedInv, Seen
  <2>3. ASSUME NEW put, put = [tag |-> etag[c], rec |-> rec, release |-> FALSE] PROVE Sound(put)'
    BY <1>3, <2>2, <2>3 DEF Sound
  <2> QED
    BY <2>1, <2>3
<1> QED
  BY <1>t, <1>1, <1>2, <1>5 DEF GetInv, SetInv

\* Steps of an elector when its call has returned.
LEMMA OwnResume ==
    ASSUME ~ReleaseOnCancel, StoreInv, LocalInv', Forward, NEW c \in Client, UNCHANGED now,
           Resume(c), Returns(c)
    PROVE  ObservedInv(c)' /\ GetInv(c)' /\ SetInv(c)'
<1>0. /\ LocalInv /\ ObservedInv(c) /\ GetInv(c) /\ SetInv(c) /\ ElectorTypeOK
      /\ InterfaceTypeOK /\ S3TypeOK
  BY DEF StoreInv, LocalInv, TypeOK
<1>t. /\ now \in Nat /\ call[c].at \in Nat /\ call[c].rec \in Record /\ LeaseDuration \in Nat
      /\ call[c].rec.renew \in Nat /\ observedTime'[c] \in Nat /\ call'[c].rec \in Record
      /\ observedTime[c] \in Nat /\ observedRawRecord[c].renew \in Nat
  BY <1>0, StoreTypes, StoreTypesNext DEF Record
<1>e. pc[c] = "get" => etag'[c] = etag[c]
  BY <1>0, WriteIsSet DEF Returns, S3TypeOK
<1>1. CASE CreateRecord(c)
  <2>1. /\ pc[c] = "get" /\ pc'[c] = "set" /\ call[c].st = "notexist"
        /\ UNCHANGED <<observedRecord, observedRawRecord, observedTime>>
    BY <1>0, <1>1 DEF CreateRecord, observedVars, ElectorTypeOK
  <2>2. ObservedInv(c)'
    BY <1>0, <1>e, <2>1, ForwardSeen, ObservedFrame DEF ObservedInv
  <2>3. ASSUME NEW t PROVE RawIsOver(c, t)'
    <3>1. RawIsOver(c, t)
      BY <1>0, <2>1 DEF GetInv, RawIsOver, ZeroRecord
    <3> QED
      BY <1>0, <2>1, <3>1, ForwardOver DEF ObservedInv
  <2>4. etag[c] = NoObject \/ Past(etag[c])
    BY <1>0, <2>1 DEF GetInv
  <2> QED
    BY <1>e, <2>1, <2>2, <2>3, <2>4, OwnWrites
<1>2. CASE LeaseHeld(c)
  <2>1. pc[c] = "get" /\ call[c].st = "ok" /\ Observe(c, call[c].rec) /\ pc'[c] \in {"wait", "poll"}
    BY <1>0, <1>2 DEF LeaseHeld, TryFails, ElectorTypeOK
  <2>2. ObservedInv(c)'
    BY <1>e, <2>1, OwnObserve
  <2> QED
    BY <2>1, <2>2 DEF GetInv, SetInv
<1>3. CASE TakeOrRenew(c)
  <2>1. /\ pc[c] = "get" /\ call[c].st = "ok" /\ Observe(c, call[c].rec) /\ pc'[c] = "set"
        /\ ~HeldByOther(c, call[c].rec, call[c].at)
    BY <1>0, <1>3 DEF TakeOrRenew, ElectorTypeOK
  <2>2. /\ ObservedInv(c)' /\ observedRawRecord'[c] = call[c].rec /\ Made(call[c].rec)
        /\ observedRecord'[c].holder = c =>
             \/ call[c].rec.holder = c
             \/ call[c].at >= call[c].rec.renew + LeaseDuration
             \/ Raced(call[c].rec)
    BY <1>e, <2>1, OwnObserve
  <2>3. call'[c].rec.trans = IF observedRecord'[c].holder = c
                             THEN call[c].rec.trans ELSE call[c].rec.trans + 1
    BY <1>0, <1>3 DEF TakeOrRenew, Invoke, NewRecord, InterfaceTypeOK
  <2>4. /\ call'[c].rec.holder = c /\ call'[c].rec.dur = LeaseDuration
        /\ call'[c].rec.renew = call[c].at
    BY <1>0, <2>1, CallGoesOn
  \* Why c may write: the record it has read is its own, over, or raced.
  <2>5. \/ call[c].rec.holder = c
        \/ call[c].at >= call[c].rec.renew + LeaseDuration
        \/ Raced(call[c].rec)
    <3>1. CASE observedRecord'[c].holder = c
      BY <2>2, <3>1
    <3>2. CASE observedRecord'[c].holder # c
      <4>1. observedTime'[c] + LeaseDuration <= call[c].at
        BY <1>t, <2>1, <2>2, <3>2, LockAssumption DEF HeldByOther, Made
      <4>2. call[c].rec.renew <= observedTime'[c]
        BY <2>2 DEF ObservedInv
      <4> QED
        BY <1>t, <4>1, <4>2
    <3> QED
      BY <3>1, <3>2
  <2>6. ASSUME NEW t, t = call'[c].rec.renew PROVE RawIsOver(c, t)'
    <3>1. ASSUME NEW r, r = call[c].rec, Raced(r) PROVE Raced(r)'
      BY <2>2, <3>1, ForwardKeeps
    <3>2. Raced(call[c].rec) => Raced(observedRawRecord[c])'
      BY <2>2, <3>1
    <3> QED
      BY <2>2, <2>4, <2>5, <2>6, <3>2 DEF RawIsOver
  <2>7. ASSUME call[c].rec.holder = c
        PROVE  call'[c].rec = call[c].rec \/ call'[c].rec.renew > call[c].rec.renew
    <3>1. observedRecord'[c].holder = c
      BY <2>2, <2>7 DEF ObservedInv, IsLeader
    <3>2. call[c].rec.renew <= call[c].at /\ call[c].rec.dur = LeaseDuration
      BY <2>1, <2>2, <2>7 DEF Made, LastTry
    <3>3. call'[c].rec.trans = call[c].rec.trans
      BY <2>3, <3>1
    <3> QED
      BY <1>t, <2>4, <2>7, <3>2, <3>3 DEF Record
  <2>8. ASSUME NEW rec, rec = call'[c].rec
        PROVE  \/ etag[c] = NoObject \/ Past(etag[c]) \/ rec = etag[c]
               \/ rec.holder = etag[c].holder /\ rec.renew > etag[c].renew
               \/ rec.renew >= etag[c].renew + LeaseDuration
    <3>1. etag[c] \in {NoObject, call[c].rec} \/ Past(etag[c])
      BY <1>0, <2>1 DEF GetInv
    <3> QED
      BY <2>4, <2>5, <2>7, <2>8, <3>1 DEF Past
  <2> QED
    BY <1>e, <2>1, <2>2, <2>6, <2>8, OwnWrites
<1>4. CASE SetSucceeds(c)
  <2>1. /\ pc[c] = "set" /\ call[c].st = "ok" /\ pc'[c] = "wait"
        /\ observedRecord'[c] = call[c].rec /\ observedTime'[c] = now
        /\ observedRawRecord'[c] = observedRawRecord[c]
    BY <1>0, <1>4 DEF SetSucceeds, SetObservedRecord, ElectorTypeOK
  <2>2. etag'[c] = call[c].rec /\ call[c].rec.holder = c
    BY <1>0, <2>1, WriteIsSet DEF Returns, S3TypeOK, SetInv
  <2>3. Seen(call[c].rec) /\ Made(call[c].rec)
    BY <1>0, <2>1 DEF SetInv, Sound, PutOf
  <2>4. ASSUME NEW r, r = call[c].rec PROVE Seen(r)' /\ Made(r)'
    BY <2>3, <2>4, ForwardKeeps
  <2>5. Seen(etag[c])' /\ Made(observedRecord[c])' /\ Seen(observedRawRecord[c])'
    BY <1>0, <2>1, <2>2, <2>4, ForwardSeen DEF ObservedInv
  <2>6. ASSUME NEW t, t = call[c].rec.renew PROVE RawIsOver(c, t)'
    BY <1>0, <2>1, <2>6, ForwardOver DEF SetInv, ObservedInv
  <2>7. RawIsOver(c, observedRecord[c].renew)'
    BY <2>1, <2>6
  <2>8. observedRawRecord[c].renew <= now
    BY <1>0, <1>t, MadeByNow DEF ObservedInv, Seen, NoObject, ZeroRecord
  <2> QED
    BY <2>1, <2>2, <2>5, <2>7, <2>8 DEF ObservedInv, GetInv, SetInv, IsLeader
<1>5. ~ReleaseSucceeds(c)
  BY <1>0, WriteIsSet DEF ReleaseSucceeds, ReleaseEnds
<1> QED
  BY <1>1, <1>2, <1>3, <1>4, <1>5 DEF Resume

\* A step of an elector, or the death of a client.
LEMMA ElectorKeeps ==
    ASSUME ~ReleaseOnCancel, StoreInv, LocalInv', NEW c \in Client, ElectorStep(c) \/ Die(c),
           UNCHANGED now
    PROVE  StoreInv' /\ Forward /\ UNCHANGED <<object, raced>>
<1>0. /\ LocalInv /\ TypeOK /\ InterfaceTypeOK /\ ElectorTypeOK /\ S3TypeOK /\ ObjectInv
      /\ \A d \in Client : ObservedInv(d) /\ GetInv(d) /\ SetInv(d)
  BY DEF StoreInv, LocalInv, TypeOK
<1>1. Proceed(c) \/ Resume(c) \/ Fail(c) \/ Crash(c)
  BY DEF ElectorStep, Die
<1>2. UNCHANGED <<object, raced>>
  BY <1>0, LockSideType DEF ElectorStep, Die, s3Vars
<1>3. Forward
  BY <1>1, <1>2, ElectorForward
<1>4. ObjectInv'
  <2>1. ASSUME NEW r, r = object, r # NoObject PROVE Made(r)'
    BY <1>0, <1>3, <2>1, ForwardKeeps DEF ObjectInv
  <2>2. ASSUME NEW put \in late' PROVE Sound(put)'
    <3>1. put \in late \/ (PendingWrite(c) /\ put = PutOf(c))
      BY <2>2 DEF ElectorStep, Die, Returns, Fails, Refused, ContextEnds, Lost, Abandoned,
         ClientGone, s3Vars
    <3>2. PendingWrite(c) => Sound(PutOf(c))
      BY <1>0, WriteIsSet DEF PendingWrite, SetInv
    <3> QED
      BY <1>0, <1>3, <3>1, <3>2, ForwardSound DEF ObjectInv
  <2>3. object' # NoObject => Made(object)'
    BY <1>2, <2>1
  <2> QED
    BY <2>2, <2>3 DEF ObjectInv, NoObject
<1>5. ASSUME NEW d \in Client, d # c PROVE ObservedInv(d)' /\ GetInv(d)' /\ SetInv(d)'
  <2>1. SameElector(d) /\ call'[d] = call[d]
    BY <1>0, <1>1, <1>5, OtherElectors
  <2>2. etag'[d] = etag[d]
    BY <1>0, <1>5 DEF ElectorStep, Die, Returns, Fails, Refused, ContextEnds, Lost, Abandoned,
       ClientGone, s3Vars, S3TypeOK
  <2>3. GetInv(d)' /\ SetInv(d)' /\ (Seen(etag[d])')
    BY <1>3, <2>1, <2>2, CallFrame DEF SameElector
  <2>4. ObservedInv(d)'
    BY <1>3, <2>1, <2>3, ObservedFrame DEF SameElector
  <2> QED
    BY <2>3, <2>4
<1>6. ObservedInv(c)' /\ GetInv(c)' /\ SetInv(c)'
  <2>1. CASE Proceed(c) /\ UNCHANGED s3Vars
    BY <1>3, <2>1, OwnProceed
  <2>2. CASE Resume(c) /\ Returns(c)
    BY <1>3, <2>2, OwnResume
  <2>3. CASE (Fail(c) /\ Fails(c)) \/ Die(c)
    BY <1>3, <2>3, OwnStops
  <2> QED
    BY <2>1, <2>2, <2>3 DEF ElectorStep
<1> QED
  BY <1>2, <1>3, <1>4, <1>5, <1>6 DEF StoreInv

\* A sound PutObject replaces the record its client knew by a later one, or races.
LEMMA StoreForward ==
    ASSUME StoreInv, NEW put, Sound(put), Store(put), UNCHANGED now,
           \A d \in Client : LastTry(d)' = LastTry(d)
    PROVE  /\ Forward /\ object' = put.rec
           /\ \/ raced' = now
              \/ raced' = raced /\ object = put.tag
<1>0. LocalInv /\ \A d \in Client : LastTry(d) \in Nat
  BY StoreTypes DEF StoreInv
<1>t. /\ now \in Nat /\ object.renew \in Nat /\ LeaseDuration \in Nat /\ LeaseDuration > 0
      /\ put.rec.renew \in Nat
  BY <1>0, StoreTypes, MadeByNow DEF Sound
<1>1. object' = put.rec /\ raced' = IF object = put.tag THEN raced ELSE now
  BY DEF Store, Sound
<1>2. CASE object # put.tag
  BY <1>0, <1>t, <1>1, <1>2 DEF Forward
<1>3. CASE object = put.tag
  <2>1. \/ object = NoObject \/ Past(object) \/ object' = object \/ object'.renew > object.renew
    BY <1>t, <1>1, <1>3 DEF Sound
  <2>2. Past(object) => Raced(object)
    BY <1>t DEF Past
  <2> QED
    BY <1>0, <1>t, <1>1, <1>3, <2>1, <2>2 DEF Forward
<1> QED
  BY <1>2, <1>3

\* The object after a sound PutObject.
LEMMA StoreObject ==
    ASSUME StoreInv, LocalInv', NEW put, Sound(put), Store(put), UNCHANGED now, late' \subseteq late,
           \A d \in Client : LastTry(d)' = LastTry(d)
    PROVE  ObjectInv' /\ (Seen(object)')
<1>1. Forward /\ object' = put.rec /\ Made(put.rec)
  BY StoreForward DEF Sound
<1>2. Made(put.rec)'
  BY <1>1, ForwardKeeps
<1>3. Made(object)'
  BY <1>1, <1>2 DEF Made
<1>4. \A p \in late' : Sound(p)'
  BY <1>1, ForwardSound DEF StoreInv, ObjectInv
<1> QED
  BY <1>3, <1>4 DEF ObjectInv, Seen

\* A client whose call the store does not act on.
LEMMA StoreLeaves ==
    ASSUME StoreInv, LocalInv', Forward, NEW d \in Client, UNCHANGED electorVars,
           call'[d] = call[d], etag'[d] = etag[d]
    PROVE  ObservedInv(d)' /\ GetInv(d)' /\ SetInv(d)'
<1>1. /\ pc' = pc /\ observedRecord' = observedRecord /\ observedTime' = observedTime
      /\ observedRawRecord' = observedRawRecord
  BY DEF electorVars, observedVars
<1>2. GetInv(d)' /\ SetInv(d)' /\ (Seen(etag[d])')
  BY <1>1, CallFrame
<1> QED
  BY <1>1, <1>2, ObservedFrame

\* The store carries out a late PutObject, or the object is deleted.
LEMMA LateKeeps ==
    ASSUME StoreInv, LocalInv', UNCHANGED <<now, cancelled, deadline, electorVars>>,
           (\E put \in late : LatePut(put)) \/ DeleteObject
    PROVE  StoreInv' /\ Forward
<1>0. /\ LocalInv /\ ObjectInv /\ now \in Nat /\ \A d \in Client : LastTry(d) \in Nat
      /\ call' = call /\ etag' = etag
  BY StoreTypes DEF StoreInv, LatePut, DeleteObject
<1>1. \A d \in Client : LastTry(d)' = LastTry(d)
  BY <1>0 DEF LastTry, electorVars
<1>2. CASE \E put \in late : LatePut(put)
  <2>1. PICK put \in late : LatePut(put)
    BY <1>2
  <2>2. Sound(put) /\ Store(put) /\ late' \subseteq late
    BY <1>0, <2>1 DEF ObjectInv, LatePut
  <2>3. Forward /\ ObjectInv'
    BY <1>1, <2>2, StoreForward, StoreObject
  <2> QED
    BY <1>0, <2>3, StoreLeaves DEF StoreInv
<1>3. CASE DeleteObject
  <2>1. Forward /\ object' = NoObject /\ late' = late
    BY <1>0, <1>1, <1>3 DEF DeleteObject, Forward
  <2>2. ObjectInv'
    BY <1>0, <2>1, ForwardSound DEF ObjectInv, NoObject
  <2> QED
    BY <1>0, <2>1, <2>2, StoreLeaves DEF StoreInv
<1> QED
  BY <1>2, <1>3

\* The store acts on a request of c.
LEMMA RequestKeeps ==
    ASSUME ~ReleaseOnCancel, StoreInv, LocalInv', NEW c \in Client, StoreStep(c),
           UNCHANGED <<now, cancelled, deadline, electorVars>>
    PROVE  StoreInv' /\ Forward
<1>0. /\ LocalInv /\ ObjectInv /\ ObservedInv(c) /\ GetInv(c) /\ SetInv(c)
      /\ call \in [Client -> Call] /\ etag \in [Client -> Record]
      /\ now \in Nat /\ now' = now /\ call[c].at \in Nat
      /\ \A d \in Client : LastTry(d) \in Nat
      /\ pc' = pc /\ observedRecord' = observedRecord /\ observedTime' = observedTime
      /\ observedRawRecord' = observedRawRecord
  BY StoreTypes DEF StoreInv, LocalInv, TypeOK, InterfaceTypeOK, S3TypeOK, electorVars,
     observedVars
<1>n. NoObject.renew = 0 /\ object.renew \in Nat /\ observedRawRecord[c].renew \in Nat
  BY <1>0, StoreTypes DEF NoObject, ZeroRecord, Record
<1>1. \A d \in Client \ {c} : call'[d] = call[d] /\ etag'[d] = etag[d]
  BY <1>0 DEF StoreStep, GetStat, GetStatFails, GetObject, SetStat, PutObject, Answer, s3Vars
<1>2. call'[c].at = call[c].at /\ (IsWrite(c) => call'[c].rec = call[c].rec)
      /\ call'[c].op = call[c].op
  BY <1>0 DEF StoreStep, GetStat, GetStatFails, GetObject, SetStat, PutObject, Answer,
     Pending, IsWrite
<1>3. \A d \in Client : LastTry(d)' = LastTry(d)
  <2>1. LastTry(c)' = LastTry(c)
    BY <1>0, <1>2, WriteIsSet DEF LastTry
  <2> QED
    BY <1>0, <1>1, <2>1 DEF LastTry
\* It is enough to look at the object and at c.
<1>4. ASSUME Forward, ObjectInv', Seen(etag[c])', GetInv(c)', SetInv(c)' PROVE StoreInv' /\ Forward
  <2>1. ObservedInv(c)'
    BY <1>0, <1>4, ObservedFrame
  <2>2. ASSUME NEW d \in Client, d # c PROVE ObservedInv(d)' /\ GetInv(d)' /\ SetInv(d)'
    BY <1>1, <1>4, <2>2, StoreLeaves
  <2> QED
    BY <1>4, <2>1, <2>2 DEF StoreInv
<1>5. ASSUME UNCHANGED <<object, raced, late>> PROVE Forward /\ ObjectInv'
  <2>1. Forward
    BY <1>0, <1>3, <1>5 DEF Forward
  <2>2. ASSUME NEW r, r = object, r # NoObject PROVE Made(r)'
    BY <1>0, <2>1, <2>2, ForwardKeeps DEF ObjectInv
  <2>3. object' # NoObject => Made(object)'
    BY <1>5, <2>2
  <2>4. \A p \in late' : Sound(p)'
    BY <1>0, <1>5, <2>1, ForwardSound DEF ObjectInv
  <2> QED
    BY <2>1, <2>3, <2>4 DEF ObjectInv, NoObject
<1>6. Seen(object)
  BY <1>0 DEF ObjectInv, Seen
<1>7. CASE GetStat(c) /\ object = NoObject
  <2>1. /\ Forward /\ ObjectInv' /\ pc[c] = "get" /\ etag'[c] = etag[c]
        /\ call'[c].st = "notexist"
    BY <1>0, <1>5, <1>7, WriteIsSet DEF GetStat, Pending, Answer
  <2>2. Seen(etag[c])' /\ (etag[c] # NoObject => Past(etag[c])')
    BY <1>0, <1>7, <2>1, ForwardSeen DEF ObservedInv, Seen
  <2>3. observedRawRecord[c] # NoObject => Raced(observedRawRecord[c])'
    BY <1>0, <1>n, <1>7, <2>1, ForwardKeeps DEF ObservedInv, Seen, Past
  <2>4. GetInv(c)' /\ SetInv(c)'
    BY <1>0, <1>2, <2>1, <2>2, <2>3 DEF GetInv, SetInv, NoObject
  <2> QED
    BY <1>4, <2>1, <2>2, <2>4
<1>8. CASE (GetStat(c) /\ object # NoObject) \/ GetStatFails(c)
  <2>1. /\ Forward /\ ObjectInv' /\ pc[c] = "get" /\ call' = call /\ call[c].st = "pending"
        /\ etag'[c] \in {object, NoObject}
    BY <1>0, <1>5, <1>8, WriteIsSet DEF GetStat, GetStatFails, Pending
  <2>2. ASSUME NEW r, r = etag'[c] PROVE Seen(r)'
    <3>1. Seen(r)
      BY <1>6, <2>1, <2>2 DEF Seen
    <3> QED
      BY <2>1, <3>1, ForwardSeen
  <2>3. Seen(etag[c])'
    BY <2>2
  <2>4. GetInv(c)' /\ SetInv(c)'
    BY <1>0, <2>1 DEF GetInv, SetInv
  <2> QED
    BY <1>4, <2>1, <2>3, <2>4
<1>9. CASE GetObject(c)
  <2>1. /\ Forward /\ ObjectInv' /\ pc[c] = "get" /\ etag'[c] = etag[c]
        /\ call'[c].st = "ok" /\ call'[c].rec = object /\ object # NoObject
    BY <1>0, <1>5, <1>9, WriteIsSet DEF GetObject, Pending, Answer, s3Vars
  <2>2. /\ Seen(etag[c])' /\ (etag[c] \in {NoObject, object} \/ Past(etag[c])')
    BY <1>0, <2>1, ForwardSeen DEF ObservedInv, Seen
  <2>3. ASSUME NEW r, r = object PROVE Seen(r)'
    BY <1>6, <2>1, <2>3, ForwardSeen
  <2>4. Seen(call[c].rec)'
    BY <2>1, <2>3
  <2>5. GetInv(c)' /\ SetInv(c)'
    BY <1>0, <1>2, <2>1, <2>2, <2>4 DEF GetInv, SetInv, NoObject
  <2> QED
    BY <1>4, <2>1, <2>2, <2>5
<1>10. CASE SetStat(c)
  <2>1. Forward /\ ObjectInv' /\ call' = call /\ etag' = etag
    BY <1>5, <1>10 DEF SetStat
  <2>2. GetInv(c)' /\ SetInv(c)' /\ (Seen(etag[c])')
    BY <1>0, <2>1, CallFrame
  <2> QED
    BY <1>4, <2>1, <2>2
<1>11. CASE PutObject(c)
  <2>1. /\ pc[c] = "set" /\ Store(PutOf(c)) /\ late' = late /\ etag' = etag
        /\ call'[c].st = "ok" /\ call'[c].rec = call[c].rec /\ call'[c].op = call[c].op
    BY <1>0, <1>11, WriteIsSet DEF PutObject, PendingWrite, Answer
  <2>2. Sound(PutOf(c))
    BY <1>0, <2>1 DEF SetInv
  <2>3. Forward /\ object' = call[c].rec /\ ObjectInv' /\ (Seen(object)')
    BY <1>0, <1>3, <2>1, <2>2, StoreForward, StoreObject DEF PutOf
  <2>4. Seen(etag[c])'
    BY <1>0, <2>1, <2>3, ForwardSeen DEF ObservedInv
  <2>5. Seen(call[c].rec)'
    BY <2>1, <2>3
  <2>6. Sound(PutOf(c))'
    <3>1. PutOf(c)' = PutOf(c)
      BY <2>1 DEF PutOf
    <3>2. ASSUME NEW put, put = PutOf(c) PROVE Sound(put)'
      BY <2>2, <2>3, <3>2, ForwardSound
    <3> QED
      BY <3>1, <3>2
  <2>7. ASSUME NEW t, t = call[c].rec.renew PROVE RawIsOver(c, t)'
    BY <1>0, <2>1, <2>3, <2>7, ForwardOver DEF SetInv, ObservedInv
  <2>8. RawIsOver(c, call[c].rec.renew)'
    BY <2>1, <2>7
  <2>9. GetInv(c)' /\ SetInv(c)'
    BY <1>0, <1>2, <2>1, <2>5, <2>6, <2>8 DEF GetInv, SetInv
  <2> QED
    BY <1>4, <2>3, <2>4, <2>9
<1> QED
  BY <1>7, <1>8, <1>9, <1>10, <1>11 DEF StoreStep

\* Time passes, or nothing happens.
LEMMA TickKeeps ==
    ASSUME StoreInv, LocalInv', Tick \/ UNCHANGED vars
    PROVE  StoreInv' /\ Forward /\ UNCHANGED <<object, raced>>
<1>0. /\ LocalInv /\ ObjectInv /\ now \in Nat /\ now' \in {now, now + 1}
      /\ call' = call /\ UNCHANGED electorVars /\ object' = object /\ raced' = raced
      /\ etag' = etag /\ late' = late
      /\ \A d \in Client : LastTry(d) \in Nat
  BY StoreTypes DEF StoreInv, Tick, vars, interfaceVars, s3Vars
<1>1. Forward
  <2>1. \A d \in Client : LastTry(d)' \in {LastTry(d), LastTry(d) + 1}
    BY <1>0 DEF LastTry, electorVars
  <2> QED
    BY <1>0, <2>1 DEF Forward
<1>2. ASSUME NEW r, r = object, r # NoObject PROVE Made(r)'
  BY <1>0, <1>1, <1>2, ForwardKeeps DEF ObjectInv
<1>3. object' # NoObject => Made(object)'
  BY <1>0, <1>2
<1>4. \A p \in late' : Sound(p)'
  BY <1>0, <1>1, ForwardSound DEF ObjectInv
<1>5. \A d \in Client : ObservedInv(d)' /\ GetInv(d)' /\ SetInv(d)'
  BY <1>0, <1>1, StoreLeaves
<1> QED
  BY <1>0, <1>1, <1>3, <1>4, <1>5 DEF StoreInv, ObjectInv, NoObject

\* Initially there is no object, and no one knows of one.
LEMMA StoreInvInit ==
    ASSUME Init PROVE StoreInv
<1>1. LocalInv
  BY LocalInit
<1>2. /\ object = NoObject /\ late = {}
      /\ \A c \in Client : /\ pc[c] = "off" /\ etag[c] = NoObject
                           /\ observedRecord[c] = ZeroRecord
                           /\ observedRawRecord[c] = ZeroRecord /\ observedTime[c] = 0
  BY DEF Init, ElectorInit, S3Init
<1>3. ASSUME NEW c \in Client PROVE ObservedInv(c) /\ GetInv(c) /\ SetInv(c)
  BY <1>2, LockAssumption DEF ObservedInv, GetInv, SetInv, Seen, IsLeader, NoObject, ZeroRecord
<1> QED
  BY <1>1, <1>2, <1>3 DEF StoreInv, ObjectInv

\* Every step preserves the invariant, and moves the object forward.
LEMMA StoreInvStep ==
    ASSUME ~ReleaseOnCancel, StoreInv, [Next]_vars PROVE StoreInv' /\ Forward
<1>0. LocalInv'
  BY LocalStep DEF StoreInv
<1> QED
  BY <1>0, TickKeeps, ElectorKeeps, RequestKeeps, LateKeeps DEF Next

\* When no one releases, every PutObject of s3.go that replaces the object its
\* client knew renews it or takes over a lease that has ended, however late.
THEOREM StoreInvariant == ~ReleaseOnCancel => (Spec => []StoreInv)
<1> SUFFICES ASSUME ~ReleaseOnCancel PROVE Spec => []StoreInv
  OBVIOUS
<1>1. Init => StoreInv
  BY StoreInvInit
<1>2. StoreInv /\ [Next]_vars => StoreInv'
  BY StoreInvStep
<1> QED
  BY <1>1, <1>2, PTL DEF Spec

\* A sound PutObject that changes the holder waits for the end of the lease, or
\* comes after a race.
LEMMA PutWaits ==
    ASSUME StoreInv, NEW put, Sound(put), Store(put), UNCHANGED now,
           \A d \in Client : LastTry(d)' = LastTry(d),
           object # NoObject, object'.holder # object.holder
    PROVE  \/ now >= object.renew + object.dur
           \/ object.renew <= raced' /\ raced' <= now
<1>0. LocalInv /\ ObjectInv /\ Made(put.rec) /\ Made(object) /\ object.dur = LeaseDuration
  BY DEF StoreInv, ObjectInv, Sound, Made
<1>t. /\ now \in Nat /\ object.renew \in Nat /\ LeaseDuration \in Nat /\ object.renew <= now
      /\ put.rec.renew \in Nat /\ put.rec.renew <= now
  BY <1>0, StoreTypes, MadeByNow
<1>1. object' = put.rec /\ (raced' = now \/ (raced' = raced /\ object = put.tag))
  BY StoreForward
<1>2. CASE raced' = now
  BY <1>t, <1>2
<1>3. CASE raced' = raced /\ object = put.tag
  BY <1>0, <1>t, <1>1, <1>3 DEF Sound, Past, Raced
<1> QED
  BY <1>1, <1>2, <1>3

\* The steps of the store that write: a sound PutObject, by a client that waits
\* for it or by one that has gone.
LEMMA ObjectChanges ==
    ASSUME ~ReleaseOnCancel, StoreInv, [Next]_vars
    PROVE  \/ UNCHANGED <<object, raced>>
           \/ object' = NoObject /\ raced' = now /\ UNCHANGED <<now, electorVars, call, cancelled, deadline>>
           \/ /\ UNCHANGED <<now, electorVars, cancelled, deadline>>
              /\ \A d \in Client : LastTry(d)' = LastTry(d)
              /\ \E put : /\ Sound(put) /\ Store(put)
                          /\ \A d \in Client : call'[d] = call[d]
                               \/ (pc[d] = "set" /\ put = PutOf(d) /\ call'[d].rec = call[d].rec)
<1>0. /\ LocalInv /\ ObjectInv /\ call \in [Client -> Call] /\ LocalInv'
      /\ \A d \in Client : SetInv(d)
  BY LocalStep DEF StoreInv, LocalInv, TypeOK, InterfaceTypeOK
<1>1. CASE Tick \/ UNCHANGED vars
  BY <1>0, <1>1, TickKeeps
<1>2. ASSUME NEW c \in Client, ElectorStep(c) \/ Die(c), UNCHANGED now
      PROVE  UNCHANGED <<object, raced>>
  BY <1>0, <1>2, ElectorKeeps
<1>3. ASSUME UNCHANGED <<now, cancelled, deadline, electorVars>>
      PROVE  UNCHANGED <<now, electorVars, cancelled, deadline>> /\ pc' = pc
  BY <1>3 DEF electorVars
<1>4. ASSUME UNCHANGED <<now, cancelled, deadline, electorVars>>, NEW c \in Client, StoreStep(c)
      PROVE  \/ UNCHANGED <<object, raced>>
             \/ /\ \A d \in Client : LastTry(d)' = LastTry(d)
                /\ Sound(PutOf(c)) /\ Store(PutOf(c))
                /\ \A d \in Client : call'[d] = call[d]
                     \/ (pc[d] = "set" /\ PutOf(c) = PutOf(d) /\ call'[d].rec = call[d].rec)
  <2>1. CASE PutObject(c)
    <3>1. pc[c] = "set" /\ Store(PutOf(c)) /\ Answer(c, "ok", call[c].rec, 0)
      BY <1>0, <2>1, WriteIsSet DEF PutObject, PendingWrite
    <3>2. Sound(PutOf(c))
      BY <1>0, <3>1 DEF SetInv
    <3>3. /\ \A d \in Client \ {c} : call'[d] = call[d]
          /\ call'[c].rec = call[c].rec
      BY <1>0, <3>1 DEF Answer
    <3>4. \A d \in Client : LastTry(d)' = LastTry(d)
      BY <1>3, <1>4, <3>1, <3>3 DEF LastTry
    <3> QED
      BY <3>1, <3>2, <3>3, <3>4
  <2>2. CASE ~PutObject(c)
    BY <1>4, <2>2 DEF StoreStep, GetStat, GetStatFails, GetObject, SetStat, s3Vars
  <2> QED
    BY <2>1, <2>2
<1>5. ASSUME UNCHANGED <<now, cancelled, deadline, electorVars>>, NEW put \in late, LatePut(put)
      PROVE  /\ \A d \in Client : LastTry(d)' = LastTry(d)
             /\ Sound(put) /\ Store(put) /\ call' = call
  BY <1>0, <1>3, <1>5 DEF LatePut, LastTry, ObjectInv
<1>6. ASSUME UNCHANGED <<now, cancelled, deadline, electorVars>>, DeleteObject
      PROVE  object' = NoObject /\ raced' = now /\ UNCHANGED <<now, electorVars, call, cancelled, deadline>>
  BY <1>6 DEF DeleteObject
<1> QED
  BY <1>1, <1>2, <1>3, <1>4, <1>5, <1>6 DEF Next

\* No holder loses its lease early but to a race: the unconditional PutObject of
\* s3.go takes the lease of another before it has expired only if the object was
\* deleted, or overwritten by a client that had not seen it, since that lease
\* was last renewed.
THEOREM TakeoverSafe == ~ReleaseOnCancel => (Spec => TakeoverWaitsLease)
<1> SUFFICES ASSUME ~ReleaseOnCancel PROVE Spec => TakeoverWaitsLease
  OBVIOUS
<1>1. Spec => []StoreInv
  BY StoreInvariant
<1>2. StoreInv /\ [Next]_vars =>
        [object # NoObject /\ object' # NoObject /\ object'.holder # object.holder =>
           \/ now >= object.renew + object.dur
           \/ object.renew <= raced' /\ raced' <= now]_vars
  <2> SUFFICES ASSUME StoreInv, [Next]_vars, object # NoObject, object' # NoObject,
                      object'.holder # object.holder
               PROVE  \/ now >= object.renew + object.dur
                      \/ object.renew <= raced' /\ raced' <= now
    OBVIOUS
  <2> QED
    BY ObjectChanges, PutWaits
<1> QED
  BY <1>1, <1>2, PTL DEF Spec, TakeoverWaitsLease

-----------------------------------------------------------------------------
(***************************************************************************)
(* The leaders.                                                            *)
(***************************************************************************)
\* The configuration the rest is about: no releases, and a lease that outlasts
\* the time a leader may act.
SafeConfig == ~ReleaseOnCancel /\ LeaseDuration > LeadTime

\* The durations as numbers.
LEMMA Durations ==
    ASSUME SafeConfig
    PROVE  /\ RequestTimeout \in Nat /\ RetryPeriod \in Nat /\ RenewDeadline \in Nat
           /\ LeaseDuration \in Nat /\ LeadTime \in Nat
           /\ LeadTime = 2 * RequestTimeout + RetryPeriod + RenewDeadline
           /\ LeaseDuration > LeadTime
BY LockAssumption, ElectorAssumption DEF SafeConfig, LeadTime

\* The object stays that of a client whose lease runs, but for a race.
LEMMA HeldSinceKept ==
    ASSUME SafeConfig, StoreInv, [Next]_vars, NEW c \in Client, NEW t \in Int, HeldSince(c, t),
           now < t + LeaseDuration
    PROVE  HeldSince(c, t)'
<1>0. LocalInv /\ LocalInv' /\ ObjectInv /\ ~ReleaseOnCancel /\ Forward
  BY StoreInvStep DEF StoreInv, SafeConfig
<1>t. /\ now \in Nat /\ raced \in Nat /\ object.renew \in Nat /\ now' \in Nat
      /\ LeaseDuration \in Nat
  BY <1>0, StoreTypes, StoreTypesNext
<1>1. now <= now'
  BY <1>0 DEF Forward
<1>2. ASSUME object.holder = c PROVE object # NoObject /\ Made(object) /\ object.renew <= now
  <2>1. object # NoObject
    BY <1>2, LockAssumption DEF NoObject, ZeroRecord
  <2> QED
    BY <1>0, <2>1, MadeByNow DEF ObjectInv
<1>3. t <= now
  BY <1>t, <1>2 DEF HeldSince
<1>4. CASE UNCHANGED <<object, raced>>
  BY <1>t, <1>1, <1>4 DEF HeldSince
<1>5. CASE raced' = now
  BY <1>t, <1>1, <1>3, <1>5 DEF HeldSince
<1>6. ASSUME NEW put, Sound(put), object' = put.rec, raced' = raced, object = put.tag,
             now' = now
      PROVE  HeldSince(c, t)'
  <2>1. CASE t <= raced /\ raced <= now
    BY <1>6, <2>1 DEF HeldSince
  <2>2. CASE object.holder = c /\ t <= object.renew
    <3>1. put.rec.renew \in Nat /\ put.rec.renew <= now
      BY <1>6, MadeByNow DEF Sound
    <3>2. \/ Raced(object) \/ put.rec = object
          \/ put.rec.holder = c /\ put.rec.renew > object.renew
          \/ put.rec.renew >= object.renew + LeaseDuration
      BY <1>t, <1>2, <1>6, <2>2 DEF Sound, Past
    <3> QED
      BY <1>t, <1>6, <2>2, <3>1, <3>2 DEF HeldSince, Raced
  <2> QED
    BY <2>1, <2>2 DEF HeldSince
<1> QED
  BY <1>0, <1>4, <1>5, <1>6, ObjectChanges, StoreForward

\* A leader has until LeadEnd, a client that is about to lead until its call
\* times out: the lease runs for longer.
LEMMA LeaseRuns ==
    ASSUME SafeConfig, StoreInv, NEW c \in Client
    PROVE  /\ LeadEnd(c) \in Nat
           /\ leading[c] => pc[c] # "off" /\ now <= LeadEnd(c) /\ now < LeadEnd(c) - LeadTime + LeaseDuration
           /\ pc[c] = "set" => /\ now <= call[c].rec.renew + 2 * RequestTimeout
                               /\ now < call[c].rec.renew + LeaseDuration
<1>0. /\ LocalInv /\ SetInv(c) /\ ElectorInv(c) /\ TimelyInv(c) /\ ~ReleaseOnCancel
  BY DEF StoreInv, LocalInv, SafeConfig
<1>t. /\ now \in Nat /\ call[c].at \in Nat /\ call[c].rec.renew \in Nat
      /\ wake[c] \in Nat /\ deadline[c] \in Nat
      /\ RequestTimeout \in Nat /\ RetryPeriod \in Nat /\ RenewDeadline \in Nat
      /\ LeaseDuration \in Nat /\ LeadTime \in Nat /\ LeaseDuration > LeadTime
      /\ LeadTime = 2 * RequestTimeout + RetryPeriod + RenewDeadline
  BY <1>0, StoreTypes, Durations
<1>1. LeadEnd(c) \in Nat
  BY <1>t DEF LeadEnd
<1>2. ASSUME leading[c] PROVE pc[c] # "off" /\ now <= LeadEnd(c)
  <2>1. pc[c] \in {"wait", "poll", "get", "set"} /\ inRenew[c]
    BY <1>0, <1>2, WriteIsSet DEF ElectorInv, GiveUpInv
  <2> QED
    BY <1>0, <1>t, <2>1 DEF ElectorInv, TimersInv, InRound, LeadEnd
<1>3. ASSUME pc[c] = "set" PROVE now <= call[c].rec.renew + 2 * RequestTimeout
  <2>1. now <= call[c].at + RequestTimeout
    BY <1>0, <1>3, WriteIsSet DEF TimelyInv, IsWrite
  <2> QED
    BY <1>0, <1>t, <1>3, <2>1 DEF SetInv
<1> QED
  BY <1>t, <1>1, <1>2, <1>3

\* A client leads by the try it led by before, or by the one that has succeeded.
LEMMA LeadSince ==
    ASSUME SafeConfig, LeadersInv, NEW c \in Client, UNCHANGED now,
           Proceed(c) \/ Resume(c) \/ Fail(c) \/ Crash(c), leading'[c]
    PROVE  \/ leading[c] /\ LeadEnd(c)' <= LeadEnd(c)
           \/ pc[c] = "set" /\ call[c].st = "ok" /\ LeadEnd(c)' <= call[c].rec.renew + LeadTime
<1>0. /\ LocalInv /\ StoreInv /\ ElectorTypeOK /\ InterfaceTypeOK /\ ElectorInv(c)
      /\ ~ReleaseOnCancel
  BY DEF LeadersInv, StoreInv, LocalInv, TypeOK, SafeConfig
<1>t. /\ now \in Nat /\ call[c].rec.renew \in Nat /\ LeadEnd(c)' \in Nat
      /\ RequestTimeout \in Nat /\ RetryPeriod \in Nat /\ RenewDeadline \in Nat
      /\ LeadTime = 2 * RequestTimeout + RetryPeriod + RenewDeadline
  BY <1>0, StoreTypes, Durations, LeadGoesOn
<1>1. pc[c] = "set" /\ call[c].st = "ok" => now <= call[c].rec.renew + 2 * RequestTimeout
  BY <1>0, LeaseRuns
<1> QED
  BY <1>0, <1>t, <1>1, LeadGoesOn

\* HeldSince an instant is HeldSince the earlier ones.
LEMMA HeldEarlier ==
    ASSUME LocalInv, NEW c \in Client, NEW t \in Int, NEW u \in Int, HeldSince(c, t), u <= t
    PROVE  HeldSince(c, u)
BY StoreTypes DEF HeldSince

\* A step of an elector, or the death of a client.
LEMMA LeadersElector ==
    ASSUME SafeConfig, LeadersInv, StoreInv', NEW c \in Client, ElectorStep(c) \/ Die(c),
           UNCHANGED now
    PROVE  \A d \in Client : AckInv(d)' /\ LeadInv(d)'
<1>0. /\ StoreInv /\ LocalInv /\ LocalInv' /\ InterfaceTypeOK /\ ElectorTypeOK
      /\ ~ReleaseOnCancel /\ \A d \in Client : AckInv(d) /\ LeadInv(d)
  BY DEF LeadersInv, StoreInv, LocalInv, TypeOK, SafeConfig
<1>1. Proceed(c) \/ Resume(c) \/ Fail(c) \/ Crash(c)
  BY DEF ElectorStep, Die
<1>2. object' = object /\ raced' = raced /\ now' = now
  BY <1>0, ElectorKeeps
<1>3. ASSUME NEW d \in Client, NEW t PROVE HeldSince(d, t)' <=> HeldSince(d, t)
  BY <1>2 DEF HeldSince
<1>4. ASSUME NEW d \in Client, d # c PROVE AckInv(d)' /\ LeadInv(d)'
  <2>1. SameElector(d) /\ call'[d] = call[d]
    BY <1>0, <1>1, <1>4, OtherElectors
  <2> QED
    BY <1>0, <1>2, <2>1 DEF SameElector, AckInv, LeadInv, LeadEnd, HeldSince
<1>5. AckInv(c)'
  <2>1. pc'[c] = "set" /\ call'[c].st = "ok" => pc[c] = "set" /\ call'[c] = call[c]
    BY <1>0, <1>1, CallGoesOn
  <2> QED
    BY <1>0, <1>2, <2>1 DEF AckInv, HeldSince
<1>6. LeadInv(c)'
  <2> SUFFICES ASSUME leading'[c] PROVE HeldSince(c, LeadEnd(c) - LeadTime)'
    BY DEF LeadInv
  <2>t. /\ LeadEnd(c) \in Nat /\ LeadEnd(c)' \in Nat /\ LeadTime \in Nat
        /\ call[c].rec.renew \in Nat
    <3>1. wake'[c] \in Nat /\ deadline'[c] \in Nat /\ RenewDeadline \in Nat
      BY <1>0, StoreTypesNext, Durations
    <3> QED
      BY <1>0, <3>1, StoreTypes, LeaseRuns, Durations DEF LeadEnd
  <2>1. ASSUME NEW u, u = LeadEnd(c)' - LeadTime PROVE HeldSince(c, u)
    <3>1. CASE leading[c] /\ LeadEnd(c)' <= LeadEnd(c)
      BY <1>0, <2>t, <2>1, <3>1, HeldEarlier DEF LeadInv
    <3>2. CASE /\ pc[c] = "set" /\ call[c].st = "ok"
               /\ LeadEnd(c)' <= call[c].rec.renew + LeadTime
      BY <1>0, <2>t, <2>1, <3>2, HeldEarlier DEF AckInv
    <3> QED
      BY <1>0, <1>1, <3>1, <3>2, LeadSince
  <2>2. ASSUME NEW u, u = LeadEnd(c)' - LeadTime PROVE HeldSince(c, u)'
    BY <1>3, <2>1, <2>2
  <2> QED
    BY <2>2 DEF HeldSince
<1> QED
  BY <1>4, <1>5, <1>6

\* Time passes, the store acts, or the object is deleted.
LEMMA LeadersOther ==
    ASSUME SafeConfig, LeadersInv, StoreInv', [Next]_vars,
           UNCHANGED <<cancelled, deadline, electorVars>>,
           \A d \in Client : \/ call'[d] = call[d]
                             \/ pc[d] # "set"
                             \/ object' = call[d].rec /\ call'[d].rec = call[d].rec
    PROVE  \A d \in Client : AckInv(d)' /\ LeadInv(d)'
<1> SUFFICES ASSUME NEW d \in Client PROVE AckInv(d)' /\ LeadInv(d)'
  OBVIOUS
<1>0. /\ StoreInv /\ LocalInv /\ SetInv(d) /\ AckInv(d) /\ LeadInv(d)
      /\ pc' = pc /\ wake' = wake /\ leading' = leading /\ deadline' = deadline
  BY DEF LeadersInv, StoreInv, electorVars
<1>t. /\ LeadEnd(d) \in Nat /\ LeadTime \in Nat /\ call[d].rec.renew \in Nat
  BY <1>0, StoreTypes, LeaseRuns, Durations
<1>1. LeadInv(d)'
  <2>1. ASSUME leading[d], NEW t, t = LeadEnd(d) - LeadTime PROVE HeldSince(d, t)'
    BY <1>0, <1>t, <2>1, LeaseRuns, HeldSinceKept DEF LeadInv
  <2>2. LeadEnd(d)' = LeadEnd(d)
    BY <1>0 DEF LeadEnd
  <2> QED
    BY <1>0, <2>1, <2>2 DEF LeadInv
<1>2. AckInv(d)'
  <2>1. CASE call'[d] = call[d]
    <3>1. ASSUME pc[d] = "set", call[d].st = "ok", NEW t, t = call[d].rec.renew
          PROVE  HeldSince(d, t)'
      BY <1>0, <1>t, <3>1, LeaseRuns, HeldSinceKept DEF AckInv
    <3> QED
      BY <1>0, <2>1, <3>1 DEF AckInv
  <2>2. CASE pc[d] # "set"
    BY <1>0, <2>2 DEF AckInv
  <2>3. CASE pc[d] = "set" /\ object' = call[d].rec /\ call'[d].rec = call[d].rec
    BY <1>0, <1>t, <2>3 DEF AckInv, HeldSince, SetInv
  <2> QED
    BY <2>1, <2>2, <2>3
<1> QED
  BY <1>1, <1>2

\* Every step preserves the invariant.
LEMMA LeadersInvStep ==
    ASSUME SafeConfig, LeadersInv, [Next]_vars PROVE LeadersInv'
<1>0. StoreInv /\ StoreInv' /\ LocalInv /\ call \in [Client -> Call] /\ ~ReleaseOnCancel
  BY StoreInvStep DEF LeadersInv, SafeConfig, StoreInv, LocalInv, TypeOK, InterfaceTypeOK
<1>1. ASSUME NEW c \in Client, ElectorStep(c) \/ Die(c), UNCHANGED now
      PROVE  \A d \in Client : AckInv(d)' /\ LeadInv(d)'
  BY <1>0, <1>1, LeadersElector
<1>2. CASE Tick \/ UNCHANGED vars
  <2>1. UNCHANGED <<cancelled, deadline, electorVars>> /\ call' = call
    BY <1>2 DEF Tick, vars, interfaceVars
  <2> QED
    BY <1>0, <2>1, LeadersOther DEF LeadersInv
<1>3. ASSUME UNCHANGED <<now, cancelled, deadline, electorVars>>,
             \/ \E c \in Client : StoreStep(c)
             \/ \E put \in late : LatePut(put)
             \/ DeleteObject
      PROVE  \A d \in Client : AckInv(d)' /\ LeadInv(d)'
  <2>1. ASSUME NEW c \in Client, StoreStep(c), NEW d \in Client
        PROVE  \/ call'[d] = call[d] \/ pc[d] # "set"
               \/ object' = call[d].rec /\ call'[d].rec = call[d].rec
    <3>1. CASE GetStat(c) \/ GetStatFails(c) \/ GetObject(c)
      BY <1>0, <3>1, WriteIsSet DEF GetStat, GetStatFails, GetObject, Pending, Answer
    <3>2. CASE SetStat(c) \/ PutObject(c)
      BY <1>0, <3>2 DEF SetStat, PutObject, Answer, Store, PutOf
    <3> QED
      BY <2>1, <3>1, <3>2 DEF StoreStep
  <2>2. \A d \in Client : \/ call'[d] = call[d] \/ pc[d] # "set"
                          \/ object' = call[d].rec /\ call'[d].rec = call[d].rec
    BY <1>3, <2>1 DEF LatePut, DeleteObject
  <2> QED
    BY <1>0, <1>3, <2>2, LeadersOther
<1> QED
  BY <1>0, <1>1, <1>2, <1>3 DEF Next, LeadersInv

\* When no one releases and the lease outlasts the time a leader may act, the
\* object is a leader's since the try it leads by, unless there was a race.
THEOREM LeadersInvariant == SafeConfig => (Spec => []LeadersInv)
<1> SUFFICES ASSUME SafeConfig PROVE Spec => []LeadersInv
  OBVIOUS
<1>1. Init => LeadersInv
  BY StoreInvInit DEF Init, ElectorInit, LeadersInv, AckInv, LeadInv
<1>2. LeadersInv /\ [Next]_vars => LeadersInv'
  BY LeadersInvStep
<1> QED
  BY <1>1, <1>2, PTL DEF Spec

\* Two OnStartedLeading contexts are live at once only after a race of the
\* unconditional PutObject of s3.go or a deletion, and then for no longer than
\* LeadTime.
THEOREM OneLeaderUnlessRaced == SafeConfig => (Spec => []OneLeaderAfterRace)
<1> SUFFICES ASSUME SafeConfig PROVE Spec => []OneLeaderAfterRace
  OBVIOUS
<1>1. Spec => []LeadersInv
  BY LeadersInvariant
<1>2. LeadersInv => OneLeaderAfterRace
  <2> SUFFICES ASSUME LeadersInv, RaceFree, NEW c \in Client, leading[c]
               PROVE  object.holder = c
    BY DEF OneLeaderAfterRace, MutualExclusion
  <2>0. StoreInv /\ LocalInv /\ LeadInv(c)
    BY DEF LeadersInv, StoreInv
  <2>t. now \in Nat /\ raced \in Nat /\ LeadTime \in Nat /\ LeadEnd(c) \in Nat /\ now <= LeadEnd(c)
    BY <2>0, StoreTypes, Durations, LeaseRuns
  <2>1. HeldSince(c, LeadEnd(c) - LeadTime)
    BY <2>0 DEF LeadInv
  <2> QED
    BY <2>t, <2>1 DEF HeldSince, RaceFree
<1> QED
  BY <1>1, <1>2, PTL

-----------------------------------------------------------------------------
(***************************************************************************)
(* The candidates, when clients do not release.                            *)
(***************************************************************************)
\* A record that was seen, and is not raced, is not raced before either, and does
\* not come back.
LEMMA NotBack ==
    ASSUME StoreInv, LocalInv', Forward, NEW r, r # NoObject, Seen(r), ~Raced(r)'
    PROVE  ~Raced(r) /\ (object' = r => object = r)
<1>0. LocalInv /\ Made(r)
  BY DEF StoreInv, Seen
<1>t. /\ now \in Nat /\ raced \in Nat /\ object.renew \in Nat /\ now' \in Nat
      /\ raced' \in Nat /\ object'.renew \in Nat /\ r.renew \in Nat /\ r.renew <= now
  BY <1>0, StoreTypes, StoreTypesNext, MadeByNow
<1>1. ~Raced(r)
  BY <1>0, ForwardKeeps
<1>2. ASSUME object # r PROVE object' # r
  <2>1. r.renew < object.renew
    BY <1>1, <1>2 DEF Seen, Past
  <2>2. object # NoObject
    BY <1>t, <2>1 DEF NoObject, ZeroRecord
  <2>3. ~Raced(object)
    BY <1>t, <1>1, <2>1 DEF Raced
  <2>4. raced' # now
    BY <1>t DEF Raced, Forward
  <2> QED
    BY <1>t, <1>2, <2>1, <2>2, <2>3, <2>4 DEF Forward
<1> QED
  BY <1>1, <1>2

\* Such a record is stored, or one made later is.
LEMMA StoredOrLater ==
    ASSUME StoreInv, NEW r, r # NoObject, Seen(r), ~Raced(r)
    PROVE  object # NoObject /\ (object = r \/ r.renew < object.renew)
<1>0. LocalInv /\ Made(r)
  BY DEF StoreInv, Seen
<1>t. object.renew \in Nat /\ r.renew \in Nat
  BY <1>0, StoreTypes, MadeByNow
<1>1. object = r \/ r.renew < object.renew
  BY DEF Seen, Past
<1> QED
  BY <1>t, <1>1 DEF NoObject, ZeroRecord

\* A candidate has read a record that was stored.
LEMMA CandidateRead ==
    ASSUME StoreInv, NEW c \in Client, Candidate(c)
    PROVE  observedRawRecord[c] # NoObject /\ Seen(observedRawRecord[c])
BY DEF StoreInv, ObservedInv, Candidate, NoObject

\* TriesNeeded is what its parts say.
LEMMA TriesType ==
    ASSUME LocalInv, NEW c \in Client
    PROVE  /\ faults \in Nat /\ MaxFaults \in Nat /\ faults <= MaxFaults
           /\ \E x \in {0, 1}, y \in {0, 1} :
                /\ TriesNeeded(c) = faults + x + y
                /\ x = 0 <=> Blind(c)
                /\ y = 0 <=> object = observedRawRecord[c] \/ Replaces(c)
<1>1. faults \in Nat /\ MaxFaults \in Nat /\ faults <= MaxFaults
  BY S3Assumption DEF LocalInv, TypeOK, S3TypeOK
<1>2. CASE Blind(c)
  BY <1>1, <1>2 DEF TriesNeeded
<1>3. CASE ~Blind(c)
  BY <1>1, <1>3 DEF TriesNeeded
<1> QED
  BY <1>1, <1>2, <1>3

\* The same of the next state.
LEMMA TriesTypeNext ==
    ASSUME LocalInv', NEW c \in Client
    PROVE  \E f \in Nat, x \in {0, 1}, y \in {0, 1} :
                /\ faults' = f /\ TriesNeeded(c)' = f + x + y
                /\ x = 0 <=> Blind(c)'
                /\ y = 0 <=> object' = observedRawRecord'[c] \/ Replaces(c)'
<1>1. PICK f \in Nat : faults' = f
  BY S3Assumption DEF LocalInv, TypeOK, S3TypeOK
<1>2. CASE Blind(c)'
  BY <1>1, <1>2 DEF TriesNeeded
<1>3. CASE ~Blind(c)'
  BY <1>1, <1>3 DEF TriesNeeded
<1> QED
  BY <1>1, <1>2, <1>3

\* A candidate that tries early enough tries in time.
LEMMA TriesEnough ==
    ASSUME LocalInv', NEW c \in Client, NEW m \in Nat, NEW n \in Nat, TriesNeeded(c)' = n,
           m <= n, StartsBy(c, m)', ~cancelled'[c]
    PROVE  RetryInv(c)'
<1>1. StartsBy(c, n)'
  BY StartsLater DEF LocalInv, TypeOK
<1> QED
  BY <1>1 DEF RetryInv, StartsBy, Due

\* A candidate that tries in time is not late.
LEMMA RetriesInTime ==
    ASSUME LocalInv, NEW c \in Client, WriteInv(c), RetryInv(c), Candidate(c),
           ~Raced(observedRawRecord[c])
    PROVE  now <= Due(c, 2 + MaxFaults)
<1>0. /\ InterfaceTypeOK /\ ElectorTypeOK /\ ElectorInv(c) /\ TimelyInv(c) /\ now \in Nat
      /\ call[c].at \in Nat /\ RequestTimeout \in Nat
  BY LockAssumption DEF LocalInv, TypeOK, InterfaceTypeOK, Call
<1>1. /\ faults \in Nat /\ MaxFaults \in Nat /\ faults <= MaxFaults /\ 2 + MaxFaults \in Nat
  BY TriesType
<1>2. ASSUME NEW n \in Nat, n <= 2 + MaxFaults, now <= Due(c, n)
      PROVE  now <= Due(c, 2 + MaxFaults)
  <2>1. Due(c, n) \in Nat /\ Due(c, 2 + MaxFaults) \in Nat /\ Due(c, n) <= Due(c, 2 + MaxFaults)
    BY <1>0, <1>1, <1>2, DueGrows, Zenon
  <2> QED
    BY <1>0, <1>2, <2>1
<1>3. CASE cancelled[c]
  BY <1>3 DEF RetryInv
<1>4. CASE ~cancelled[c] /\ EarlyWrite(c)
  <2>1. now <= call[c].at + RequestTimeout /\ call[c].at <= observedTime[c]
    BY <1>0, <1>4 DEF EarlyWrite, ElectorInv, CallMatches, TimelyInv
  <2>2. /\ observedTime[c] \in Nat /\ observedTime[c] <= Due(c, 0) /\ Due(c, 0) \in Nat
        /\ Due(c, 0 + 1) = Due(c, 0) + RetryTime
        /\ RetryTime = RetryPause + 2 * RequestTimeout /\ RetryPause \in Nat
    BY <1>0, DueGrows, RetryTimeType
  <2>3. now <= Due(c, 0 + 1)
    BY <1>0, <2>1, <2>2
  <2> QED
    BY <1>1, <1>2, <2>3
<1>5. CASE ~cancelled[c] /\ ~EarlyWrite(c)
  <2>1. PICK x \in {0, 1}, y \in {0, 1} :
           /\ TriesNeeded(c) = faults + x + y
           /\ y = 0 <=> object = observedRawRecord[c] \/ Replaces(c)
    BY TriesType
  <2>2. faults + x + y \in Nat /\ StartsBy(c, faults + x + y)
    BY <1>1, <1>5, <2>1 DEF RetryInv
  <2>3. /\ now <= Due(c, faults + x + y + 1)
        /\ pc[c] \in {"wait", "get"} => now <= Due(c, faults + x + y)
    BY <1>0, <2>2, CandidateInTime
  <2>4. CASE pc[c] = "set"
    <3>1. y = 0
      BY <2>1, <2>4 DEF Replaces
    <3>2. faults + x + y + 1 \in Nat /\ faults + x + y + 1 <= 2 + MaxFaults
      BY <1>1, <3>1
    <3> QED
      BY <1>2, <2>3, <3>2
  <2>5. CASE pc[c] \in {"wait", "get"}
    <3>1. faults + x + y <= 2 + MaxFaults
      BY <1>1
    <3> QED
      BY <1>2, <2>2, <2>3, <2>5, <3>1
  <2> QED
    BY <2>4, <2>5 DEF Candidate
<1> QED
  BY <1>3, <1>4, <1>5


\* A try whose start a step leaves alone still starts in time when the step does
\* not lower what it needs.
LEMMA RetryKept ==
    ASSUME LocalInv, LocalInv', NEW d \in Client, SameElector(d),
           call'[d].at = call[d].at, RetryInv(d),
           /\ Candidate(d)' <=> Candidate(d)
           /\ \A n : Due(d, n)' = Due(d, n)
           /\ \A n : Candidate(d) /\ StartsBy(d, n) => StartsBy(d, n)',
           Candidate(d) /\ cancelled[d] => now' = now,
           Candidate(d) /\ ~Raced(observedRawRecord[d])' =>
             ~Raced(observedRawRecord[d]) /\ TriesNeeded(d) <= TriesNeeded(d)'
    PROVE  RetryInv(d)'
<1> SUFFICES ASSUME Candidate(d)', ~Raced(observedRawRecord[d])' PROVE RetryInv(d)'
  BY DEF RetryInv
<1>1. Candidate(d) /\ ~Raced(observedRawRecord[d])
  OBVIOUS
<1>2. CASE cancelled[d]
  BY <1>1, <1>2 DEF RetryInv, SameElector
<1>3. CASE ~cancelled[d] /\ EarlyWrite(d)
  BY <1>3 DEF EarlyWrite, RetryInv, SameElector
<1>4. CASE ~cancelled[d] /\ ~EarlyWrite(d)
  <2>1. PICK m \in Nat : TriesNeeded(d) = m
    BY TriesType
  <2>2. PICK n \in Nat : TriesNeeded(d)' = n
    BY TriesTypeNext
  <2>3. m <= n
    BY <1>1, <2>1, <2>2
  <2>4. StartsBy(d, m)
    BY <1>1, <1>4, <2>1 DEF RetryInv
  <2>5. StartsBy(d, m)' /\ ~cancelled'[d]
    BY <1>1, <1>4, <2>4 DEF SameElector
  <2> QED
    BY <2>2, <2>3, <2>5, TriesEnough
<1> QED
  BY <1>2, <1>3, <1>4

\* A client that does nothing, and whose call the store does not act on.
LEMMA CandidateLeft ==
    ASSUME StoreInv, LocalInv', Forward, NEW d \in Client, SameElector(d),
           call'[d] = call[d], etag'[d] = etag[d], stated'[d] = stated[d],
           faults' \in {faults, faults + 1}, Candidate(d) /\ cancelled[d] => now' = now,
           AcquireInv(d), WriteInv(d), TryInv(d), RetryInv(d)
    PROVE  AcquireInv(d)' /\ WriteInv(d)' /\ TryInv(d)' /\ RetryInv(d)'
<1>0. /\ LocalInv /\ InterfaceTypeOK /\ ElectorTypeOK /\ ElectorInv(d) /\ now \in Nat /\ now' \in Nat
      /\ now <= now' /\ call[d].at \in Nat /\ pc'[d] = pc[d]
      /\ observedRawRecord'[d] = observedRawRecord[d]
  BY StoreTypes, StoreTypesNext DEF StoreInv, LocalInv, TypeOK, Forward, SameElector
<1>1. /\ Candidate(d)' <=> Candidate(d)
      /\ AcquireInv(d)'
      /\ \A n : Due(d, n)' = Due(d, n)
      /\ \A n : Candidate(d) /\ StartsBy(d, n) => StartsBy(d, n)'
  BY <1>0, CandidateStays
<1>2. WriteInv(d)'
  BY <1>0 DEF WriteInv
<1>3. ASSUME Candidate(d), ~Raced(observedRawRecord[d])'
      PROVE  /\ ~Raced(observedRawRecord[d])
             /\ object' = observedRawRecord[d] => object = observedRawRecord[d]
  <2>1. ASSUME NEW r, r = observedRawRecord[d]
        PROVE  ~Raced(r) /\ (object' = r => object = r)
    <3>1. ~Raced(r)'
      BY <1>0, <1>3, <2>1 DEF Raced
    <3>2. r # NoObject /\ Seen(r)
      BY <1>3, <2>1, CandidateRead
    <3> QED
      BY <3>1, <3>2, NotBack
  <2> QED
    BY <2>1
<1>4. TryInv(d)'
  BY <1>0, <1>1, <1>3 DEF TryInv, EarlyWrite, SameElector
<1>5. ASSUME Candidate(d), ~Raced(observedRawRecord[d])'
      PROVE  TriesNeeded(d) <= TriesNeeded(d)'
  <2>1. PICK x \in {0, 1}, y \in {0, 1} :
           /\ TriesNeeded(d) = faults + x + y /\ faults \in Nat
           /\ x = 0 <=> Blind(d)
           /\ y = 0 <=> object = observedRawRecord[d] \/ Replaces(d)
    BY <1>0, TriesType
  <2>2. PICK f \in Nat, z \in {0, 1}, w \in {0, 1} :
           /\ faults' = f /\ TriesNeeded(d)' = f + z + w
           /\ z = 0 <=> Blind(d)'
           /\ w = 0 <=> object' = observedRawRecord'[d] \/ Replaces(d)'
    BY TriesTypeNext
  <2>3. x = z /\ y <= w
    BY <1>0, <1>3, <1>5, <2>1, <2>2 DEF Blind, Replaces
  <2>4. faults <= f
    BY <2>1, <2>2
  <2> QED
    BY <2>1, <2>2, <2>3, <2>4
<1>6. RetryInv(d)'
  BY <1>0, <1>1, <1>3, <1>5, RetryKept
<1> QED
  BY <1>1, <1>2, <1>4, <1>6

\* The store acts on a request of the client.
LEMMA CandidateAnswered ==
    ASSUME ~ReleaseOnCancel, StoreInv, LocalInv', Forward, NEW c \in Client, StoreStep(c),
           UNCHANGED <<now, cancelled, deadline, electorVars>>,
           AcquireInv(c), WriteInv(c), TryInv(c), RetryInv(c)
    PROVE  AcquireInv(c)' /\ WriteInv(c)' /\ TryInv(c)' /\ RetryInv(c)'
<1>0. /\ LocalInv /\ InterfaceTypeOK /\ ElectorTypeOK /\ ElectorInv(c) /\ now \in Nat /\ now' = now
      /\ ObservedInv(c) /\ call[c].at \in Nat /\ call \in [Client -> Call]
      /\ etag \in [Client -> Record] /\ stated \in [Client -> BOOLEAN] /\ object.renew \in Nat
      /\ raced \in Nat /\ etag[c].renew \in Nat /\ observedRawRecord[c].renew \in Nat
  BY StoreTypes DEF StoreInv, LocalInv, TypeOK, InterfaceTypeOK, S3TypeOK, Record
<1>s. SameElector(c) /\ pc'[c] = pc[c] /\ observedRawRecord'[c] = observedRawRecord[c]
  BY DEF electorVars, observedVars, SameElector
<1>a. \/ UNCHANGED call
      \/ \E d \in Client : \E st, rec, ver :
           Answer(d, st, rec, ver) /\ (IsWrite(d) => rec = call[d].rec)
  <2>1. GetStat(c) \/ GetObject(c) => ~IsWrite(c)
    BY DEF GetStat, GetObject, Pending, IsWrite
  <2> QED
    BY <2>1 DEF StoreStep, GetStat, GetStatFails, GetObject, SetStat, PutObject
<1>1. /\ Candidate(c)' <=> Candidate(c)
      /\ AcquireInv(c)'
      /\ \A n : Due(c, n)' = Due(c, n)
      /\ \A n : Candidate(c) /\ StartsBy(c, n) => StartsBy(c, n)'
  BY <1>0, <1>s, <1>a, CandidateStays
<1>2. WriteInv(c)'
  <2>1. now <= now' /\ now' \in Nat
    BY <1>0
  <2> QED
    BY <1>0, <1>s, <1>a, <2>1, WriteKept
<1>3. ASSUME Candidate(c), ~Raced(observedRawRecord[c])'
      PROVE  /\ ~Raced(observedRawRecord[c])
             /\ object' = observedRawRecord[c] => object = observedRawRecord[c]
             /\ object # NoObject
             /\ object = observedRawRecord[c] \/ observedRawRecord[c].renew < object.renew
  <2>1. ASSUME NEW r, r = observedRawRecord[c]
        PROVE  ~Raced(r) /\ (object' = r => object = r) /\ Seen(r) /\ r # NoObject
    <3>1. ~Raced(r)'
      BY <1>s, <1>3, <2>1 DEF Raced
    <3>2. r # NoObject /\ Seen(r)
      BY <1>3, <2>1, CandidateRead
    <3> QED
      BY <3>1, <3>2, NotBack
  <2> QED
    BY <2>1, StoredOrLater
<1>c. /\ call'[c].at = call[c].at /\ call'[c].op = call[c].op /\ call[c].op # "none"
      /\ pc[c] \in {"get", "set"} /\ (pc[c] = "get" <=> call[c].op = "get")
      /\ IsWrite(c) <=> pc[c] = "set"
  BY <1>0, WriteIsSet DEF StoreStep, GetStat, GetStatFails, GetObject, SetStat, PutObject, Answer,
     Pending, PendingWrite, IsWrite
\* What the step does to the try of a candidate.
<1>4. /\ pc[c] = "set" => etag'[c] = etag[c] /\ faults' = faults
      /\ pc[c] = "get" =>
           /\ call[c].st = "pending"
           /\ \/ call'[c].st = "notexist" /\ object = NoObject
              \/ /\ ~stated[c] /\ stated'[c] /\ call'[c] = call[c]
                 /\ \/ etag'[c] = object /\ faults' = faults
                    \/ etag'[c] = NoObject /\ faults' = faults + 1
              \/ /\ stated[c] /\ stated'[c] /\ etag'[c] = etag[c] /\ faults' = faults
                 /\ call'[c].st = "ok" /\ call'[c].rec = object
  <2>1. CASE GetStat(c) \/ GetStatFails(c)
    BY <1>0, <1>c, <2>1 DEF GetStat, GetStatFails, Pending, Answer
  <2>2. CASE GetObject(c)
    BY <1>0, <1>c, <2>2 DEF GetObject, Pending, Answer, s3Vars
  <2>3. CASE SetStat(c) \/ PutObject(c)
    BY <1>0, <1>c, <2>3 DEF SetStat, PutObject, PendingWrite
  <2> QED
    BY <2>1, <2>2, <2>3 DEF StoreStep
<1>5. ASSUME Candidate(c), ~Raced(observedRawRecord[c])', pc[c] = "get", object = observedRawRecord[c]
      PROVE  ~(observedRawRecord[c].renew < etag[c].renew)
  <2>1. ASSUME observedRawRecord[c].renew < etag[c].renew PROVE FALSE
    <3>1. etag[c] # NoObject /\ etag[c] # object
      BY <1>0, <1>5, <2>1 DEF NoObject, ZeroRecord
    <3>2. Raced(etag[c])
      BY <1>0, <1>5, <2>1, <3>1 DEF ObservedInv, Seen, Past
    <3> QED
      BY <1>0, <1>3, <1>5, <2>1, <3>2 DEF Raced
  <2> QED
    BY <2>1
<1>6. TryInv(c)'
  <2>1. stated'[c] => call'[c].op # "none"
    BY <1>c
  <2>2. pc'[c] = "get" /\ call'[c].st = "ok" => stated'[c]
    BY <1>s, <1>c, <1>4
  <2>3. ASSUME Candidate(c), ~Raced(observedRawRecord[c])', pc[c] = "get", stated'[c]
        PROVE  \/ etag'[c] \in {NoObject, observedRawRecord[c]}
               \/ /\ observedRawRecord[c].renew < etag'[c].renew
                  /\ call'[c].st = "ok" => call'[c].rec # observedRawRecord[c]
    BY <1>3, <1>4, <1>5, <2>3 DEF TryInv
  <2>4. ASSUME Candidate(c), ~Raced(observedRawRecord[c])', pc[c] = "set"
        PROVE  EarlyWrite(c)' \/ etag'[c] \in {NoObject, observedRawRecord[c]}
    BY <1>s, <1>c, <1>3, <1>4, <2>4 DEF TryInv, EarlyWrite, SameElector
  <2> QED
    BY <1>s, <1>1, <2>1, <2>2, <2>3, <2>4 DEF TryInv
<1>7. ASSUME Candidate(c), ~Raced(observedRawRecord[c])'
      PROVE  TriesNeeded(c) <= TriesNeeded(c)'
  <2>1. PICK x \in {0, 1}, y \in {0, 1} :
           /\ TriesNeeded(c) = faults + x + y /\ faults \in Nat
           /\ x = 0 <=> Blind(c)
           /\ y = 0 <=> object = observedRawRecord[c] \/ Replaces(c)
    BY <1>0, TriesType
  <2>2. PICK f \in Nat, z \in {0, 1}, w \in {0, 1} :
           /\ faults' = f /\ TriesNeeded(c)' = f + z + w
           /\ z = 0 <=> Blind(c)'
           /\ w = 0 <=> object' = observedRawRecord'[c] \/ Replaces(c)'
    BY TriesTypeNext
  <2>3. CASE pc[c] = "set"
    <3>1. x = z /\ y = w /\ f = faults
      BY <1>s, <1>4, <2>1, <2>2, <2>3 DEF Blind, Replaces
    <3> QED
      BY <2>1, <2>2, <3>1
  <2>4. CASE pc[c] = "get"
    <3>1. y <= w
      BY <1>s, <1>3, <1>4, <1>7, <2>1, <2>2, <2>4 DEF Replaces
    <3>2. faults + x <= f + z
      BY <1>s, <1>3, <1>4, <1>7, <2>1, <2>2, <2>4 DEF Blind
    <3> QED
      BY <2>1, <2>2, <3>1, <3>2
  <2> QED
    BY <1>c, <2>3, <2>4
<1>8. RetryInv(c)'
  BY <1>0, <1>s, <1>c, <1>1, <1>3, <1>7, RetryKept
<1> QED
  BY <1>1, <1>2, <1>6, <1>8


\* What a step of elector c does to the lock.
LEMMA LockAfterStep ==
    ASSUME StoreInv, NEW c \in Client, ElectorStep(c) \/ Die(c)
    PROVE  /\ UNCHANGED <<object, raced>> /\ faults' \in {faults, faults + 1}
           /\ \A d \in Client \ {c} : etag'[d] = etag[d] /\ stated'[d] = stated[d]
           /\ Returns(c) \/ Fails(c) \/ ClientGone(c) => ~stated'[c]
<1>0. etag \in [Client -> Record] /\ stated \in [Client -> BOOLEAN]
  BY DEF StoreInv, LocalInv, TypeOK, S3TypeOK
<1>1. UNCHANGED s3Vars \/ Returns(c) \/ Fails(c) \/ ClientGone(c)
  BY DEF ElectorStep, Die
<1>2. CASE Returns(c)
  BY <1>0, <1>2 DEF Returns, CallOver
<1>3. CASE Fails(c)
  BY <1>0, <1>3 DEF Fails, Refused, ContextEnds, Lost, Abandoned, CallOver
<1>4. CASE ClientGone(c)
  BY <1>0, <1>4 DEF ClientGone, CallOver
<1> QED
  BY <1>1, <1>2, <1>3, <1>4 DEF s3Vars

\* The call of a candidate fails: set has found another object than its client
\* knew, or the call is lost.
LEMMA CandidateLoses ==
    ASSUME ~ReleaseOnCancel, StoreInv, NEW c \in Client, AcquireInv(c), Candidate(c),
           ~Raced(observedRawRecord[c]), ~cancelled[c], Fails(c)
    PROVE  \/ faults' = faults /\ pc[c] = "set" /\ object # etag[c]
           \/ faults' = faults + 1
<1>0. LocalInv /\ InterfaceTypeOK
  BY DEF StoreInv, LocalInv, TypeOK
<1>1. object # NoObject
  BY CandidateRead, StoredOrLater
<1>2. CASE Refused(c)
  BY <1>0, <1>1, <1>2, WriteIsSet DEF Refused, PendingWrite
<1>3. ~ContextEnds(c)
  <2>1. now \in Nat /\ now < Never /\ Never \in Nat
    BY <1>0, LockAssumption DEF InterfaceTypeOK, Never
  <2> QED
    BY <2>1 DEF ContextEnds, CallCtxDone, CtxDone, AcquireInv, Candidate
<1> QED
  BY <1>2, <1>3 DEF Fails, Lost

\* A candidate with the Get, or the set, of its next try.
LEMMA TryElector ==
    ASSUME ~ReleaseOnCancel, StoreInv, LocalInv', NEW c \in Client, ElectorStep(c) \/ Die(c),
           UNCHANGED now, AcquireInv(c), TryInv(c)
    PROVE  TryInv(c)'
<1>0. /\ LocalInv /\ InterfaceTypeOK /\ ElectorTypeOK /\ ElectorInv(c) /\ now \in Nat
      /\ S3TypeOK /\ GetInv(c)
  BY LockAssumption DEF StoreInv, LocalInv, TypeOK, InterfaceTypeOK
<1>s. Proceed(c) \/ Resume(c) \/ Fail(c) \/ Crash(c)
  BY DEF ElectorStep, Die
<1>k. UNCHANGED <<object, raced>> /\ (Returns(c) \/ Fails(c) \/ ClientGone(c) => ~stated'[c])
  BY LockAfterStep
<1>1. CASE (Resume(c) /\ Returns(c)) \/ (Fail(c) /\ Fails(c)) \/ Die(c)
  <2>1. ~stated'[c]
    BY <1>k, <1>1 DEF Die
  <2>2. ~(pc'[c] = "get" /\ call'[c].st = "ok")
    <3>1. pc'[c] # "get"
      BY <1>0, <1>1 DEF Resume, CreateRecord, LeaseHeld, TakeOrRenew, SetSucceeds, ReleaseSucceeds,
         ReleaseEnds, ReleaseFails, Fail, CallFails, TryFails, Die, Crash, ElectorTypeOK
    <3> QED
      BY <3>1
  <2>3. ASSUME Candidate(c)', ~Raced(observedRawRecord[c])', pc'[c] = "set"
        PROVE  EarlyWrite(c)' \/ etag'[c] \in {NoObject, observedRawRecord'[c]}
    <3>1. ~(Fail(c) \/ Crash(c))
      BY <1>0, <2>3, CandidateFails DEF Pauses
    <3>2. Resume(c) /\ Returns(c)
      BY <1>1, <3>1 DEF Die
    <3>3. \/ CreateRecord(c) /\ Writes(c) /\ SameReading(c) /\ call[c].st = "notexist"
          \/ TakeOrRenew(c) /\ Writes(c) /\ Reads(c) /\ call[c].st = "ok"
      <4>1. pc[c] = "get"
        BY <1>0, <2>3, <3>2 DEF Resume, CreateRecord, LeaseHeld, TakeOrRenew, SetSucceeds,
           ReleaseSucceeds, ReleaseEnds, TryFails, ElectorTypeOK
      <4> QED
        BY <1>0, <2>3, <3>2, <4>1, CandidateSteps DEF Pauses
    <3>4. call'[c].at = now /\ pc[c] = "get"
      BY <3>3 DEF Writes
    <3>5. Candidate(c) \/ observedTime'[c] = now
      BY <1>0, <2>3, <3>2, CandidateSteps
    <3>6. CASE observedTime'[c] = now
      BY <1>0, <2>3, <3>4, <3>6 DEF EarlyWrite
    <3>7. CASE Candidate(c) /\ observedTime'[c] # now
      <4>1. SameReading(c)
        BY <3>3, <3>7 DEF Reads
      <4>2. ~Raced(observedRawRecord[c])
        BY <1>k, <2>3, <4>1 DEF Raced, SameReading
      <4>3. call[c].st # "notexist"
        BY <1>0, <3>4, <3>7, <4>2 DEF GetInv, Candidate
      <4>4. call[c].st = "ok" /\ call[c].rec = observedRawRecord[c]
        BY <3>3, <4>1, <4>3 DEF Reads, SameReading
      <4>5. etag[c] \in {NoObject, observedRawRecord[c]}
        BY <3>4, <3>7, <4>2, <4>4 DEF TryInv
      <4>6. etag'[c] = etag[c]
        BY <1>0, <3>2, <3>4, WriteIsSet DEF Returns, S3TypeOK
      <4> QED
        BY <4>1, <4>5, <4>6 DEF SameReading
    <3> QED
      BY <3>5, <3>6, <3>7
  <2> QED
    BY <2>1, <2>2, <2>3 DEF TryInv
<1>2. CASE Proceed(c) /\ UNCHANGED s3Vars
  <2>1. /\ inRenew' = inRenew /\ observedRawRecord' = observedRawRecord
        /\ observedTime' = observedTime
        /\ \/ pc'[c] = pc[c] /\ call' = call
           \/ pc[c] \in {"off", "wait", "poll"} /\ pc'[c] # "set"
              /\ (pc'[c] = "get" => call'[c].st = "pending")
    BY <1>0, <1>2 DEF Proceed, Run, StartTry, StartRound, PollTick, StopAcquiring, StopBetweenRounds,
       StopPolling, LeaveRenew, Cancel, Invoke, observedVars, ElectorTypeOK, InterfaceTypeOK
  <2>2. stated' = stated /\ etag' = etag
    BY <1>2 DEF s3Vars
  <2>3. CASE pc'[c] = pc[c] /\ call' = call
    <3>1. (Candidate(c)' <=> Candidate(c))
          /\ (Raced(observedRawRecord[c])' <=> Raced(observedRawRecord[c]))
          /\ (EarlyWrite(c)' <=> EarlyWrite(c))
      BY <1>k, <2>1, <2>3 DEF Candidate, Raced, EarlyWrite
    <3> QED
      BY <2>1, <2>2, <2>3, <3>1 DEF TryInv
  <2>4. CASE pc[c] \in {"off", "wait", "poll"} /\ pc'[c] # "set"
              /\ (pc'[c] = "get" => call'[c].st = "pending")
    <3>1. ~stated[c]
      BY <1>0, <2>4 DEF TryInv, ElectorInv, CallMatches
    <3> QED
      BY <2>2, <2>4, <3>1 DEF TryInv
  <2> QED
    BY <2>1, <2>3, <2>4
<1> QED
  BY <1>1, <1>2 DEF ElectorStep


\* A candidate still tries in time after a step of its own.
LEMMA RetryElector ==
    ASSUME ~ReleaseOnCancel, StoreInv, LocalInv', NEW c \in Client, ElectorStep(c) \/ Die(c),
           UNCHANGED now, AcquireInv(c), WriteInv(c), TryInv(c), RetryInv(c)
    PROVE  RetryInv(c)'
<1>0. /\ LocalInv /\ InterfaceTypeOK /\ ElectorTypeOK /\ ElectorTypeOK' /\ ElectorInv(c)
      /\ TimelyInv(c) /\ now \in Nat /\ GetInv(c) /\ S3TypeOK
  BY LockAssumption DEF StoreInv, LocalInv, TypeOK, InterfaceTypeOK
<1> SUFFICES ASSUME Candidate(c)', ~Raced(observedRawRecord[c])' PROVE RetryInv(c)'
  BY DEF RetryInv
<1>s. Proceed(c) \/ Resume(c) \/ Fail(c) \/ Crash(c)
  BY DEF ElectorStep, Die
<1>k. UNCHANGED <<object, raced>> /\ faults' \in {faults, faults + 1}
  BY LockAfterStep
<1>r. ASSUME SameReading(c) PROVE ~Raced(observedRawRecord[c])
  BY <1>k, <1>r DEF Raced, SameReading
<1>u. PICK x \in {0, 1}, y \in {0, 1} :
         /\ TriesNeeded(c) = faults + x + y /\ faults \in Nat
         /\ x = 0 <=> Blind(c)
         /\ y = 0 <=> object = observedRawRecord[c] \/ Replaces(c)
  BY <1>0, TriesType
<1>v. PICK f \in Nat, z \in {0, 1}, w \in {0, 1} :
         /\ faults' = f /\ TriesNeeded(c)' = f + z + w
         /\ z = 0 <=> Blind(c)'
         /\ w = 0 <=> object' = observedRawRecord'[c] \/ Replaces(c)'
  BY TriesTypeNext
<1>1. CASE cancelled'[c]
  <2>1. (Candidate(c) /\ SameReading(c)) \/ observedTime'[c] = now
    BY <1>0, <1>s, CandidateSteps, CandidateFails DEF Reads
  <2>2. CASE Candidate(c) /\ SameReading(c)
    <3>1. now <= Due(c, 2 + MaxFaults)
      BY <1>0, <1>r, <2>2, RetriesInTime
    <3> QED
      BY <1>1, <2>2, <3>1 DEF RetryInv, Due, SameReading
  <2>3. CASE observedTime'[c] = now
    <3>1. /\ observedTime'[c] \in Nat /\ observedRawRecord'[c].dur \in Nat
          /\ (2 + MaxFaults) * RetryTime \in Nat
      BY <1>0, S3Assumption, Multiples, RetryTimeType DEF ElectorTypeOK, Record
    <3>2. now <= Due(c, 2 + MaxFaults)'
      BY <2>3, <3>1 DEF Due
    <3> QED
      BY <1>1, <3>2 DEF RetryInv
  <2> QED
    BY <2>1, <2>2, <2>3
<1>2. CASE ~cancelled'[c]
  <2>1. ~cancelled[c]
    BY <1>0, <1>s, <1>2, CandidateSteps, CandidateFails
  <2>2. ASSUME NEW m \in Nat, m <= f + z + w, StartsBy(c, m)' PROVE RetryInv(c)'
    <3>1. f + z + w \in Nat
      OBVIOUS
    <3> QED
      BY <1>2, <1>v, <2>2, <3>1, TriesEnough
  <2>3. ASSUME pc'[c] = "wait" PROVE z = 1 /\ (w = 0 <=> object = observedRawRecord'[c])
    BY <1>k, <1>v, <2>3 DEF Blind, Replaces
  <2>4. CASE (Proceed(c) /\ UNCHANGED s3Vars) \/ (Resume(c) /\ Returns(c))
    <3>1. CASE StartTry(c) /\ SameReading(c) /\ pc[c] = "wait" /\ pc'[c] = "get" /\ call'[c].at = now
               /\ wake[c] = now /\ call'[c].st = "pending"
      <4>1. Candidate(c) /\ UNCHANGED s3Vars
        <5>1. ~Resume(c)
          BY <3>1 DEF Resume, CreateRecord, LeaseHeld, TakeOrRenew, SetSucceeds, ReleaseSucceeds,
                      ReleaseEnds
        <5> QED
          BY <2>4, <3>1, <5>1 DEF Candidate, SameReading, StartTry
      <4>2. ~stated[c] /\ stated'[c] = stated[c] /\ faults' = faults
        BY <1>0, <3>1, <4>1 DEF TryInv, ElectorInv, CallMatches, s3Vars
      <4>3. x = 1 /\ z = 1 /\ y = w /\ f = faults
        BY <1>k, <1>u, <1>v, <3>1, <4>2 DEF Blind, Replaces, SameReading
      <4>4. faults + x + y \in Nat /\ StartsBy(c, faults + x + y)
        BY <1>r, <1>u, <2>1, <3>1, <4>1 DEF RetryInv, EarlyWrite
      <4>5. ASSUME NEW m \in Nat, m = faults + x + y PROVE StartsBy(c, m)'
        BY <3>1, <4>4, <4>5 DEF StartsBy, Due, SameReading, TryStart
      <4> QED
        BY <2>2, <4>3, <4>4, <4>5
    <3>2. CASE pc[c] = "get" /\ pc'[c] = "wait"
      <4>1. StartsBy(c, 1)'
        BY <1>0, <2>4, <3>2, CandidateGoesOn
      <4>2. 1 <= f + z + w
        BY <2>3, <3>2
      <4> QED
        BY <2>2, <4>1, <4>2
    <3>3. CASE Writes(c) /\ observedTime'[c] = now
      BY <1>0, <1>2, <3>3 DEF Writes, EarlyWrite, RetryInv
    <3>4. CASE TakeOrRenew(c) /\ Writes(c) /\ Reads(c) /\ call[c].st = "ok" /\ observedTime'[c] # now
      <4>1. Candidate(c) /\ SameReading(c) /\ call[c].rec = observedRawRecord[c]
        BY <1>0, <2>4, <3>4, CandidateSteps DEF Reads
      <4>2. pc[c] = "get" /\ pc'[c] = "set" /\ TryStart(c)' = TryStart(c)
        BY <3>4 DEF Writes, TryStart
      <4>3. ~Proceed(c)
        BY <1>0, <4>2 DEF Proceed, Run, StartTry, StartRound, PollTick, StopAcquiring,
           StopBetweenRounds, StopPolling, Cancel, ElectorTypeOK
      <4>4. etag'[c] = etag[c] /\ faults' = faults /\ stated[c]
        BY <1>0, <2>4, <3>4, <4>2, <4>3, WriteIsSet DEF Returns, S3TypeOK, TryInv
      <4>5. x = z /\ y = 0 /\ w = 0 /\ f = faults
        BY <1>u, <1>v, <3>4, <4>1, <4>2, <4>4 DEF Blind, Replaces
      <4>6. faults + x + y \in Nat /\ StartsBy(c, faults + x + y)
        BY <1>r, <1>u, <2>1, <4>1, <4>2 DEF RetryInv, EarlyWrite
      <4>7. ASSUME NEW m \in Nat, m = faults + x + y PROVE StartsBy(c, m)'
        BY <4>1, <4>2, <4>6, <4>7 DEF StartsBy, Due, SameReading
      <4> QED
        BY <2>2, <4>5, <4>6, <4>7
    <3>5. CASE CreateRecord(c) /\ Writes(c) /\ SameReading(c) /\ call[c].st = "notexist"
      <4>1. pc[c] = "get" /\ observedRawRecord[c] # ZeroRecord
        BY <3>5 DEF Writes, SameReading, Candidate
      <4> QED
        BY <1>0, <1>r, <3>5, <4>1 DEF GetInv
    <3>6. ~Cancel(c)
      BY <1>0, <1>2 DEF Cancel, InterfaceTypeOK
    <3> QED
      BY <1>0, <2>4, <3>1, <3>2, <3>3, <3>4, <3>5, <3>6, CandidateSteps DEF Pauses
  <2>5. CASE Fail(c) /\ Fails(c)
    <3>1. /\ Candidate(c) /\ Pauses(c) /\ SameReading(c) /\ pc'[c] = "wait"
          /\ ~Raced(observedRawRecord[c])
      BY <1>0, <1>r, <2>5, CandidateFails DEF Pauses
    <3>2. CASE EarlyWrite(c)
      <4>1. /\ now <= call[c].at + RequestTimeout /\ call[c].at <= observedTime[c]
            /\ wake'[c] <= now + RetryPause /\ TryStart(c)' = wake'[c]
        BY <1>0, <3>1, <3>2 DEF EarlyWrite, ElectorInv, CallMatches, TimelyInv, Pauses, TryStart
      <4>2. /\ observedTime[c] \in Nat /\ observedTime[c] <= Due(c, 0) /\ Due(c, 0) \in Nat
            /\ Due(c, 0 + 1) = Due(c, 0) + RetryTime
            /\ RetryTime = RetryPause + 2 * RequestTimeout /\ RetryPause \in Nat
            /\ RequestTimeout \in Nat /\ wake'[c] \in Nat /\ call[c].at \in Nat
        BY <1>0, DueGrows, RetryTimeType, LockAssumption DEF ElectorTypeOK, InterfaceTypeOK, Call
      <4>3. Due(c, 1)' = Due(c, 0 + 1)
        BY <3>1 DEF Due, SameReading
      <4>4. StartsBy(c, 1)'
        BY <1>0, <4>1, <4>2, <4>3 DEF StartsBy
      <4>5. 1 <= f + z + w
        BY <2>3, <3>1
      <4> QED
        BY <2>2, <4>4, <4>5
    <3>3. CASE ~EarlyWrite(c)
      <4>1. faults + x + y \in Nat /\ StartsBy(c, faults + x + y)
        BY <1>u, <2>1, <3>1, <3>3 DEF RetryInv
      <4>2. ASSUME NEW m \in Nat, m = faults + x + y PROVE StartsBy(c, m + 1)'
        BY <1>0, <2>5, <4>1, <4>2, CandidateRetries
      <4>3. z = 1 /\ (w = 0 <=> object = observedRawRecord[c]) /\ y <= w
        BY <1>u, <2>3, <3>1 DEF SameReading
      <4>4. faults + x + y + 1 <= f + z + w
        <5>1. CASE faults' = faults + 1
          BY <1>u, <1>v, <4>3, <5>1
        <5>2. CASE faults' = faults /\ pc[c] = "set" /\ object # etag[c]
          <6>1. y = 0 /\ etag[c] \in {NoObject, observedRawRecord[c]}
            BY <1>u, <3>1, <3>3, <5>2 DEF Replaces, TryInv
          <6>2. object = observedRawRecord[c] => x = 0
            BY <1>u, <5>2, <6>1 DEF Blind
          <6>3. x + 1 <= z + w
            BY <4>3, <6>2
          <6> QED
            BY <1>u, <1>v, <5>2, <6>1, <6>3
        <5> QED
          BY <2>1, <2>5, <3>1, <5>1, <5>2, CandidateLoses
      <4>5. faults + x + y + 1 \in Nat
        BY <4>1
      <4> QED
        BY <2>2, <4>1, <4>2, <4>4, <4>5
    <3> QED
      BY <3>2, <3>3
  <2>6. ~Die(c)
    BY <1>0 DEF Die, Crash, Candidate, ElectorTypeOK
  <2> QED
    BY <2>4, <2>5, <2>6 DEF ElectorStep
<1> QED
  BY <1>1, <1>2

\* Every step preserves CandidatesInv.
LEMMA CandidatesStep ==
    ASSUME ~ReleaseOnCancel, CandidatesInv, [Next]_vars PROVE CandidatesInv'
<1>0. /\ StoreInv /\ StoreInv' /\ Forward /\ LocalInv /\ LocalInv' /\ faults \in Nat
      /\ \A c \in Client : AcquireInv(c) /\ WriteInv(c) /\ TryInv(c) /\ RetryInv(c)
  BY StoreInvStep, S3Assumption DEF CandidatesInv, StoreInv, LocalInv, TypeOK, S3TypeOK
<1>1. CASE Tick \/ UNCHANGED vars
  <2>1. ASSUME NEW d \in Client
        PROVE  AcquireInv(d)' /\ WriteInv(d)' /\ TryInv(d)' /\ RetryInv(d)'
    <3>1. /\ SameElector(d) /\ call'[d] = call[d] /\ etag'[d] = etag[d] /\ stated'[d] = stated[d]
          /\ faults' = faults
      BY <1>1 DEF Tick, vars, interfaceVars, electorVars, observedVars, s3Vars, SameElector
    <3>2. Candidate(d) /\ cancelled[d] => now' = now
      <4>1. ElectorInv(d)
        BY <1>0 DEF LocalInv
      <4> QED
        BY <1>1, <4>1, CandidateFrozen DEF Tick, vars, interfaceVars
    <3> QED
      BY <1>0, <3>1, <3>2, CandidateLeft
  <2> QED
    BY <1>0, <2>1 DEF CandidatesInv
<1>2. ASSUME NEW c \in Client, ElectorStep(c) \/ Die(c), UNCHANGED now PROVE CandidatesInv'
  <2>0. InterfaceTypeOK /\ ElectorTypeOK /\ ElectorInv(c) /\ TimelyInv(c)
    BY <1>0 DEF LocalInv, TypeOK
  <2>1. Proceed(c) \/ Resume(c) \/ Fail(c) \/ Crash(c)
    BY <1>2 DEF ElectorStep, Die
  <2>2. AcquireInv(c)' /\ WriteInv(c)'
    BY <1>0, <1>2, <2>0, <2>1, AcquireStep, WriteStep
  <2>3. TryInv(c)' /\ RetryInv(c)'
    BY <1>0, <1>2, TryElector, RetryElector
  <2>4. ASSUME NEW d \in Client, d # c
        PROVE  AcquireInv(d)' /\ WriteInv(d)' /\ TryInv(d)' /\ RetryInv(d)'
    <3>1. SameElector(d) /\ call'[d] = call[d]
      BY <2>0, <2>1, <2>4, OtherElectors
    <3>2. etag'[d] = etag[d] /\ stated'[d] = stated[d] /\ faults' \in {faults, faults + 1}
      BY <1>0, <1>2, <2>4, LockAfterStep
    <3> QED
      BY <1>0, <1>2, <3>1, <3>2, CandidateLeft
  <2> QED
    BY <1>0, <2>2, <2>3, <2>4 DEF CandidatesInv
<1>3. ASSUME UNCHANGED <<now, cancelled, deadline, electorVars>>,
             NEW d \in Client, call'[d] = call[d], etag'[d] = etag[d], stated'[d] = stated[d],
             faults' \in {faults, faults + 1}
      PROVE  AcquireInv(d)' /\ WriteInv(d)' /\ TryInv(d)' /\ RetryInv(d)'
  <2>1. SameElector(d)
    BY <1>3 DEF electorVars, observedVars, SameElector
  <2> QED
    BY <1>0, <1>3, <2>1, CandidateLeft
<1>4. ASSUME NEW c \in Client, StoreStep(c), UNCHANGED <<now, cancelled, deadline, electorVars>>
      PROVE  CandidatesInv'
  <2>1. AcquireInv(c)' /\ WriteInv(c)' /\ TryInv(c)' /\ RetryInv(c)'
    BY <1>0, <1>4, CandidateAnswered
  <2>2. ASSUME NEW d \in Client, d # c
        PROVE  AcquireInv(d)' /\ WriteInv(d)' /\ TryInv(d)' /\ RetryInv(d)'
    <3>1. /\ call'[d] = call[d] /\ etag'[d] = etag[d] /\ stated'[d] = stated[d]
          /\ faults' \in {faults, faults + 1}
      BY <1>0, <1>4, <2>2 DEF StoreStep, GetStat, GetStatFails, GetObject, SetStat, PutObject, Answer,
         s3Vars, LocalInv, TypeOK, InterfaceTypeOK, S3TypeOK
    <3> QED
      BY <1>3, <1>4, <3>1
  <2> QED
    BY <1>0, <2>1, <2>2 DEF CandidatesInv
<1>5. ASSUME (\E put \in late : LatePut(put)) \/ DeleteObject,
             UNCHANGED <<now, cancelled, deadline, electorVars>>
      PROVE  CandidatesInv'
  <2>1. UNCHANGED <<call, etag, stated>> /\ faults' \in {faults, faults + 1}
    BY <1>5 DEF LatePut, DeleteObject
  <2> QED
    BY <1>0, <1>3, <1>5, <2>1 DEF CandidatesInv
<1> QED
  BY <1>1, <1>2, <1>4, <1>5 DEF Next

\* The initial state satisfies it.
LEMMA CandidatesInit == ASSUME Init PROVE CandidatesInv
<1>1. ASSUME NEW c \in Client
      PROVE  AcquireInv(c) /\ WriteInv(c) /\ TryInv(c) /\ RetryInv(c)
  <2>1. /\ pc[c] = "off" /\ deadline[c] = Never /\ ~inRenew[c] /\ call[c] = Idle /\ now = 0
        /\ observedRecord[c] = ZeroRecord /\ observedRawRecord[c] = ZeroRecord /\ ~stated[c]
    BY DEF Init, InterfaceInit, ElectorInit, S3Init
  <2> QED
    BY <2>1 DEF AcquireInv, WriteInv, TryInv, RetryInv, Candidate, Idle
<1> QED
  BY <1>1, StoreInvInit DEF CandidatesInv

\* When no one releases, a client that waits behind a record which was not raced
\* tries again in time, and with the ETag of that record.
THEOREM CandidatesInvariant == ~ReleaseOnCancel => (Spec => []CandidatesInv)
<1> SUFFICES ASSUME ~ReleaseOnCancel PROVE Spec => []CandidatesInv
  OBVIOUS
<1>1. Init => CandidatesInv
  BY CandidatesInit
<1>2. CandidatesInv /\ [Next]_vars => CandidatesInv'
  BY CandidatesStep
<1> QED
  BY <1>1, <1>2, PTL DEF Spec

\* When no one releases, a candidate takes the lease, or reads another record,
\* within two retries of the end of the record it has read and one more for each
\* fault, unless the object was deleted or overwritten unseen since then.
THEOREM CandidateMovesOn == ~ReleaseOnCancel => (Spec => []CandidateNotStuckUnlessRaced)
<1> SUFFICES ASSUME ~ReleaseOnCancel PROVE Spec => []CandidateNotStuckUnlessRaced
  OBVIOUS
<1>1. ASSUME CandidatesInv, NEW c \in Client, StuckFor(c, 2 + MaxFaults)
      PROVE  observedRawRecord[c].renew <= raced /\ raced <= now
  <2>1. LocalInv /\ WriteInv(c) /\ RetryInv(c)
    BY <1>1 DEF CandidatesInv, StoreInv
  <2>2. Candidate(c) /\ now > Due(c, 2 + MaxFaults)
    BY <1>1 DEF StuckFor, Candidate, Due, RetryTime, RetryPause
  <2>3. ASSUME ~Raced(observedRawRecord[c]) PROVE FALSE
    <3>1. now <= Due(c, 2 + MaxFaults)
      BY <2>1, <2>2, <2>3, RetriesInTime
    <3>2. now \in Nat /\ Due(c, 2 + MaxFaults) \in Nat
      <4>1. now \in Nat /\ 2 + MaxFaults \in Nat /\ ElectorTypeOK
        BY <2>1, TriesType, LockAssumption DEF LocalInv, TypeOK, InterfaceTypeOK
      <4> QED
        BY <4>1, DueGrows
    <3> QED
      BY <2>2, <3>1, <3>2
  <2> QED
    BY <2>3 DEF Raced
<1>2. CandidatesInv => CandidateNotStuckUnlessRaced
  BY <1>1 DEF CandidateNotStuckUnlessRaced
<1> QED
  BY <1>2, CandidatesInvariant, PTL

=============================================================================
