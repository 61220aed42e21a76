----------------------------- MODULE GitProofs ------------------------------
(***************************************************************************)
(* GitElection, for every set of clients and every configuration New       *)
(* accepts: its types; and, when clients do not release and the lease      *)
(* outlasts the time a leader may act, that it implements LeaderLease,     *)
(* whatever pushes are lost, refused or taken late.                        *)
(***************************************************************************)
EXTENDS GitElectionInv, ElectorProofs, SequenceTheorems

\* A prefix agrees with what it is a prefix of, element by element.
LEMMA PrefixElements ==
    ASSUME NEW s \in Commit, NEW t \in Commit
    PROVE  IsPrefix(s, t) <=> Len(s) <= Len(t) /\ \A i \in 1..Len(s) : s[i] = t[i]
<1>1. Len(s) \in Nat /\ Len(t) \in Nat
  BY LenProperties DEF Commit
<1>2. SubSeq(s, 1, Len(s)) = s
  BY SubSeqFull DEF Commit
<1>3. ASSUME Len(s) <= Len(t)
      PROVE  /\ SubSeq(t, 1, Len(s)) \in Commit
             /\ Len(SubSeq(t, 1, Len(s))) = Len(s)
             /\ \A i \in 1..Len(s) : SubSeq(t, 1, Len(s))[i] = t[i]
  <2>1. \A i \in 1..Len(s) : t[i] \in Record
    BY <1>1, <1>3, ElementOfSeq DEF Commit
  <2>2. Len(s) \in Int /\ 1 \in Int
    BY <1>1
  <2>3. /\ SubSeq(t, 1, Len(s)) \in Seq(Record)
        /\ Len(SubSeq(t, 1, Len(s))) = IF 1 <= Len(s) THEN Len(s) - 1 + 1 ELSE 0
        /\ \A i \in 1..Len(s) - 1 + 1 : SubSeq(t, 1, Len(s))[i] = t[1 + i - 1]
    BY <2>1, <2>2, SubSeqProperties
  <2> QED
    BY <1>1, <2>3 DEF Commit
<1>4. ASSUME Len(s) <= Len(t), \A i \in 1..Len(s) : s[i] = t[i]
      PROVE  s = SubSeq(t, 1, Len(s))
  <2> DEFINE u == SubSeq(t, 1, Len(s))
  <2>1. u \in Seq(Record) /\ Len(s) = Len(u) /\ \A i \in 1..Len(s) : s[i] = u[i]
    BY <1>3, <1>4 DEF Commit
  <2> HIDE DEF u
  <2>2. s = u
    BY <2>1, SeqEqual DEF Commit
  <2> QED
    BY <2>2 DEF u
<1> QED
  BY <1>2, <1>3, <1>4 DEF IsPrefix

\* A push fast-forwards when it adds to what the server has.
LEMMA FastForwardAdds ==
    ASSUME NEW s \in Commit, NEW t \in Commit
    PROVE  FastForward(s, t) <=> Len(s) < Len(t) /\ \A i \in 1..Len(s) : s[i] = t[i]
<1>1. Len(s) \in Nat /\ Len(t) \in Nat
  BY LenProperties DEF Commit
<1>2. ASSUME Len(s) = Len(t), \A i \in 1..Len(s) : s[i] = t[i] PROVE s = t
  BY <1>2, SeqEqual DEF Commit
<1> QED
  BY <1>1, <1>2, PrefixElements DEF FastForward

\* What a commit on top of h adds.
LEMMA CommitOn ==
    ASSUME NEW h \in Commit, NEW r \in Record
    PROVE  /\ Append(h, r) \in Commit /\ Len(Append(h, r)) = Len(h) + 1
           /\ Last(Append(h, r)) = r
           /\ \A i \in 1..Len(h) : Append(h, r)[i] = h[i]
BY AppendProperties DEF Commit, Last

\* A commit on top of an old commit of the server fast-forwards only if the
\* server has had no other since.
LEMMA OnlyOnLast ==
    ASSUME NEW h \in Commit, NEW s \in Commit, NEW r \in Record, IsPrefix(h, s),
           FastForward(s, Append(h, r))
    PROVE  h = s /\ Len(Append(h, r)) = Len(s) + 1
<1>1. Len(h) \in Nat /\ Len(s) \in Nat
  BY LenProperties DEF Commit
<1>2. Len(h) <= Len(s) /\ \A i \in 1..Len(h) : h[i] = s[i]
  BY PrefixElements
<1>3. Append(h, r) \in Commit /\ Len(Append(h, r)) = Len(h) + 1
  BY CommitOn
<1>4. Len(s) < Len(Append(h, r))
  BY <1>3, FastForwardAdds
<1>5. Len(h) = Len(s)
  BY <1>1, <1>2, <1>3, <1>4
<1>6. h = s
  BY <1>2, <1>5, SeqEqual DEF Commit
<1> QED
  BY <1>3, <1>5, <1>6

\* The content of a commit is a record.
LEMMA ContentType ==
    ASSUME NEW s \in Commit
    PROVE  /\ Content(s) \in Record /\ Len(s) \in Nat
           /\ s # <<>> => Len(s) \in 1..Len(s) /\ Content(s) = s[Len(s)] /\ Last(s) = s[Len(s)]
<1>1. ZeroRecord \in Record
  BY DEF ZeroRecord, Record
<1>2. Len(s) \in Nat /\ (s # <<>> => Len(s) \in Nat \ {0})
  BY LenProperties, EmptySeq DEF Commit
<1>3. s # <<>> => Len(s) \in 1..Len(s)
  BY <1>2
<1>4. s # <<>> => s[Len(s)] \in Record
  BY <1>3, ElementOfSeq DEF Commit
<1> QED
  BY <1>1, <1>2, <1>3, <1>4 DEF Content, Last

\* The first commits of a commit are one.
LEMMA FetchedType ==
    ASSUME NEW s \in Commit, NEW n \in 1..Len(s)
    PROVE  /\ SubSeq(s, 1, n) \in Commit /\ Len(SubSeq(s, 1, n)) = n
           /\ \A i \in 1..n : SubSeq(s, 1, n)[i] = s[i]
           /\ IsPrefix(SubSeq(s, 1, n), s)
           /\ Content(SubSeq(s, 1, n)) = s[n]
<1>1. Len(s) \in Nat
  BY LenProperties DEF Commit
<1>2. \A i \in 1..n : s[i] \in Record
  BY <1>1, ElementOfSeq DEF Commit
<1>3. n \in Int /\ 1 \in Int
  BY <1>1
<1>4. /\ SubSeq(s, 1, n) \in Seq(Record)
      /\ Len(SubSeq(s, 1, n)) = IF 1 <= n THEN n - 1 + 1 ELSE 0
      /\ \A i \in 1 .. n - 1 + 1 : SubSeq(s, 1, n)[i] = s[1 + i - 1]
  BY <1>2, <1>3, SubSeqProperties
<1> DEFINE u == SubSeq(s, 1, n)
<1>5. u \in Commit /\ Len(u) = n /\ \A i \in 1..n : u[i] = s[i]
  BY <1>1, <1>4 DEF Commit
<1> HIDE DEF u
<1>6. IsPrefix(u, s)
  BY <1>1, <1>5, PrefixElements
<1>7. u # <<>>
  BY <1>3, <1>5
<1>8. Content(u) = s[n]
  BY <1>3, <1>5, <1>7, ContentType
<1> QED
  BY <1>5, <1>6, <1>8 DEF u

-----------------------------------------------------------------------------
(***************************************************************************)
(* Types, and what holds of every elector.                                 *)
(***************************************************************************)
\* What set commits and pushes are commits.
LEMMA PushedType ==
    ASSUME TypeOK, NEW c \in Client
    PROVE  Committed(c) \in Commit /\ Pushed(c) \in Commit
<1>1. head[c] \in Commit /\ branch[c] \in Commit /\ call[c].rec \in Record
  BY DEF TypeOK, GitTypeOK, InterfaceTypeOK, Call
<1>2. Append(head[c], call[c].rec) \in Commit
  BY <1>1, CommitOn
<1> QED
  BY <1>1, <1>2 DEF Committed, Pushed

\* The clone and the late pushes after a step of the lock of c.
LEMMA GitSideType ==
    ASSUME LocalInv, NEW c \in Client,
           New(c) \/ (Resume(c) /\ Returns(c)) \/ Fails(c) \/ ClientGone(c)
    PROVE  GitTypeOK' /\ UNCHANGED <<remote, taken>>
<1> USE DEF GitTypeOK
<1>0. TypeOK /\ GitTypeOK /\ CallMatches(c) /\ FetchInv(c)
  BY DEF LocalInv, TypeOK, ElectorInv
<1>1. Committed(c) \in Commit /\ Pushed(c) \in Commit
  BY <1>0, PushedType
<1>2. <<>> \in Commit
  BY EmptySeq DEF Commit
<1>3. CASE New(c)
  BY <1>0, <1>3 DEF New
<1>4. CASE Resume(c) /\ Returns(c)
  <2>1. ASSUME ~IsWrite(c) PROVE SubSeq(remote, 1, call[c].ver) \in Commit
    <3>1. call[c].op = "get"
      <4>1. pc[c] \in {"get", "set", "release"}
        BY <1>4 DEF Resume, CreateRecord, LeaseHeld, TakeOrRenew, SetSucceeds, ReleaseSucceeds,
                    ReleaseEnds
      <4> QED
        BY <1>0, <2>1, <4>1 DEF IsWrite, CallMatches
    <3>2. call[c].ver \in 1..Len(remote)
      BY <1>0, <1>4, <3>1 DEF FetchInv, Fetched, Returns
    <3> QED
      BY <1>0, <3>2, FetchedType
  <2> QED
    BY <1>0, <1>1, <1>4, <2>1 DEF Returns
<1>5. ASSUME CloneAfterFailure(c)
      PROVE  /\ head' \in [Client -> Commit] /\ branch' \in [Client -> Commit]
             /\ detached' \in [Client -> BOOLEAN]
  BY <1>0, <1>1, <1>5 DEF CloneAfterFailure, PushFails
<1>6. ASSUME Abandoned(c) PROVE late' \subseteq Commit
  BY <1>0, <1>1, <1>6 DEF Abandoned
<1>7. CASE Fails(c)
  <2>1. CASE Refused(c)
    BY <1>0, <1>5, <2>1 DEF Refused
  <2>2. CASE ContextEnds(c)
    BY <1>0, <1>5, <1>6, <2>2 DEF ContextEnds
  <2>3. CASE Lost(c)
    BY <1>0, <1>5, <1>6, <2>3, GitAssumption DEF Lost
  <2> QED
    BY <1>7, <2>1, <2>2, <2>3 DEF Fails
<1>8. CASE ClientGone(c)
  BY <1>0, <1>2, <1>6, <1>8 DEF ClientGone
<1> QED
  BY <1>3, <1>4, <1>7, <1>8

\* What the server takes is a commit, and the commits fetched before are still
\* the first ones of its branch.
LEMMA TakeType ==
    ASSUME GitTypeOK, NEW k \in Commit, FastForward(remote, k), Take(k), now \in Nat,
           UNCHANGED <<head, branch, detached, faults>>
    PROVE  /\ GitTypeOK' /\ remote' \in Commit /\ remote \in Commit
           /\ Len(remote) \in Nat /\ Len(remote') \in Nat /\ Len(remote) < Len(remote')
           /\ \A i \in 1..Len(remote) : remote'[i] = remote[i]
<1>1. remote' = k /\ remote \in Commit
  BY DEF Take, GitTypeOK
<1>2. Len(remote) \in Nat /\ Len(k) \in Nat
  BY <1>1, ContentType
<1>3. Len(remote) < Len(k) /\ \A i \in 1..Len(remote) : remote[i] = k[i]
  BY <1>1, FastForwardAdds
<1>4. GitTypeOK'
  BY <1>1 DEF Take, GitTypeOK
<1> QED
  BY <1>1, <1>2, <1>3, <1>4

\* A step of an elector keeps the invariant, and so does the death of a client.
LEMMA LocalElectorStep ==
    ASSUME LocalInv, NEW c \in Client, ElectorStep(c) \/ Die(c), UNCHANGED now
    PROVE  LocalInv'
<1>0. /\ InterfaceTypeOK /\ ElectorTypeOK /\ GitTypeOK /\ call \in [Client -> Call]
      /\ \A d \in Client : ElectorInv(d) /\ TimelyInv(d) /\ FetchInv(d)
  BY DEF LocalInv, TypeOK, InterfaceTypeOK
<1>1. Proceed(c) \/ Resume(c) \/ Fail(c) \/ Crash(c)
  BY DEF ElectorStep, Die, Proceed
<1>2. InterfaceTypeOK' /\ ElectorTypeOK'
  BY <1>0, <1>1, ProceedType, ResumeType
<1>3. GitTypeOK' /\ remote' = remote
  <2>1. CASE New(c) \/ (Resume(c) /\ Returns(c)) \/ Fails(c) \/ ClientGone(c)
    BY <2>1, GitSideType
  <2>2. CASE UNCHANGED gitVars
    BY <1>0, <2>2 DEF gitVars, GitTypeOK
  <2> QED
    BY <2>1, <2>2 DEF ElectorStep, Die
<1>4. \A d \in Client : ElectorInv(d)' /\ TimelyInv(d)'
  BY <1>0, <1>1, ElectorInvStep, TimelyStep
<1>5. call'[c] = call[c] \/ call'[c].st \in {"pending", "none"}
  <2>1. CASE Proceed(c)
    BY <1>0, <2>1 DEF Proceed, Run, StartTry, StartRound, PollTick, StopAcquiring,
       StopBetweenRounds, StopPolling, LeaveRenew, Cancel, Invoke
  <2>2. CASE Resume(c)
    <3>1. Return(c) \/ \E op, rec : Invoke(c, op, rec)
      BY <2>2 DEF Resume, CreateRecord, LeaseHeld, TakeOrRenew, SetSucceeds, ReleaseSucceeds,
                  ReleaseEnds, TryFails
    <3> QED
      BY <1>0, <3>1 DEF Invoke, Return, Idle
  <2>3. CASE Fail(c) \/ Crash(c)
    BY <1>0, <2>3 DEF Fail, CallFails, ReleaseFails, ReleaseEnds, TryFails, Return, Crash, Idle
  <2> QED
    BY <1>1, <2>1, <2>2, <2>3
<1>6. \A d \in Client : FetchInv(d)'
  <2>1. \A d \in Client \ {c} : call'[d] = call[d]
    BY <1>0, <1>1, OtherElectors
  <2> QED
    BY <1>0, <1>3, <1>5, <2>1 DEF FetchInv, Fetched
<1> QED
  BY <1>2, <1>3, <1>4, <1>6 DEF LocalInv, TypeOK

\* What the server does to the call of c, or to none.
LEMMA LocalServerStep ==
    ASSUME LocalInv, UNCHANGED <<now, cancelled, deadline, electorVars>>,
           (\E c \in Client : ServerStep(c)) \/ (\E k \in late : LatePush(k))
    PROVE  LocalInv'
<1>0. /\ InterfaceTypeOK /\ ElectorTypeOK /\ GitTypeOK /\ call \in [Client -> Call]
      /\ remote \in Commit /\ now \in Nat
      /\ \A d \in Client : ElectorInv(d) /\ TimelyInv(d) /\ FetchInv(d)
  BY LockAssumption DEF LocalInv, TypeOK, InterfaceTypeOK, GitTypeOK
<1>1. \/ UNCHANGED call
      \/ \E c \in Client : \E st, rec, ver :
           Answer(c, st, rec, ver) /\ (IsWrite(c) => rec = call[c].rec)
  <2>1. ASSUME NEW c \in Client, Pull(c) PROVE ~IsWrite(c)
    BY <2>1 DEF Pull, IsWrite
  <2> QED
    BY <2>1 DEF ServerStep, Pull, SetNothing, Push, LatePush
<1>2. call' \in [Client -> Call]
  <2>1. ASSUME NEW c \in Client, ServerStep(c) PROVE call' \in [Client -> Call]
    <3>1. call[c].rec \in Record /\ Content(remote) \in Record /\ Len(remote) \in Nat
          /\ ZeroRecord \in Record
      BY <1>0, ContentType DEF Call, ZeroRecord, Record
    <3> QED
      BY <1>0, <2>1, <3>1, AnswerType DEF ServerStep, Pull, SetNothing, Push
  <2> QED
    BY <1>0, <2>1 DEF LatePush
<1>3. /\ GitTypeOK' /\ remote' \in Commit /\ Len(remote) \in Nat /\ Len(remote') \in Nat
      /\ Len(remote) <= Len(remote')
  <2>1. ASSUME NEW k \in Commit, FastForward(remote, k), Take(k),
               UNCHANGED <<head, branch, detached, faults>>
        PROVE  /\ GitTypeOK' /\ remote' \in Commit /\ Len(remote) \in Nat /\ Len(remote') \in Nat
               /\ Len(remote) <= Len(remote')
    BY <1>0, <2>1, TakeType
  <2>2. ASSUME NEW c \in Client, Push(c)
        PROVE  /\ Pushed(c) \in Commit /\ FastForward(remote, Pushed(c)) /\ Take(Pushed(c))
               /\ UNCHANGED <<head, branch, detached, faults>>
    BY <2>2, PushedType DEF Push, CanPush, LocalInv
  <2>3. ASSUME NEW k \in late, LatePush(k)
        PROVE  /\ k \in Commit /\ FastForward(remote, k) /\ Take(k)
               /\ UNCHANGED <<head, branch, detached, faults>>
    BY <1>0, <2>3 DEF LatePush, GitTypeOK
  <2>4. CASE UNCHANGED gitVars
    <3>1. remote' = remote /\ GitTypeOK'
      BY <1>0, <2>4 DEF gitVars, GitTypeOK
    <3>2. Len(remote) \in Nat
      BY <1>0, ContentType
    <3> QED
      BY <1>0, <3>1, <3>2
  <2>5. ASSUME NEW c \in Client, Pull(c) \/ SetNothing(c) PROVE UNCHANGED gitVars
    BY <2>5 DEF Pull, SetNothing
  <2> QED
    BY <2>1, <2>2, <2>3, <2>4, <2>5 DEF ServerStep
<1>4. InterfaceTypeOK' /\ ElectorTypeOK'
  BY <1>0, <1>2 DEF InterfaceTypeOK, ElectorTypeOK, electorVars, observedVars
<1>5. \A d \in Client : ElectorInv(d)' /\ TimelyInv(d)'
  BY <1>0, <1>1, ElectorInvAnswer, TimelyAnswer
<1>6. \A d \in Client : FetchInv(d)'
  <2>1. \A d \in Client : call[d].ver \in Nat
    BY <1>0 DEF Call
  <2>2. ASSUME NEW d \in Client, call'[d] = call[d] PROVE FetchInv(d)'
    BY <1>0, <1>3, <2>1, <2>2 DEF FetchInv, Fetched
  <2>3. ASSUME NEW c \in Client, Pull(c), NEW d \in Client PROVE FetchInv(d)'
    <3>1. remote' = remote /\ Len(remote) \in 1..Len(remote)
      BY <1>0, <2>3, ContentType DEF Pull, gitVars
    <3>2. call'[c].ver = Len(remote) /\ (d # c => call'[d] = call[d])
      BY <1>0, <2>3 DEF Pull, Answer
    <3> QED
      BY <2>2, <3>1, <3>2 DEF FetchInv
  <2>4. ASSUME NEW c \in Client, SetNothing(c) \/ Push(c), NEW d \in Client PROVE FetchInv(d)'
    <3>1. call'[c].op = call[c].op /\ call[c].op # "get" /\ (d # c => call'[d] = call[d])
      BY <1>0, <2>4 DEF SetNothing, Push, PendingPush, Answer, IsWrite
    <3> QED
      BY <2>2, <3>1 DEF FetchInv, Fetched
  <2> QED
    BY <2>2, <2>3, <2>4 DEF ServerStep, LatePush
<1> QED
  BY <1>3, <1>4, <1>5, <1>6 DEF LocalInv, TypeOK

\* Time passes.
LEMMA LocalTick ==
    ASSUME LocalInv, Tick PROVE LocalInv'
<1>0. /\ InterfaceTypeOK /\ ElectorTypeOK /\ GitTypeOK
      /\ \A d \in Client : ElectorInv(d) /\ TimelyInv(d) /\ FetchInv(d)
      /\ now < MaxTime /\ now' = now + 1
      /\ UNCHANGED <<call, cancelled, deadline, electorVars>> /\ UNCHANGED gitVars
      /\ \A d \in Client : NoTimerDue(d) /\ CallMayWait(d)
  BY DEF LocalInv, TypeOK, Tick
<1>1. InterfaceTypeOK' /\ ElectorTypeOK'
  BY <1>0, ElectorTypeTick
<1>2. GitTypeOK'
  BY <1>0 DEF gitVars, GitTypeOK
<1>3. ASSUME NEW d \in Client PROVE ElectorInv(d)' /\ TimelyInv(d)' /\ FetchInv(d)'
  <2>1. ElectorInv(d)'
    BY <1>0, ElectorInvTick DEF CallMayWait
  <2>2. TimelyInv(d)'
    BY <1>0, TimelyTick
  <2>3. FetchInv(d)'
    BY <1>0 DEF FetchInv, Fetched, gitVars
  <2> QED
    BY <2>1, <2>2, <2>3
<1> QED
  BY <1>1, <1>2, <1>3 DEF LocalInv, TypeOK

\* Initially every clone is empty and no one waits.
LEMMA LocalInit ==
    ASSUME Init PROVE LocalInv
<1>1. InterfaceTypeOK /\ ElectorTypeOK /\ \A c \in Client : ElectorInv(c) /\ TimelyInv(c)
  BY ElectorTypeInit, ElectorInvInit DEF Init
<1>2. GitTypeOK
  <2>1. ZeroRecord \in Record
    BY DEF ZeroRecord, Record
  <2>2. remote \in Seq({ZeroRecord})
    BY GitAssumption DEF Init, GitInit
  <2>3. remote \in Commit /\ <<>> \in Commit
    BY <2>1, <2>2, SeqMonotonic, EmptySeq DEF Commit
  <2> QED
    BY <2>3, GitAssumption DEF Init, GitInit, GitTypeOK
<1>3. \A c \in Client : FetchInv(c)
  BY DEF Init, InterfaceInit, Idle, FetchInv, Fetched
<1> QED
  BY <1>1, <1>2, <1>3 DEF LocalInv, TypeOK

\* Every step keeps what holds without any condition.
LEMMA LocalStep ==
    ASSUME LocalInv, [Next]_vars PROVE LocalInv'
<1>1. CASE UNCHANGED vars
  BY <1>1 DEF vars, interfaceVars, electorVars, observedVars, gitVars, LocalInv, TypeOK,
     InterfaceTypeOK, ElectorTypeOK, GitTypeOK, ElectorInv, CallMatches, ReportInv, MetricInv,
     TimersInv, GiveUpInv, InRound, TimelyInv, FetchInv, Fetched
<1>2. CASE Next
  BY <1>2, LocalTick, LocalElectorStep, LocalServerStep DEF Next
<1> QED
  BY <1>1, <1>2

\* Every elector keeps within its timers, and a pull fetches a commit that the
\* server has, whatever pushes race.
THEOREM LocalInvariant == Spec => []LocalInv
<1>1. Init => LocalInv
  BY LocalInit
<1>2. LocalInv /\ [Next]_vars => LocalInv'
  BY LocalStep
<1> QED
  BY <1>1, <1>2, PTL DEF Spec

\* Type correctness: clones, branches and late pushes are sequences of records,
\* for any commits the repository may start with.
THEOREM TypeCorrect == Spec => []TypeOK
<1>1. LocalInv => TypeOK
  BY DEF LocalInv
<1> QED
  BY <1>1, LocalInvariant, PTL

-----------------------------------------------------------------------------
(***************************************************************************)
(* The leases.                                                             *)
(***************************************************************************)
\* The configuration the rest is about: no releases, and a lease that outlasts
\* the time a leader may act.
SafeConfig == ~ReleaseOnCancel /\ LeaseDuration > LeadTime

\* The durations as numbers.
LEMMA Durations ==
    /\ RequestTimeout \in Nat /\ RetryPeriod \in Nat /\ RenewDeadline \in Nat
    /\ LeaseDuration \in Nat /\ LeaseDuration > 0
    /\ SafeConfig => LeaseDuration > 2 * RequestTimeout + RetryPeriod + RenewDeadline
BY LockAssumption, ElectorAssumption DEF NewAccepts, SafeConfig, LeadTime

\* The types the argument needs.
LEMMA LeaseTypes ==
    LocalInv =>
        /\ now \in Nat /\ taken \in Nat /\ remote \in Commit /\ Len(remote) \in Nat
        /\ Stored \in Record
        /\ \A c \in Client :
             /\ LastTry(c) \in Nat /\ call[c] \in Call /\ observedTime[c] \in Nat
             /\ wake[c] \in Nat /\ deadline[c] \in Nat
             /\ observedRawRecord[c] \in Record /\ head[c] \in Commit /\ branch[c] \in Commit
<1> SUFFICES ASSUME LocalInv
             PROVE  /\ now \in Nat /\ taken \in Nat /\ remote \in Commit /\ Len(remote) \in Nat
                    /\ Stored \in Record
                    /\ \A c \in Client :
                         /\ LastTry(c) \in Nat /\ call[c] \in Call /\ observedTime[c] \in Nat
                         /\ wake[c] \in Nat /\ deadline[c] \in Nat
                         /\ observedRawRecord[c] \in Record
                         /\ head[c] \in Commit /\ branch[c] \in Commit
  OBVIOUS
<1>1. /\ now \in Nat /\ taken \in Nat /\ remote \in Commit
      /\ \A c \in Client :
           /\ call[c] \in Call /\ observedTime[c] \in Nat
           /\ wake[c] \in Nat /\ deadline[c] \in Nat
           /\ observedRawRecord[c] \in Record /\ head[c] \in Commit /\ branch[c] \in Commit
  BY LockAssumption DEF LocalInv, TypeOK, InterfaceTypeOK, ElectorTypeOK, GitTypeOK
<1>2. Len(remote) \in Nat /\ Stored \in Record
  BY <1>1, ContentType DEF Stored
<1>3. \A c \in Client : LastTry(c) \in Nat
  BY <1>1 DEF LastTry, Call, Record
<1> QED
  BY <1>1, <1>2, <1>3

\* The same of the next state.
LEMMA LeaseTypesNext ==
    (LocalInv =>
        /\ now \in Nat /\ taken \in Nat /\ remote \in Commit /\ Len(remote) \in Nat
        /\ Stored \in Record
        /\ \A c \in Client :
             /\ LastTry(c) \in Nat /\ call[c] \in Call /\ observedTime[c] \in Nat
             /\ wake[c] \in Nat /\ deadline[c] \in Nat
             /\ observedRawRecord[c] \in Record /\ head[c] \in Commit /\ branch[c] \in Commit)'
BY LeaseTypes, PTL

\* The server takes no push, and no client goes back to an earlier try.
Quiet ==
    /\ UNCHANGED <<remote, taken>> /\ now <= now'
    /\ \A d \in Client : LastTry(d) <= LastTry(d)'

\* Then what was past or justified still is.
LEMMA QuietKeeps ==
    ASSUME LocalInv, LocalInv', Quiet, NEW r
    PROVE  (Past(r) => Past(r)') /\ (Justified(r) => Justified(r)')
<1>1. /\ now \in Nat /\ now' \in Nat /\ taken \in Nat /\ LeaseDuration \in Nat
      /\ \A d \in Client : LastTry(d) \in Nat /\ LastTry(d)' \in Nat
  BY LeaseTypes, LeaseTypesNext, Durations
<1>2. Stored' = Stored /\ taken' = taken
  BY DEF Quiet, Stored, Content
<1>3. Made(r) => Made(r)' /\ r.renew \in Nat
  BY <1>1 DEF Made, Record, Quiet
<1> QED
  BY <1>1, <1>2, <1>3 DEF Past, Justified, Follows, Quiet

\* And the pushes whose fate is open stay sound.
LEMMA QuietSound ==
    ASSUME LocalInv, LocalInv', Quiet, NEW k, Sound(k)
    PROVE  Sound(k)'
<1>1. remote' = remote
  BY DEF Quiet
<1>2. Justified(Last(k)) => Justified(Last(k))'
  BY QuietKeeps
<1> QED
  BY <1>1, <1>2 DEF Sound, FastForward

\* What the file held before is still past.
LEMMA RemoteFrame ==
    ASSUME LocalInv, LocalInv', Quiet, RemoteInv PROVE RemoteInv'
<1>1. remote' = remote /\ taken' = taken /\ now <= now'
  BY DEF Quiet
<1>2. now \in Nat /\ now' \in Nat /\ taken \in Nat
  BY LeaseTypes, LeaseTypesNext
<1>3. ASSUME NEW i \in 1..Len(remote) PROVE Past(remote[i])'
  <2>1. Past(remote[i])
    BY DEF RemoteInv
  <2> QED
    BY <1>1, <2>1, QuietKeeps
<1> QED
  BY <1>1, <1>2, <1>3 DEF RemoteInv

\* A client that does nothing, and whose call is not answered.
LEMMA ClientFrame ==
    ASSUME LocalInv, LocalInv', Quiet, NEW d \in Client, ClientInv(d),
           SameElector(d), call'[d] = call[d], head'[d] = head[d]
    PROVE  ClientInv(d)'
<1>1. remote' = remote /\ taken' = taken /\ now <= now' /\ Stored' = Stored
  BY DEF Quiet, Stored, Content
<1>2. now \in Nat /\ now' \in Nat /\ call[d].at \in Nat
  BY LeaseTypes, LeaseTypesNext DEF Call
<1>3. CallInv(d)'
  BY <1>1, <1>2 DEF ClientInv, CallInv, Fetched, SameElector
<1>4. SetInv(d)'
  <2>1. Justified(call[d].rec) => Justified(call[d].rec)'
    BY QuietKeeps
  <2> QED
    BY <1>1, <2>1 DEF ClientInv, SetInv, Clean, SameElector
<1>5. ObservedInv(d)'
  <2>1. Past(observedRawRecord[d])'
    BY QuietKeeps DEF ClientInv, ObservedInv, SameElector
  <2> QED
    BY <1>1, <2>1 DEF ClientInv, ObservedInv, IsLeader, SameElector
<1>6. AckInv(d)' /\ LeadInv(d)'
  BY <1>1 DEF ClientInv, AckInv, LeadInv, InRound, SameElector
<1> QED
  BY <1>3, <1>4, <1>5, <1>6 DEF ClientInv

\* A write is the Create or Update of a try: no one releases.
LEMMA WriteIsSet ==
    ASSUME SafeConfig, LocalInv, NEW c \in Client
    PROVE  /\ IsWrite(c) <=> pc[c] = "set"
           /\ pc[c] # "release"
           /\ call[c].op = "get" <=> pc[c] = "get"
BY NoReleaseCalls DEF LocalInv, TypeOK, SafeConfig

\* How a step of c goes on with its call.
LEMMA CallGoesOn ==
    ASSUME SafeConfig, LocalInv, NEW c \in Client,
           Proceed(c) \/ Resume(c) \/ Fail(c) \/ Crash(c)
    PROVE  \/ pc'[c] \notin {"get", "set"} /\ call'[c].op = "none" /\ call'[c].at \in {0, call[c].at}
           \/ /\ pc'[c] = "get" /\ call'[c].op = "get" /\ call'[c].st = "pending"
              /\ call'[c].at = now /\ pc[c] \in {"wait", "poll"}
           \/ /\ pc'[c] = "set" /\ pc[c] = "get" /\ Resume(c)
              /\ call'[c].st = "pending" /\ call'[c].at = now /\ call'[c].op # "get"
              /\ call'[c].rec.holder = c /\ call'[c].rec.dur = LeaseDuration
              /\ call'[c].rec.renew = call[c].at
           \/ pc'[c] = pc[c] /\ call'[c] = call[c]
BY NoReleaseStep DEF LocalInv, TypeOK, SafeConfig

\* A step of an elector is quiet if the server takes nothing.
LEMMA ElectorQuiet ==
    ASSUME SafeConfig, GitInv, NEW c \in Client, UNCHANGED <<now, remote, taken>>,
           Proceed(c) \/ Resume(c) \/ Fail(c) \/ Crash(c)
    PROVE  Quiet
<1>0. LocalInv /\ InterfaceTypeOK /\ ElectorTypeOK /\ CallInv(c) /\ CallMatches(c)
  BY DEF GitInv, LocalInv, TypeOK, ClientInv, ElectorInv
<1>1. now \in Nat /\ call[c].at \in Nat /\ call[c].rec.renew \in Nat
  BY <1>0, LeaseTypes DEF Call, Record
<1>2. LastTry(c) <= LastTry(c)'
  BY <1>0, <1>1, CallGoesOn DEF LastTry, CallInv
<1>3. ASSUME NEW d \in Client, d # c PROVE LastTry(d) <= LastTry(d)'
  <2>1. SameElector(d) /\ call'[d] = call[d]
    BY <1>0, <1>3, OtherElectors
  <2>2. LastTry(d)' = LastTry(d)
    BY <2>1 DEF LastTry, SameElector
  <2>3. LastTry(d) \in Nat
    BY <1>0, LeaseTypes
  <2> QED
    BY <2>2, <2>3
<1> QED
  BY <1>1, <1>2, <1>3 DEF Quiet

\* What a set pushes is sound, and ends with a record of its client.
LEMMA PushedSound ==
    ASSUME SafeConfig, GitInv, NEW c \in Client, pc[c] = "set", ~Clean(c)
    PROVE  /\ Sound(Pushed(c))
           /\ FastForward(remote, Pushed(c)) => Last(Pushed(c)).holder = c
<1>0. /\ LocalInv /\ CallInv(c) /\ SetInv(c) /\ PoolInv
      /\ head[c] \in Commit /\ remote \in Commit /\ call[c].rec \in Record
  BY LeaseTypes DEF GitInv, ClientInv, Call
<1>1. CASE detached[c]
  BY <1>0, <1>1 DEF Pushed, PoolInv
<1>2. CASE ~detached[c]
  <2>1. Pushed(c) = Append(head[c], call[c].rec)
    BY <1>2 DEF Pushed, Committed
  <2>2. Last(Pushed(c)) = call[c].rec
    BY <1>0, <2>1, CommitOn
  <2>3. call[c].rec.holder = c /\ IsPrefix(head[c], remote)
    BY <1>0 DEF CallInv, SetInv
  <2>4. ASSUME FastForward(remote, Pushed(c))
        PROVE  head[c] = remote /\ Len(Pushed(c)) = Len(remote) + 1
    BY <1>0, <2>1, <2>3, <2>4, OnlyOnLast
  <2>5. FastForward(remote, Pushed(c)) => Justified(call[c].rec)
    BY <1>0, <2>4 DEF SetInv
  <2> QED
    BY <2>2, <2>3, <2>4, <2>5 DEF Sound
<1> QED
  BY <1>1, <1>2

\* A step of the lock of c adds only what a set of c pushed to what is open.
LEMMA PoolStep ==
    ASSUME SafeConfig, GitInv, LocalInv', Quiet, NEW c \in Client,
           \/ New(c) \/ Returns(c) \/ Fails(c) \/ ClientGone(c)
           \/ UNCHANGED gitVars
    PROVE  PoolInv'
<1>0. /\ LocalInv /\ PoolInv /\ remote' = remote
      /\ head \in [Client -> Commit] /\ branch \in [Client -> Commit]
      /\ detached \in [Client -> BOOLEAN]
  BY DEF GitInv, LocalInv, TypeOK, GitTypeOK, Quiet
<1>w. IsWrite(c) <=> pc[c] = "set"
  BY <1>0, WriteIsSet
<1>f. ASSUME NEW k PROVE FastForward(remote, k)' <=> FastForward(remote, k)
  BY <1>0 DEF FastForward
\* What is open and stays open.
<1>k. ASSUME NEW k, Sound(k) PROVE Sound(k)'
  BY <1>0, <1>k, QuietSound
<1>p. ASSUME IsWrite(c), ~Clean(c)
      PROVE  /\ Sound(Pushed(c))
             /\ FastForward(remote, Pushed(c)) => Last(Pushed(c)).holder = c
  BY <1>p, <1>w, PushedSound
<1>1. ASSUME NEW k \in late' PROVE k \in late \/ (IsWrite(c) /\ ~Clean(c) /\ k = Pushed(c))
  <2>1. UNCHANGED late \/ Abandoned(c)
    BY DEF New, Returns, Fails, Refused, ContextEnds, Lost, ClientGone, gitVars
  <2> QED
    BY <1>1, <2>1 DEF Abandoned, PendingPush
<1>2. \A k \in late' : Sound(k)
  BY <1>0, <1>1, <1>p DEF PoolInv
<1>3. ASSUME NEW d \in Client, detached'[d]
      PROVE  \/ detached[d] /\ branch'[d] = branch[d]
             \/ d = c /\ IsWrite(c) /\ ~Clean(c) /\ branch'[d] = Pushed(c)
  <2>1. CASE New(c) \/ ClientGone(c)
    BY <1>0, <1>3, <2>1 DEF New, ClientGone
  <2>2. CASE UNCHANGED gitVars
    BY <1>3, <2>2 DEF gitVars
  <2>3. CASE Returns(c)
    BY <1>0, <1>3, <2>3 DEF Returns, Pushed
  <2>4. CASE Fails(c)
    <3>1. CloneAfterFailure(c) /\ (IsWrite(c) => ~Clean(c))
      BY <2>4 DEF Fails, Refused, ContextEnds, Lost, Asks, PendingPush, IsWrite
    <3> QED
      BY <1>0, <1>3, <3>1 DEF CloneAfterFailure, PushFails
  <2> QED
    BY <2>1, <2>2, <2>3, <2>4
<1>4. ASSUME NEW d \in Client, detached'[d]
      PROVE  /\ Sound(branch'[d])
             /\ FastForward(remote, branch'[d]) => Last(branch'[d]).holder = d
  <2>1. CASE detached[d] /\ branch'[d] = branch[d]
    BY <1>0, <2>1 DEF PoolInv
  <2>2. CASE d = c /\ IsWrite(c) /\ ~Clean(c) /\ branch'[d] = Pushed(c)
    BY <1>p, <2>2
  <2> QED
    BY <1>3, <1>4, <2>1, <2>2
<1>5. \A k \in late' : Sound(k)'
  BY <1>2, <1>k
<1>6. ASSUME NEW d \in Client, detached'[d], NEW k, k = branch'[d]
      PROVE  Sound(k)' /\ (FastForward(remote, k)' => Last(k).holder = d)
  BY <1>4, <1>6, <1>f, <1>k
<1>7. ASSUME NEW d \in Client, detached'[d]
      PROVE  Sound(branch[d])' /\ (FastForward(remote, branch[d])' => Last(branch'[d]).holder = d)
  BY <1>6, <1>7
<1> QED
  BY <1>5, <1>7 DEF PoolInv, Last

\* What c has observed stays past.
LEMMA ObservedFrame ==
    ASSUME LocalInv, LocalInv', Quiet, NEW c \in Client, ObservedInv(c),
           observedRecord'[c] = observedRecord[c], observedTime'[c] = observedTime[c],
           observedRawRecord'[c] = observedRawRecord[c]
    PROVE  ObservedInv(c)'
<1>1. taken' = taken /\ Stored' = Stored
  BY DEF Quiet, Stored, Content
<1>2. Past(observedRawRecord[c])'
  BY QuietKeeps DEF ObservedInv
<1> QED
  BY <1>1, <1>2 DEF ObservedInv, IsLeader

\* Steps of an elector that no call is involved in.
LEMMA OwnProceed ==
    ASSUME SafeConfig, GitInv, LocalInv', Quiet, NEW c \in Client, Proceed(c), UNCHANGED now,
           pc[c] = "off" \/ head'[c] = head[c]
    PROVE  ClientInv(c)'
<1>0. /\ LocalInv /\ CallInv(c) /\ SetInv(c) /\ ObservedInv(c) /\ AckInv(c) /\ LeadInv(c)
      /\ ElectorTypeOK /\ InterfaceTypeOK /\ ElectorInv(c) /\ ~ReleaseOnCancel
      /\ remote' = remote /\ taken' = taken /\ Stored' = Stored
  BY DEF GitInv, ClientInv, LocalInv, TypeOK, SafeConfig, Quiet, Stored, Content
<1>t. /\ now \in Nat /\ call[c].at \in Nat /\ call[c].rec.renew \in Nat /\ taken \in Nat
      /\ wake[c] \in Nat /\ deadline[c] \in Nat
  BY <1>0, LeaseTypes DEF Call, Record
<1>1. ObservedInv(c)'
  <2>1. observedRecord' = observedRecord /\ observedTime' = observedTime
        /\ observedRawRecord' = observedRawRecord
    BY DEF Proceed, Run, StartTry, StartRound, PollTick, StopAcquiring, StopBetweenRounds,
           StopPolling, LeaveRenew, Cancel, observedVars
  <2> QED
    BY <1>0, <2>1, ObservedFrame
<1>2. \/ pc'[c] \notin {"get", "set"} /\ call'[c].op = "none" /\ call'[c].at <= now
      \/ pc'[c] = "get" /\ call'[c].st = "pending" /\ call'[c].at = now
      \/ pc'[c] = pc[c] /\ call'[c] = call[c]
  <2>1. ~Resume(c) \/ pc[c] # "get"
    BY <1>0 DEF Proceed, Run, StartTry, StartRound, PollTick, StopAcquiring, StopBetweenRounds,
           StopPolling, LeaveRenew, Cancel, Resume, CreateRecord, LeaseHeld, TakeOrRenew,
           SetSucceeds, ReleaseSucceeds, ReleaseEnds, TryFails, Return, Invoke, ElectorTypeOK, PCs
  <2> QED
    BY <1>0, <1>t, <2>1, CallGoesOn DEF CallInv
<1>3. CallInv(c)'
  BY <1>0, <1>2, <1>t DEF CallInv, Fetched
<1>4. SetInv(c)' /\ AckInv(c)'
  <2>1. CASE pc'[c] # "set"
    BY <2>1 DEF SetInv, AckInv
  <2>2. CASE pc'[c] = "set"
    <3>1. pc[c] = "set" /\ call'[c] = call[c] /\ head'[c] = head[c]
      BY <1>2, <2>2
    <3>2. Justified(call[c].rec) => Justified(call[c].rec)'
      BY <1>0, <3>1, QuietKeeps
    <3> QED
      BY <1>0, <3>1, <3>2 DEF SetInv, AckInv, Clean
  <2> QED
    BY <2>1, <2>2
<1>5. LeadInv(c)'
  <2>1. CASE Run(c) \/ StartTry(c) \/ StopAcquiring(c)
    <3>1. ~leading[c] /\ leading' = leading
      BY <1>0, <2>1 DEF Run, StartTry, StopAcquiring, ElectorInv, GiveUpInv
    <3> QED
      BY <3>1 DEF LeadInv
  <2>2. CASE StartRound(c)
    <3>1. /\ pc[c] = "wait" /\ pc'[c] = "get" /\ deadline'[c] = now + RenewDeadline
          /\ leading' = leading /\ now <= wake[c]
      BY <1>0, <2>2 DEF StartRound, ElectorTypeOK, InterfaceTypeOK, ElectorInv, TimersInv
    <3> QED
      BY <1>0, <1>t, <3>1, Durations DEF LeadInv
  <2>3. CASE PollTick(c)
    <3>1. /\ pc[c] = "poll" /\ pc'[c] = "get" /\ deadline' = deadline /\ leading' = leading
      BY <1>0, <2>3 DEF PollTick, ElectorTypeOK
    <3> QED
      BY <1>0, <3>1 DEF LeadInv, InRound
  <2>4. CASE StopBetweenRounds(c) \/ StopPolling(c) \/ Cancel(c)
    <3>1. ~leading'[c]
      BY <1>0, <2>4 DEF StopBetweenRounds, StopPolling, LeaveRenew, Cancel, ElectorTypeOK
    <3> QED
      BY <3>1 DEF LeadInv
  <2> QED
    BY <2>1, <2>2, <2>3, <2>4 DEF Proceed
<1> QED
  BY <1>1, <1>3, <1>4, <1>5 DEF ClientInv

\* A try that fails, whatever it has observed.
LEMMA OwnTryFails ==
    ASSUME SafeConfig, GitInv, LocalInv', Quiet, NEW c \in Client, TryFails(c), UNCHANGED now,
           pc[c] \in {"get", "set"}, ObservedInv(c)'
    PROVE  ClientInv(c)'
<1>0. /\ LocalInv /\ LeadInv(c) /\ ElectorTypeOK /\ InterfaceTypeOK /\ ElectorInv(c)
      /\ taken' = taken /\ Stored' = Stored
  BY DEF GitInv, ClientInv, LocalInv, TypeOK, Quiet, Stored, Content
<1>1. /\ pc'[c] \in {"wait", "poll"} /\ call'[c] = Idle
      /\ inRenew[c] => pc'[c] = "poll"
      /\ deadline' = deadline /\ leading' = leading
  BY <1>0 DEF TryFails, Return, ElectorTypeOK, InterfaceTypeOK
<1>2. CallInv(c)' /\ SetInv(c)' /\ AckInv(c)'
  BY <1>0, <1>1, LeaseTypes DEF CallInv, SetInv, AckInv, Fetched, Idle
<1>3. LeadInv(c)'
  BY <1>0, <1>1 DEF LeadInv, InRound, ElectorInv, GiveUpInv
<1> QED
  BY <1>2, <1>3 DEF ClientInv

\* A call of c fails.
LEMMA OwnFail ==
    ASSUME SafeConfig, GitInv, LocalInv', Quiet, NEW c \in Client, Fail(c), UNCHANGED now
    PROVE  ClientInv(c)'
<1>0. LocalInv /\ ObservedInv(c) /\ pc[c] # "release"
  BY WriteIsSet DEF GitInv, ClientInv
<1>1. CallFails(c)
  BY <1>0 DEF Fail, ReleaseFails, ReleaseEnds
<1>2. ObservedInv(c)'
  BY <1>0, <1>1, ObservedFrame DEF CallFails, observedVars
<1> QED
  BY <1>1, <1>2, OwnTryFails DEF CallFails

\* c dies.
LEMMA OwnDie ==
    ASSUME SafeConfig, GitInv, LocalInv', Quiet, NEW c \in Client, Crash(c), UNCHANGED now
    PROVE  ClientInv(c)'
<1>0. /\ LocalInv /\ ElectorTypeOK /\ InterfaceTypeOK /\ now \in Nat /\ taken \in Nat
  BY LeaseTypes DEF GitInv, LocalInv, TypeOK
<1>1. /\ pc'[c] = "off" /\ call'[c] = Idle /\ ~leading'[c]
      /\ observedRecord'[c] = ZeroRecord /\ observedRawRecord'[c] = ZeroRecord
  BY <1>0 DEF Crash, ElectorTypeOK, InterfaceTypeOK
<1>2. CallInv(c)' /\ SetInv(c)' /\ AckInv(c)' /\ LeadInv(c)'
  BY <1>0, <1>1 DEF CallInv, SetInv, AckInv, LeadInv, Fetched, Idle
<1>3. ObservedInv(c)'
  BY <1>0, <1>1, LockAssumption DEF ObservedInv, Past, IsLeader, ZeroRecord
<1> QED
  BY <1>2, <1>3 DEF ClientInv

\* A Get has returned a record: it is past, and c has observed it by now.
LEMMA OwnObserve ==
    ASSUME SafeConfig, GitInv, LocalInv', Quiet, NEW c \in Client, UNCHANGED now,
           pc[c] = "get", call[c].st = "ok", Observe(c, call[c].rec)
    PROVE  /\ ObservedInv(c)' /\ observedRawRecord'[c] = call[c].rec
           /\ Past(call[c].rec) /\ call[c].rec # ZeroRecord
<1>0. /\ LocalInv /\ CallInv(c) /\ ObservedInv(c) /\ RemoteInv /\ FetchInv(c)
      /\ ElectorTypeOK /\ taken' = taken /\ Stored' = Stored /\ taken <= now
  BY DEF GitInv, ClientInv, LocalInv, TypeOK, Quiet, Stored, Content, RemoteInv
<1>1. Fetched(c)
  BY <1>0, WriteIsSet DEF Fetched
<1>2. Past(call[c].rec) /\ call[c].rec # ZeroRecord
  BY <1>0, <1>1 DEF FetchInv, CallInv, RemoteInv
<1>3. observedRawRecord'[c] = call[c].rec
  BY <1>0 DEF Observe, observedVars, ElectorTypeOK
<1>4. ASSUME NEW r, r = call[c].rec PROVE Past(r)'
  BY <1>0, <1>2, <1>4, QuietKeeps
<1>5. Past(observedRawRecord[c])'
  BY <1>3, <1>4
<1>6. CASE observedRawRecord[c] = call[c].rec
  <2>1. UNCHANGED <<observedRecord, observedRawRecord, observedTime>>
    BY <1>6 DEF Observe, observedVars
  <2> QED
    BY <1>0, <1>2, <1>3, <2>1, ObservedFrame
<1>7. CASE observedRawRecord[c] # call[c].rec
  <2>1. observedRecord'[c] = call[c].rec /\ observedTime'[c] = now
    BY <1>0, <1>7 DEF Observe, SetObservedRecord, ElectorTypeOK
  <2> QED
    BY <1>0, <1>2, <1>3, <1>5, <2>1 DEF ObservedInv, IsLeader
<1> QED
  BY <1>2, <1>3, <1>6, <1>7

\* A Get has returned and c goes on to write.
LEMMA OwnWrites ==
    ASSUME SafeConfig, GitInv, LocalInv', Quiet, NEW c \in Client, UNCHANGED now,
           Resume(c), Returns(c), pc[c] = "get", pc'[c] = "set", ObservedInv(c)',
           UNCHANGED <<leading, deadline>>,
           remote = SubSeq(remote, 1, call[c].ver) /\ Stored # call'[c].rec
             => Justified(call'[c].rec)
    PROVE  ClientInv(c)'
<1>0. /\ LocalInv /\ CallInv(c) /\ LeadInv(c) /\ FetchInv(c) /\ TimelyInv(c)
      /\ GitTypeOK /\ remote' = remote /\ taken' = taken /\ Stored' = Stored
      /\ remote \in Commit
  BY DEF GitInv, ClientInv, LocalInv, TypeOK, Quiet, Stored, Content, GitTypeOK
<1>t. now \in Nat /\ call[c].at \in Nat /\ RequestTimeout \in Nat
  BY <1>0, LeaseTypes, Durations DEF Call
<1>1. /\ call'[c].st = "pending" /\ call'[c].at = now /\ call'[c].op # "get"
      /\ call'[c].rec.holder = c /\ call'[c].rec.dur = LeaseDuration
      /\ call'[c].rec.renew = call[c].at
  BY <1>0, CallGoesOn
<1>2. call[c].op = "get" /\ ~IsWrite(c) /\ Fetched(c)
  BY <1>0, WriteIsSet DEF Fetched, Returns
<1>3. CallInv(c)' /\ AckInv(c)'
  BY <1>0, <1>1, <1>2, <1>t DEF CallInv, AckInv, Fetched, TimelyInv
<1>4. LeadInv(c)'
  BY <1>0 DEF LeadInv, InRound
<1>5. SetInv(c)'
  <2>1. head'[c] = SubSeq(remote, 1, call[c].ver)
    BY <1>0, <1>2 DEF Returns, GitTypeOK
  <2>2. IsPrefix(head[c], remote)'
    BY <1>0, <1>2, <2>1, FetchedType DEF FetchInv
  <2>3. ASSUME head'[c] = remote, ~Clean(c)' PROVE Justified(call[c].rec)'
    <3>1. remote = SubSeq(remote, 1, call[c].ver) /\ Stored # call'[c].rec
      BY <2>1, <2>3 DEF Clean, Stored, Content
    <3>2. ASSUME NEW r, r = call'[c].rec PROVE Justified(r)'
      BY <1>0, <3>1, <3>2, QuietKeeps
    <3> QED
      BY <3>2
  <2> QED
    BY <1>0, <2>2, <2>3 DEF SetInv
<1> QED
  BY <1>3, <1>4, <1>5 DEF ClientInv

\* Steps of an elector when its call has returned.
LEMMA OwnResume ==
    ASSUME SafeConfig, GitInv, LocalInv', Quiet, NEW c \in Client, UNCHANGED now,
           Resume(c), Returns(c)
    PROVE  ClientInv(c)'
<1>0. /\ LocalInv /\ CallInv(c) /\ ObservedInv(c) /\ AckInv(c) /\ RemoteInv
      /\ FetchInv(c) /\ TimelyInv(c) /\ ElectorTypeOK /\ InterfaceTypeOK
      /\ taken' = taken /\ Stored' = Stored
  BY DEF GitInv, ClientInv, LocalInv, TypeOK, Quiet, Stored, Content
<1>t. /\ now \in Nat /\ taken \in Nat /\ call[c].at \in Nat /\ call[c].rec \in Record
      /\ remote \in Commit /\ observedTime'[c] \in Nat /\ call'[c].rec \in Record
      /\ observedRawRecord[c] \in Record
      /\ RequestTimeout \in Nat /\ RetryPeriod \in Nat /\ LeaseDuration \in Nat
  BY <1>0, LeaseTypes, LeaseTypesNext, Durations DEF Call
\* When the server has had no push since the pull, the file is what Get returned.
<1>g. ASSUME pc[c] = "get", remote = SubSeq(remote, 1, call[c].ver)
      PROVE  Stored = call[c].rec
  <2>1. Fetched(c)
    BY <1>0, <1>g, WriteIsSet DEF Fetched, Returns
  <2> QED
    BY <1>0, <1>g, <1>t, <2>1, FetchedType DEF Stored, FetchInv, CallInv
\* The record c writes is of this try.
<1>m. ASSUME pc[c] = "get", pc'[c] = "set"
      PROVE  Made(call'[c].rec) /\ call'[c].rec.holder = c /\ call'[c].rec.renew = call[c].at
  <2>1. /\ call'[c].rec.holder = c /\ call'[c].rec.dur = LeaseDuration
        /\ call'[c].rec.renew = call[c].at
    BY <1>0, <1>m, CallGoesOn
  <2> QED
    BY <1>t, <1>m, <2>1 DEF Made, LastTry
<1>1. CASE CreateRecord(c)
  <2>1. /\ pc[c] = "get" /\ pc'[c] = "set" /\ UNCHANGED <<leading, deadline>>
        /\ UNCHANGED <<observedRecord, observedRawRecord, observedTime>>
    BY <1>0, <1>1 DEF CreateRecord, observedVars, ElectorTypeOK
  <2>2. call[c].rec = ZeroRecord
    BY <1>0, <1>1, <2>1, WriteIsSet DEF CreateRecord, CallInv, Fetched
  <2>3. ObservedInv(c)'
    BY <1>0, <2>1, ObservedFrame
  <2> QED
    BY <1>g, <1>m, <2>1, <2>2, <2>3, OwnWrites DEF Justified
<1>2. CASE LeaseHeld(c)
  BY <1>2, OwnObserve, OwnTryFails DEF LeaseHeld
<1>3. CASE TakeOrRenew(c)
  <2>1. /\ pc[c] = "get" /\ call[c].st = "ok" /\ Observe(c, call[c].rec)
        /\ pc'[c] = "set" /\ UNCHANGED <<leading, deadline>>
        /\ ~HeldByOther(c, call[c].rec, call[c].at)
    BY <1>0, <1>3 DEF TakeOrRenew, ElectorTypeOK
  <2>2. /\ ObservedInv(c)' /\ observedRawRecord'[c] = call[c].rec
        /\ Past(call[c].rec) /\ call[c].rec # ZeroRecord
    BY <2>1, OwnObserve
  <2>3. call'[c].rec.trans = IF observedRecord'[c].holder = c
                             THEN call[c].rec.trans ELSE call[c].rec.trans + 1
    BY <1>0, <1>3 DEF TakeOrRenew, Invoke, NewRecord, InterfaceTypeOK
  <2>4. ASSUME remote = SubSeq(remote, 1, call[c].ver), Stored # call'[c].rec
        PROVE  Justified(call'[c].rec)
    <3>1. Stored = call[c].rec /\ Made(Stored)
      BY <1>g, <2>1, <2>2, <2>4 DEF Past
    <3>2. Made(call'[c].rec) /\ call'[c].rec.holder = c /\ call'[c].rec.renew = call[c].at
      BY <1>m, <2>1
    <3>3. CASE observedRecord'[c].holder = c
      <4>1. Stored.holder = c
        BY <1>0, <2>2, <3>1, <3>3, LockAssumption DEF ObservedInv, IsLeader, Made, Record
      <4>2. Stored.renew <= call[c].at
        BY <2>1, <3>1, <4>1 DEF Made, LastTry
      <4> QED
        BY <1>t, <2>3, <2>4, <3>1, <3>2, <3>3, <4>1, <4>2 DEF Justified, Record
    <3>4. CASE observedRecord'[c].holder # c
      <4>1. Stored.holder # c
        BY <1>0, <2>2, <3>1, <3>4 DEF ObservedInv, IsLeader
      <4>2. observedTime'[c] + LeaseDuration <= call[c].at
        BY <1>t, <2>1, <3>1, <3>4, LockAssumption DEF HeldByOther, Made
      <4>3. taken <= observedTime'[c]
        BY <1>0, <2>2, <3>1 DEF ObservedInv
      <4>4. now >= taken + LeaseDuration
        BY <1>0, <1>t, <4>2, <4>3 DEF CallInv
      <4> QED
        BY <2>3, <3>1, <3>2, <3>4, <4>1, <4>4 DEF Justified
    <3> QED
      BY <3>3, <3>4
  <2> QED
    BY <2>1, <2>2, <2>4, OwnWrites
<1>4. CASE SetSucceeds(c)
  <2>1. /\ pc[c] = "set" /\ call[c].st = "ok" /\ pc'[c] = "wait" /\ call'[c] = Idle
        /\ observedRecord'[c] = call[c].rec /\ observedTime'[c] = now
        /\ observedRawRecord'[c] = observedRawRecord[c]
        /\ wake'[c] \in {now, now + RetryPeriod}
    BY <1>0, <1>4 DEF SetSucceeds, SetObservedRecord, Return, ElectorTypeOK, InterfaceTypeOK
  <2>2. /\ Stored.holder = c /\ call[c].rec.renew <= taken /\ call[c].rec.holder = c
        /\ call[c].at <= call[c].rec.renew + RequestTimeout
    BY <1>0, <2>1 DEF AckInv, CallInv
  <2>3. now <= call[c].at + RequestTimeout
    BY <1>0, <2>1, WriteIsSet DEF TimelyInv, IsWrite
  <2>4. Past(observedRawRecord[c])'
    BY <1>0, <2>1, QuietKeeps DEF ObservedInv
  <2>5. \/ observedRawRecord[c].holder \in {c, NoOne}
        \/ observedRawRecord[c].trans < Stored.trans
    BY <1>0, <1>t, <2>2, LeaseTypes DEF ObservedInv, Past, Follows, ZeroRecord, Record
  <2>6. ObservedInv(c)'
    BY <1>0, <2>1, <2>2, <2>4, <2>5 DEF ObservedInv, IsLeader, RemoteInv
  <2>7. CallInv(c)' /\ SetInv(c)' /\ AckInv(c)'
    BY <1>t, <2>1 DEF CallInv, SetInv, AckInv, Fetched, Idle
  <2>8. now <= taken + 2 * RequestTimeout
    BY <1>t, <2>2, <2>3 DEF Record
  <2>9. LeadInv(c)'
    BY <1>0, <1>t, <2>1, <2>2, <2>8 DEF LeadInv, InRound
  <2> QED
    BY <2>6, <2>7, <2>9 DEF ClientInv
<1>5. ~ReleaseSucceeds(c)
  BY <1>0, WriteIsSet DEF ReleaseSucceeds, ReleaseEnds
<1> QED
  BY <1>1, <1>2, <1>3, <1>4, <1>5 DEF Resume

-----------------------------------------------------------------------------
\* What the file holds was made by its holder, unless it holds nothing.
LEMMA StoredPast ==
    ASSUME GitInv PROVE Past(Stored)
<1>1. remote \in Commit /\ RemoteInv
  BY LeaseTypes DEF GitInv
<1>2. CASE remote = <<>>
  BY <1>2 DEF Stored, Content, Past
<1>3. CASE remote # <<>>
  BY <1>1, <1>3, ContentType DEF Stored, RemoteInv
<1> QED
  BY <1>2, <1>3

\* c leads, or is about to learn that it does: the lease is its own, and runs.
LEMMA HolderSecure ==
    ASSUME SafeConfig, GitInv, NEW c \in Client, leading[c] \/ (pc[c] = "set" /\ call[c].st = "ok")
    PROVE  Stored.holder = c /\ now < taken + LeaseDuration
<1>0. /\ LocalInv /\ CallInv(c) /\ AckInv(c) /\ LeadInv(c) /\ ElectorInv(c) /\ TimelyInv(c)
  BY DEF GitInv, ClientInv, LocalInv
<1>t. /\ now \in Nat /\ taken \in Nat /\ call[c].at \in Nat /\ call[c].rec.renew \in Nat
      /\ wake[c] \in Nat /\ deadline[c] \in Nat
      /\ RequestTimeout \in Nat /\ RetryPeriod \in Nat /\ RenewDeadline \in Nat
      /\ LeaseDuration \in Nat
      /\ LeaseDuration > 2 * RequestTimeout + RetryPeriod + RenewDeadline
  BY <1>0, LeaseTypes, Durations DEF Call, Record
<1>1. CASE leading[c]
  <2>1. pc[c] # "release"
    BY <1>0, WriteIsSet
  <2>2. CASE pc[c] = "wait"
    BY <1>0, <1>1, <1>t, <2>2 DEF LeadInv, ElectorInv, TimersInv
  <2>3. CASE InRound(c)
    BY <1>0, <1>1, <1>t, <2>3 DEF LeadInv, ElectorInv, TimersInv, GiveUpInv
  <2> QED
    BY <1>0, <1>1, <2>1, <2>2, <2>3 DEF ElectorInv, GiveUpInv, InRound
<1>2. CASE pc[c] = "set" /\ call[c].st = "ok"
  <2>1. now <= call[c].at + RequestTimeout
    BY <1>0, <1>2, WriteIsSet DEF TimelyInv, IsWrite
  <2> QED
    BY <1>0, <1>2, <1>t, <2>1 DEF AckInv, CallInv
<1> QED
  BY <1>1, <1>2

\* The server takes a sound push: it renews the lease, or takes one that has
\* ended, and what was past still is.
LEMMA TakeKeeps ==
    ASSUME SafeConfig, GitInv, LocalInv', NEW k \in Commit, FastForward(remote, k), Sound(k),
           Take(k), UNCHANGED now, \A d \in Client : LastTry(d)' = LastTry(d)
    PROVE  /\ Justified(Last(k)) /\ Stored' = Last(k) /\ taken' = now /\ remote' = k
           /\ Len(k) = Len(remote) + 1 /\ Last(k) \in Record /\ Last(k).trans >= Stored.trans
           /\ \A r : Past(r) => Past(r)'
           /\ RemoteInv'
<1>0. /\ LocalInv /\ RemoteInv /\ Past(Stored) /\ taken <= now
      /\ now \in Nat /\ taken \in Nat /\ remote \in Commit /\ Len(remote) \in Nat
      /\ Stored \in Record /\ LeaseDuration \in Nat
      /\ \A d \in Client : LastTry(d) \in Nat
  BY StoredPast, LeaseTypes, Durations DEF GitInv, RemoteInv
<1>1. /\ Justified(Last(k)) /\ Len(k) = Len(remote) + 1 /\ remote' = k /\ taken' = now
  BY DEF Sound, Take
<1>2. k # <<>> /\ Stored' = Last(k) /\ Last(k) = k[Len(k)] /\ Last(k) \in Record
  <2>1. k # <<>>
    BY <1>0, <1>1
  <2> QED
    BY <1>1, <2>1, ContentType DEF Stored, Content
<1>3. Last(k).trans >= Stored.trans /\ Last(k) # ZeroRecord /\ Last(k).renew <= now
  <2>1. LastTry(Last(k).holder) <= now
    <3>1. \A d \in Client : CallInv(d)
      BY DEF GitInv, ClientInv
    <3>2. \A d \in Client : call[d].at \in Nat /\ call[d].rec.renew \in Nat
      BY <1>0, LeaseTypes DEF Call, Record
    <3>3. \A d \in Client : LastTry(d) <= now
      BY <1>0, <3>1, <3>2 DEF LastTry, CallInv
    <3> QED
      BY <1>1, <3>3 DEF Justified, Made
  <2>2. Last(k).renew <= LastTry(Last(k).holder) /\ Last(k).holder \in Client
    BY <1>1 DEF Justified, Made
  <2>3. Last(k).renew <= now
    BY <1>0, <1>2, <2>1, <2>2 DEF Record
  <2>4. Last(k).trans >= Stored.trans
    BY <1>0, <1>1, <1>2 DEF Justified, ZeroRecord, Record
  <2> QED
    BY <2>2, <2>3, <2>4, LockAssumption DEF ZeroRecord
<1>4. ASSUME NEW r, Past(r), r # ZeroRecord PROVE Past(r)'
  <2>1. Made(r) /\ r \in Record /\ r.holder \in Client
    BY <1>4 DEF Past, Made
  <2>2. Made(r)'
    BY <2>1 DEF Made
  <2>3. Stored # ZeroRecord
    BY <1>4, <2>1, LockAssumption DEF Past, Follows, ZeroRecord, Record
  <2>4. Follows(r)'
    BY <1>0, <1>1, <1>2, <1>4, <2>1, <2>3 DEF Past, Follows, Justified, Record
  <2>5. CASE Stored.holder = r.holder /\ r.renew <= taken /\ Last(k).holder = Stored.holder
    BY <1>0, <1>1, <1>2, <2>1, <2>2, <2>4, <2>5 DEF Past, Record
  <2>6. CASE Stored.holder = r.holder /\ r.renew <= taken /\ Last(k).holder # Stored.holder
    <3>1. now >= taken + LeaseDuration
      BY <1>1, <2>3, <2>6 DEF Justified
    <3>2. now >= r.renew + LeaseDuration
      BY <1>0, <2>1, <2>6, <3>1 DEF Record
    <3> QED
      BY <2>2, <2>4, <3>2 DEF Past
  <2>7. CASE now >= r.renew + LeaseDuration
    BY <2>2, <2>4, <2>7 DEF Past
  <2> QED
    BY <1>4, <2>5, <2>6, <2>7 DEF Past
<1>5. \A r : Past(r) => Past(r)'
  BY <1>4 DEF Past
<1>6. ASSUME NEW r, r = Last(k) PROVE Past(r)'
  <2>1. Made(r)' /\ r \in Record
    BY <1>1, <1>6 DEF Justified, Made
  <2> QED
    BY <1>0, <1>1, <1>2, <1>3, <1>6, <2>1 DEF Past, Follows, Record
<1>7. RemoteInv'
  <2>1. ASSUME NEW i \in 1..Len(k), NEW r, r = k[i] PROVE Past(r)'
    <3>1. CASE i = Len(k)
      BY <1>2, <1>6, <2>1, <3>1
    <3>2. CASE i # Len(k)
      <4>1. i \in 1..Len(remote)
        BY <1>0, <1>1, <2>1, <3>2
      <4>2. r = remote[i]
        BY <1>0, <2>1, <4>1, FastForwardAdds
      <4> QED
        BY <1>0, <1>5, <4>1, <4>2 DEF RemoteInv
    <3> QED
      BY <3>1, <3>2
  <2>2. \A i \in 1..Len(remote') : Past(remote[i])'
    BY <1>1, <2>1
  <2> QED
    BY <1>0, <1>1, <2>2 DEF RemoteInv
<1> QED
  BY <1>1, <1>2, <1>3, <1>5, <1>7

\* No other push that was open can be taken any more.
LEMMA TakePool ==
    ASSUME SafeConfig, GitInv, LocalInv', NEW k \in Commit, FastForward(remote, k), Sound(k),
           Take(k), UNCHANGED <<head, branch, detached>>
    PROVE  PoolInv'
<1>0. /\ PoolInv /\ remote \in Commit /\ Len(remote) \in Nat /\ late \subseteq Commit
      /\ \A d \in Client : branch[d] \in Commit
  BY LeaseTypes DEF GitInv, LocalInv, TypeOK, GitTypeOK
<1>1. remote' = k /\ Len(k) = Len(remote) + 1 /\ late' \subseteq late
  BY DEF Sound, Take
<1>2. ASSUME NEW w \in Commit, Sound(w) PROVE ~FastForward(k, w)
  <2>1. SUFFICES ASSUME FastForward(k, w) PROVE FALSE
    OBVIOUS
  <2>2. /\ Len(k) < Len(w) /\ \A i \in 1..Len(k) : k[i] = w[i]
        /\ \A i \in 1..Len(remote) : remote[i] = k[i]
    BY <1>0, <2>1, FastForwardAdds
  <2>3. Len(k) \in Nat /\ Len(w) \in Nat
    BY ContentType
  <2>4. Len(remote) < Len(w) /\ \A i \in 1..Len(remote) : remote[i] = w[i]
    BY <1>0, <1>1, <2>2, <2>3
  <2>5. FastForward(remote, w)
    BY <1>0, <2>4, FastForwardAdds
  <2> QED
    BY <1>0, <1>1, <1>2, <2>2, <2>3, <2>5 DEF Sound
<1>3. ASSUME NEW w \in Commit, Sound(w) PROVE Sound(w)' /\ ~FastForward(remote', w)
  BY <1>1, <1>2, <1>3 DEF Sound, FastForward
<1>4. \A w \in late' : Sound(w)'
  BY <1>0, <1>1, <1>3 DEF PoolInv
<1>5. ASSUME NEW d \in Client, detached'[d]
      PROVE  Sound(branch[d])' /\ ~FastForward(remote', branch'[d])
  BY <1>0, <1>3, <1>5 DEF PoolInv
<1> QED
  BY <1>4, <1>5 DEF PoolInv, FastForward

\* Client d when the server takes a push, its own or that of another.
LEMMA TakeClient ==
    ASSUME SafeConfig, GitInv, LocalInv', NEW k \in Commit, FastForward(remote, k), Sound(k),
           Take(k), UNCHANGED <<now, cancelled, deadline, electorVars, head>>,
           \A d \in Client : LastTry(d)' = LastTry(d),
           NEW d \in Client,
           \/ call'[d] = call[d]
           \/ /\ pc[d] = "set" /\ Last(k).holder = d
              /\ call'[d].op = call[d].op /\ call'[d].rec = call[d].rec
              /\ call'[d].at = call[d].at
    PROVE  ClientInv(d)'
<1>0. /\ LocalInv /\ CallInv(d) /\ SetInv(d) /\ ObservedInv(d) /\ AckInv(d) /\ LeadInv(d)
      /\ FetchInv(d) /\ RemoteInv /\ taken <= now /\ Past(Stored)
      /\ UNCHANGED <<pc, inRenew, wake, observedRecord, observedRawRecord, observedTime, leading>>
  BY StoredPast DEF GitInv, ClientInv, LocalInv, RemoteInv, electorVars, observedVars
<1>t. /\ now \in Nat /\ taken \in Nat /\ remote \in Commit /\ Len(remote) \in Nat
      /\ Stored \in Record /\ observedRawRecord[d] \in Record /\ head[d] \in Commit
      /\ call[d].at \in Nat /\ call[d].rec.renew \in Nat /\ call[d].ver \in Nat
      /\ wake[d] \in Nat /\ deadline[d] \in Nat
  BY <1>0, LeaseTypes DEF Call, Record
<1>1. /\ Justified(Last(k)) /\ Stored' = Last(k) /\ taken' = now /\ remote' = k
      /\ Len(k) = Len(remote) + 1 /\ Last(k) \in Record /\ Last(k).trans >= Stored.trans
      /\ \A r : Past(r) => Past(r)'
  BY TakeKeeps
<1>2. \A i \in 1..Len(remote) : k[i] = remote[i]
  BY <1>t, FastForwardAdds
<1>3. CallInv(d)'
  <2>1. CASE pc[d] = "set"
    <3>1. call[d].op # "get" /\ call'[d].op # "get"
      BY <1>0, <2>1, WriteIsSet
    <3> QED
      BY <1>0, <2>1, <3>1 DEF CallInv, Fetched
  <2>2. CASE pc[d] # "set"
    BY <1>0, <1>1, <1>2, <2>2 DEF CallInv, Fetched, FetchInv
  <2> QED
    BY <2>1, <2>2
<1>4. SetInv(d)'
  <2>1. ASSUME pc[d] = "set"
        PROVE  Len(head[d]) < Len(k) /\ \A i \in 1..Len(head[d]) : head[d][i] = k[i]
    <3>1. IsPrefix(head[d], remote)
      BY <1>0, <2>1 DEF SetInv
    <3>2. Len(head[d]) <= Len(remote) /\ \A i \in 1..Len(head[d]) : head[d][i] = remote[i]
      BY <1>t, <3>1, PrefixElements
    <3>3. Len(head[d]) \in Nat
      BY <1>t, ContentType
    <3>4. \A i \in 1..Len(head[d]) : i \in 1..Len(remote)
      BY <1>t, <3>2, <3>3
    <3>5. Len(head[d]) < Len(k)
      BY <1>t, <1>1, <3>2, <3>3
    <3> QED
      BY <1>2, <3>2, <3>4, <3>5
  <2>2. ASSUME pc[d] = "set" PROVE FastForward(head[d], k)
    BY <1>t, <2>1, <2>2, FastForwardAdds
  <2> QED
    BY <1>0, <1>1, <2>2 DEF SetInv, FastForward
<1>5. ObservedInv(d)'
  <2>1. Past(observedRawRecord[d])'
    BY <1>0, <1>1 DEF ObservedInv
  <2>2. observedRawRecord[d] # Last(k)
    <3>1. SUFFICES ASSUME NEW r, r = observedRawRecord[d], r = Last(k) PROVE FALSE
      OBVIOUS
    <3>2. /\ Justified(r) /\ Past(r) /\ r \in Record /\ r.holder \in Client /\ r # ZeroRecord
          /\ r.dur = LeaseDuration
      BY <1>0, <1>1, <3>1, LockAssumption DEF ObservedInv, Justified, Made, ZeroRecord
    <3>3. Follows(r)
      BY <3>2 DEF Past
    <3>4. Stored # ZeroRecord
      BY <3>2, <3>3, LockAssumption DEF Follows, ZeroRecord, Record
    <3>5. /\ r.holder = Stored.holder /\ r.trans = Stored.trans /\ r.renew = Stored.renew
          /\ r # Stored
      BY <1>t, <3>2, <3>3, <3>4 DEF Justified, Follows, Record
    <3>6. Stored.dur = LeaseDuration
      BY <1>0, <3>4 DEF Past, Made
    <3> QED
      BY <1>t, <3>2, <3>5, <3>6 DEF Record
  <2>3. observedRawRecord[d].trans < Stored.trans => observedRawRecord[d].trans < Last(k).trans
    BY <1>t, <1>1 DEF Record
  <2> QED
    BY <1>0, <1>1, <2>1, <2>2, <2>3 DEF ObservedInv, IsLeader
\* A lease that runs is only taken by its owner.
<1>6. ASSUME leading[d] \/ (pc[d] = "set" /\ call[d].st = "ok") PROVE Last(k).holder = d
  <2>1. Stored.holder = d /\ now < taken + LeaseDuration
    BY <1>6, HolderSecure
  <2> QED
    BY <1>t, <1>1, <2>1, LockAssumption, Durations DEF Justified, ZeroRecord
<1>7. AckInv(d)'
  BY <1>0, <1>1, <1>6, <1>t DEF AckInv, CallInv
<1>8. LeadInv(d)'
  <2>1. ASSUME leading[d]
        PROVE  /\ Last(k).holder = d
               /\ pc[d] = "wait" => wake[d] <= now + 2 * RequestTimeout + RetryPeriod
               /\ InRound(d) =>
                    deadline[d] <= now + 2 * RequestTimeout + RetryPeriod + RenewDeadline
    <3>1. /\ pc[d] = "wait" => wake[d] <= taken + 2 * RequestTimeout + RetryPeriod
          /\ InRound(d) =>
               deadline[d] <= taken + 2 * RequestTimeout + RetryPeriod + RenewDeadline
      BY <1>0, <2>1 DEF LeadInv
    <3>2. taken <= now
      BY <1>0
    <3>3. Last(k).holder = d
      BY <1>6, <2>1
    <3>4. /\ now \in Nat /\ taken \in Nat /\ wake[d] \in Nat /\ deadline[d] \in Nat
          /\ RequestTimeout \in Nat /\ RetryPeriod \in Nat /\ RenewDeadline \in Nat
      BY <1>t, Durations
    <3>5. pc[d] = "wait" => wake[d] <= now + 2 * RequestTimeout + RetryPeriod
      BY <3>1, <3>2, <3>4
    <3>6. InRound(d) =>
            deadline[d] <= now + 2 * RequestTimeout + RetryPeriod + RenewDeadline
      BY <3>1, <3>2, <3>4
    <3> QED
      BY <3>3, <3>5, <3>6
  <2>2. /\ deadline' = deadline /\ wake' = wake /\ leading' = leading
        /\ taken' = now /\ Stored' = Last(k) /\ InRound(d)' = InRound(d) /\ pc' = pc
    BY <1>0, <1>1 DEF InRound
  <2> QED
    BY <2>1, <2>2 DEF LeadInv
<1> QED
  BY <1>3, <1>4, <1>5, <1>7, <1>8 DEF ClientInv

\* The server answers a pull: c learns what the file holds.
LEMMA PullKeeps ==
    ASSUME SafeConfig, GitInv, LocalInv', NEW c \in Client, Pull(c),
           UNCHANGED <<now, cancelled, deadline, electorVars>>
    PROVE  GitInv'
<1>0. /\ LocalInv /\ RemoteInv /\ PoolInv /\ \A d \in Client : ClientInv(d)
      /\ call \in [Client -> Call] /\ remote \in Commit /\ remote # <<>> /\ now \in Nat
      /\ UNCHANGED <<remote, taken, head, branch, detached, late>>
      /\ UNCHANGED <<pc, inRenew, wake, observedRecord, observedRawRecord, observedTime, leading>>
  BY LeaseTypes DEF GitInv, LocalInv, TypeOK, InterfaceTypeOK, Pull, gitVars, electorVars, observedVars
<1>1. /\ call'[c].op = "get" /\ call'[c].at = call[c].at /\ call[c].op = "get"
      /\ call'[c].rec = Stored /\ call'[c].ver = Len(remote)
      /\ call'[c].st = "notexist" <=> Stored = ZeroRecord
      /\ \A d \in Client : d # c => call'[d] = call[d]
  BY <1>0 DEF Pull, Answer, Stored
<1>2. pc[c] = "get"
  BY <1>0, <1>1, WriteIsSet
<1>3. Quiet
  <2>1. \A d \in Client : LastTry(d)' = LastTry(d)
    BY <1>0, <1>1, <1>2 DEF LastTry
  <2> QED
    BY <1>0, <2>1, LeaseTypes DEF Quiet
<1>4. ASSUME NEW d \in Client, d # c PROVE ClientInv(d)'
  <2>1. SameElector(d)
    BY DEF SameElector, electorVars, observedVars
  <2> QED
    BY <1>0, <1>1, <1>3, <1>4, <2>1, ClientFrame
<1>5. ClientInv(c)'
  <2>1. ObservedInv(c)'
    BY <1>0, <1>3, ObservedFrame DEF ClientInv
  <2>2. Stored = remote[Len(remote)]
    BY <1>0, ContentType DEF Stored
  <2>3. CallInv(c)'
    BY <1>0, <1>1, <1>2, <2>2 DEF ClientInv, CallInv
  <2>4. SetInv(c)' /\ AckInv(c)'
    BY <1>0, <1>2 DEF SetInv, AckInv
  <2>5. LeadInv(c)'
    BY <1>0 DEF ClientInv, LeadInv, InRound, Stored, Content
  <2> QED
    BY <2>1, <2>3, <2>4, <2>5 DEF ClientInv
<1>6. RemoteInv'
  BY <1>0, <1>3, RemoteFrame
<1>7. PoolInv'
  <2>1. UNCHANGED gitVars
    BY DEF Pull
  <2> QED
    BY <1>3, <2>1, PoolStep
<1> QED
  BY <1>4, <1>5, <1>6, <1>7 DEF GitInv

\* set finds nothing to commit: the file is what c fetched, and still c's.
LEMMA SetNothingKeeps ==
    ASSUME SafeConfig, GitInv, LocalInv', NEW c \in Client, SetNothing(c),
           UNCHANGED <<now, cancelled, deadline, electorVars>>
    PROVE  GitInv'
<1>0. /\ LocalInv /\ RemoteInv /\ PoolInv /\ \A d \in Client : ClientInv(d)
      /\ call \in [Client -> Call] /\ remote \in Commit /\ now \in Nat
      /\ UNCHANGED <<remote, taken, head, branch, detached, late>>
      /\ UNCHANGED <<pc, inRenew, wake, observedRecord, observedRawRecord, observedTime, leading>>
  BY LeaseTypes
     DEF GitInv, LocalInv, TypeOK, InterfaceTypeOK, SetNothing, gitVars, electorVars, observedVars
<1>1. /\ call'[c].op = call[c].op /\ call'[c].at = call[c].at /\ call'[c].rec = call[c].rec
      /\ \A d \in Client : d # c => call'[d] = call[d]
      /\ IsWrite(c) /\ Clean(c)
  BY <1>0 DEF SetNothing, Answer
<1>2. pc[c] = "set"
  BY <1>0, <1>1, WriteIsSet
<1>3. Quiet
  <2>1. \A d \in Client : LastTry(d)' = LastTry(d)
    BY <1>0, <1>1, <1>2 DEF LastTry
  <2> QED
    BY <1>0, <2>1, LeaseTypes DEF Quiet
<1>4. ASSUME NEW d \in Client, d # c PROVE ClientInv(d)'
  <2>1. SameElector(d)
    BY DEF SameElector, electorVars, observedVars
  <2> QED
    BY <1>0, <1>1, <1>3, <1>4, <2>1, ClientFrame
<1>5. ClientInv(c)'
  <2>0. CallInv(c) /\ SetInv(c) /\ TimelyInv(c) /\ Stored' = Stored
    BY <1>0 DEF ClientInv, LocalInv, Stored, Content
  <2>t. /\ call[c].at \in Nat /\ call[c].rec \in Record /\ head[c] \in Commit
        /\ RequestTimeout \in Nat /\ LeaseDuration \in Nat /\ taken \in Nat
        /\ LeaseDuration > 2 * RequestTimeout
    BY <1>0, LeaseTypes, Durations DEF Call
  <2>1. ObservedInv(c)'
    BY <1>0, <1>3, ObservedFrame DEF ClientInv
  <2>2. CallInv(c)'
    BY <1>0, <1>1, <1>2, <2>0 DEF CallInv, Fetched, IsWrite
  <2>3. SetInv(c)'
    BY <1>0, <1>1, <1>2, <2>0 DEF SetInv, Clean
  <2>4. Past(call[c].rec) /\ call[c].rec.holder = c /\ call[c].rec # ZeroRecord
    <3>1. call[c].rec.holder = c /\ IsPrefix(head[c], remote) /\ Content(head[c]) = call[c].rec
      BY <1>1, <1>2, <2>0 DEF CallInv, SetInv, Clean
    <3>2. head[c] # <<>> /\ call[c].rec # ZeroRecord
      BY <3>1, LockAssumption DEF Content, ZeroRecord
    <3>3. call[c].rec = head[c][Len(head[c])] /\ Len(head[c]) \in 1..Len(head[c])
      BY <2>t, <3>1, <3>2, ContentType
    <3>4. Len(head[c]) <= Len(remote) /\ head[c][Len(head[c])] = remote[Len(head[c])]
      BY <1>0, <2>t, <3>1, <3>3, PrefixElements
    <3>5. Len(remote) \in Nat /\ Len(head[c]) \in Nat
      BY <1>0, <2>t, ContentType
    <3>6. Len(head[c]) \in 1..Len(remote)
      BY <3>3, <3>4, <3>5
    <3> QED
      BY <1>0, <3>1, <3>2, <3>3, <3>4, <3>6 DEF RemoteInv
  <2>5. now < call[c].rec.renew + LeaseDuration
    <3>1. now <= call[c].at + RequestTimeout
      BY <1>1, <2>0 DEF TimelyInv, IsWrite
    <3>2. call[c].at <= call[c].rec.renew + RequestTimeout
      BY <1>2, <2>0 DEF CallInv
    <3> QED
      BY <1>0, <2>t, <3>1, <3>2 DEF Record
  <2>6. Stored.holder = c /\ call[c].rec.renew <= taken
    BY <1>0, <2>t, <2>4, <2>5 DEF Past, Record
  <2>7. AckInv(c)'
    BY <1>0, <1>1, <2>0, <2>6 DEF AckInv
  <2>8. LeadInv(c)'
    BY <1>0, <2>0 DEF ClientInv, LeadInv, InRound
  <2> QED
    BY <2>1, <2>2, <2>3, <2>7, <2>8 DEF ClientInv
<1>6. RemoteInv'
  BY <1>0, <1>3, RemoteFrame
<1>7. PoolInv'
  <2>1. UNCHANGED gitVars
    BY DEF SetNothing
  <2> QED
    BY <1>3, <2>1, PoolStep
<1> QED
  BY <1>4, <1>5, <1>6, <1>7 DEF GitInv

\* The server takes a push, which renews the lease of its client or takes one
\* that has ended; so does one that is late.
LEMMA PushKeeps ==
    ASSUME SafeConfig, GitInv, LocalInv', UNCHANGED <<now, cancelled, deadline, electorVars>>,
           (\E c \in Client : Push(c)) \/ (\E k \in late : LatePush(k))
    PROVE  /\ GitInv'
           /\ \E k \in Commit : Justified(Last(k)) /\ Stored' = Last(k) /\ taken' = now
<1>0. /\ LocalInv /\ PoolInv /\ call \in [Client -> Call] /\ late \subseteq Commit
      /\ UNCHANGED pc
  BY DEF GitInv, LocalInv, TypeOK, InterfaceTypeOK, GitTypeOK, electorVars
<1>1. PICK k \in Commit :
        /\ FastForward(remote, k) /\ Sound(k) /\ Take(k) /\ UNCHANGED <<head, branch, detached>>
        /\ \A d \in Client :
             \/ call'[d] = call[d]
             \/ /\ pc[d] = "set" /\ Last(k).holder = d
                /\ call'[d].op = call[d].op /\ call'[d].rec = call[d].rec
                /\ call'[d].at = call[d].at
  <2>1. ASSUME NEW c \in Client, Push(c) PROVE pc[c] = "set" /\ Pushed(c) \in Commit /\ ~Clean(c)
    BY <1>0, <2>1, WriteIsSet, PushedType DEF Push, PendingPush, LocalInv
  <2>2. ASSUME NEW c \in Client, Push(c)
        PROVE  /\ FastForward(remote, Pushed(c)) /\ Sound(Pushed(c)) /\ Take(Pushed(c))
               /\ UNCHANGED <<head, branch, detached>> /\ Last(Pushed(c)).holder = c
               /\ \A d \in Client : d # c => call'[d] = call[d]
               /\ call'[c].op = call[c].op /\ call'[c].rec = call[c].rec
               /\ call'[c].at = call[c].at
    BY <1>0, <2>1, <2>2, PushedSound DEF Push, CanPush, Answer
  <2>3. ASSUME NEW k \in late, LatePush(k)
        PROVE  /\ FastForward(remote, k) /\ Sound(k) /\ Take(k)
               /\ UNCHANGED <<head, branch, detached, call>>
    BY <1>0, <2>3 DEF LatePush, PoolInv
  <2> QED
    BY <1>0, <2>1, <2>2, <2>3
<1>2. \A d \in Client : LastTry(d)' = LastTry(d)
  BY <1>0, <1>1 DEF LastTry
<1>3. /\ Justified(Last(k)) /\ Stored' = Last(k) /\ taken' = now /\ RemoteInv'
  BY <1>1, <1>2, TakeKeeps
<1>4. PoolInv'
  BY <1>1, TakePool
<1>5. \A d \in Client : ClientInv(d)'
  BY <1>1, <1>2, TakeClient
<1> QED
  BY <1>3, <1>4, <1>5 DEF GitInv

\* A step of an elector, or the death of a client.
LEMMA ElectorKeeps ==
    ASSUME SafeConfig, GitInv, LocalInv', NEW c \in Client, ElectorStep(c) \/ Die(c),
           UNCHANGED now
    PROVE  GitInv' /\ UNCHANGED <<remote, taken>>
<1>0. /\ LocalInv /\ RemoteInv /\ InterfaceTypeOK /\ ElectorTypeOK /\ head \in [Client -> Commit]
      /\ \A d \in Client : ClientInv(d)
  BY DEF GitInv, LocalInv, TypeOK, GitTypeOK
<1>1. Proceed(c) \/ Resume(c) \/ Fail(c) \/ Crash(c)
  BY DEF ElectorStep, Die, Proceed
<1>2. UNCHANGED <<remote, taken>>
  <2>1. CASE New(c) \/ (Resume(c) /\ Returns(c)) \/ Fails(c) \/ ClientGone(c)
    BY <1>0, <2>1, GitSideType
  <2>2. CASE UNCHANGED gitVars
    BY <2>2 DEF gitVars
  <2> QED
    BY <2>1, <2>2 DEF ElectorStep, Die
<1>3. Quiet
  BY <1>1, <1>2, ElectorQuiet
<1>4. RemoteInv'
  BY <1>0, <1>3, RemoteFrame
<1>5. PoolInv'
  BY <1>3, PoolStep DEF ElectorStep, Die
<1>6. ASSUME NEW d \in Client, d # c PROVE ClientInv(d)'
  <2>1. SameElector(d) /\ call'[d] = call[d]
    BY <1>0, <1>1, <1>6, OtherElectors
  <2>2. head'[d] = head[d]
    BY <1>0, <1>6 DEF ElectorStep, Die, New, Returns, Fails, Refused, ContextEnds, Lost,
       CloneAfterFailure, PushFails, ClientGone, gitVars
  <2> QED
    BY <1>0, <1>3, <2>1, <2>2, ClientFrame
<1>7. ClientInv(c)'
  <2>1. CASE Run(c) /\ New(c)
    BY <1>3, <2>1, OwnProceed DEF Proceed, Run
  <2>2. CASE Proceed(c) /\ UNCHANGED gitVars
    BY <1>3, <2>2, OwnProceed DEF gitVars
  <2>3. CASE Resume(c) /\ Returns(c)
    BY <1>3, <2>3, OwnResume
  <2>4. CASE Fail(c) /\ Fails(c)
    BY <1>3, <2>4, OwnFail
  <2>5. CASE Die(c)
    BY <1>3, <2>5, OwnDie DEF Die
  <2> QED
    BY <2>1, <2>2, <2>3, <2>4, <2>5 DEF ElectorStep
<1> QED
  BY <1>2, <1>4, <1>5, <1>6, <1>7 DEF GitInv

\* Time passes, or nothing happens.
LEMMA TickKeeps ==
    ASSUME SafeConfig, GitInv, LocalInv', Tick \/ UNCHANGED vars PROVE GitInv'
<1>0. /\ LocalInv /\ RemoteInv /\ \A d \in Client : ClientInv(d)
      /\ now \in Nat /\ now' \in {now, now + 1}
      /\ UNCHANGED <<call, cancelled, deadline>> /\ UNCHANGED electorVars /\ UNCHANGED gitVars
  BY LeaseTypes DEF GitInv, Tick, vars, interfaceVars
<1>1. Quiet
  <2>1. \A d \in Client : LastTry(d) \in Nat
    BY <1>0, LeaseTypes
  <2>2. pc' = pc /\ call' = call /\ remote' = remote /\ taken' = taken
    BY <1>0 DEF electorVars, gitVars
  <2>3. \A d \in Client : LastTry(d)' \in {LastTry(d), LastTry(d) + 1}
    BY <1>0, <2>2 DEF LastTry
  <2> QED
    BY <1>0, <2>1, <2>2, <2>3 DEF Quiet
<1>2. RemoteInv'
  BY <1>0, <1>1, RemoteFrame
<1>3. PoolInv'
  <2>1. CASE Client = {}
    <3>1. ASSUME NEW k \in late' PROVE Sound(k)'
      BY <1>0, <1>1, QuietSound DEF GitInv, PoolInv, gitVars
    <3> QED
      BY <2>1, <3>1 DEF PoolInv
  <2>2. CASE Client # {}
    BY <1>0, <1>1, <2>2, PoolStep
  <2> QED
    BY <2>1, <2>2
<1>4. ASSUME NEW d \in Client PROVE ClientInv(d)'
  <2>1. SameElector(d) /\ call'[d] = call[d] /\ head'[d] = head[d]
    BY <1>0 DEF SameElector, electorVars, observedVars, gitVars
  <2> QED
    BY <1>0, <1>1, <2>1, ClientFrame
<1> QED
  BY <1>2, <1>3, <1>4 DEF GitInv

\* Initially the file holds nothing and no one leads.
LEMMA GitInvInit ==
    ASSUME Init PROVE GitInv
<1>1. LocalInv
  BY LocalInit
<1>2. /\ remote \in Seq({ZeroRecord}) /\ taken = 0 /\ now = 0 /\ late = {}
      /\ \A c \in Client : /\ ~detached[c] /\ pc[c] = "off" /\ call[c] = Idle /\ ~leading[c]
                           /\ observedRecord[c] = ZeroRecord
                           /\ observedRawRecord[c] = ZeroRecord /\ observedTime[c] = 0
  BY GitAssumption DEF Init, InterfaceInit, ElectorInit, GitInit
<1>3. RemoteInv
  <2>1. \A i \in 1..Len(remote) : remote[i] = ZeroRecord
    BY <1>2, ElementOfSeq
  <2> QED
    BY <1>2, <2>1 DEF RemoteInv, Past
<1>4. PoolInv
  BY <1>2 DEF PoolInv
<1>5. ASSUME NEW c \in Client PROVE ClientInv(c)
  BY <1>2, LockAssumption DEF ClientInv, CallInv, SetInv, ObservedInv, AckInv, LeadInv, Past,
     IsLeader, Fetched, Idle, ZeroRecord
<1> QED
  BY <1>1, <1>3, <1>4, <1>5 DEF GitInv

\* Every step preserves the invariant.
LEMMA GitInvStep ==
    ASSUME SafeConfig, GitInv, [Next]_vars PROVE GitInv'
<1>0. LocalInv'
  BY LocalStep DEF GitInv
<1>1. CASE Tick \/ UNCHANGED vars
  BY <1>0, <1>1, TickKeeps
<1>2. ASSUME NEW c \in Client, ElectorStep(c) \/ Die(c), UNCHANGED now PROVE GitInv'
  BY <1>0, <1>2, ElectorKeeps
<1>3. ASSUME UNCHANGED <<now, cancelled, deadline, electorVars>>,
             (\E c \in Client : ServerStep(c)) \/ (\E k \in late : LatePush(k))
      PROVE  GitInv'
  <2>1. CASE \E c \in Client : Pull(c)
    BY <1>0, <1>3, <2>1, PullKeeps
  <2>2. CASE \E c \in Client : SetNothing(c)
    BY <1>0, <1>3, <2>2, SetNothingKeeps
  <2>3. CASE (\E c \in Client : Push(c)) \/ (\E k \in late : LatePush(k))
    BY <1>0, <1>3, <2>3, PushKeeps
  <2> QED
    BY <1>3, <2>1, <2>2, <2>3 DEF ServerStep
<1> QED
  BY <1>1, <1>2, <1>3 DEF Next

\* When no one releases and the lease outlasts the time a leader may act, a
\* push the server can take is justified by the record it replaces, and a
\* leader gives up before its lease ends.
THEOREM GitInvariant == SafeConfig => (Spec => []GitInv)
<1> SUFFICES ASSUME SafeConfig PROVE Spec => []GitInv
  OBVIOUS
<1>1. Init => GitInv
  BY GitInvInit
<1>2. GitInv /\ [Next]_vars => GitInv'
  BY GitInvStep
<1> QED
  BY <1>1, <1>2, PTL DEF Spec

\* At most one OnStartedLeading context is live, whatever pushes are lost,
\* refused or late.
THEOREM OneLeader == SafeConfig => (Spec => []MutualExclusion)
<1> SUFFICES ASSUME SafeConfig PROVE Spec => []MutualExclusion
  OBVIOUS
<1>1. Spec => []GitInv
  BY GitInvariant
<1>2. GitInv => MutualExclusion
  BY DEF GitInv, ClientInv, LeadInv, MutualExclusion
<1> QED
  BY <1>1, <1>2, PTL

-----------------------------------------------------------------------------
(***************************************************************************)
(* GitElection implements LeaderLease: a tick is a Wait, a push the server *)
(* takes is a Grant to the holder of the record it stores, and the step of *)
(* an elector in which its OnStartedLeading context begins or ends is a    *)
(* Lead or a Quit.                                                         *)
(***************************************************************************)
\* A leader owns the stored lease, which has not ended.
LeadersSecure ==
    /\ taken + Stored.dur \in Nat
    /\ \A c \in Client : leading[c] => Stored.holder = c /\ now < taken + Stored.dur

\* It does as long as the invariant holds.
LEMMA LeadersAreSecure == SafeConfig /\ GitInv => LeadersSecure
<1> SUFFICES ASSUME SafeConfig, GitInv PROVE LeadersSecure
  OBVIOUS
<1>1. Stored \in Record /\ taken \in Nat /\ now \in Nat /\ Past(Stored)
  BY LeaseTypes, StoredPast DEF GitInv
<1>2. taken + Stored.dur \in Nat
  BY <1>1 DEF Record
<1>3. ASSUME NEW c \in Client, leading[c]
      PROVE  Stored.holder = c /\ now < taken + Stored.dur
  <2>1. Stored.holder = c /\ now < taken + LeaseDuration
    BY <1>3, HolderSecure
  <2>2. Stored # ZeroRecord
    BY <2>1, LockAssumption DEF ZeroRecord
  <2>3. Stored.dur = LeaseDuration
    BY <1>1, <2>2 DEF Past, Made
  <2> QED
    BY <2>1, <2>3
<1> QED
  BY <1>2, <1>3 DEF LeadersSecure

\* The invariant the refinement is relative to.
LeaseView == GitInv /\ LeadersSecure

\* The context of OnStartedLeading of c begins or ends, or nothing of the lease
\* changes.
LEMMA LeadOrQuit ==
    ASSUME LeaseView, LeaseView', NEW c \in Client, UNCHANGED <<now, remote, taken>>,
           \A d \in Client : d # c => leading'[d] = leading[d]
    PROVE  [Lease!Next]_(Lease!vars)
<1> DEFINE L == {d \in Client : leading[d]}
           M == {d \in Client : leading'[d]}
<1>0. /\ LeadersSecure /\ LeadersSecure' /\ Stored' = Stored /\ taken' = taken /\ now' = now
      /\ leading[c] \in BOOLEAN /\ leading'[c] \in BOOLEAN
  BY DEF LeaseView, GitInv, LocalInv, TypeOK, ElectorTypeOK, Stored, Content
<1>1. CASE leading'[c] = leading[c]
  <2>1. M = L
    BY <1>1
  <2> QED
    BY <1>0, <2>1 DEF Lease!vars
<1>2. CASE leading[c] /\ ~leading'[c]
  <2>1. L = {c}
    BY <1>0, <1>2 DEF LeadersSecure
  <2>2. M = {}
    BY <1>2, <2>1
  <2>3. Lease!Quit(c)
    BY <1>0, <2>1, <2>2 DEF Lease!Quit
  <2> QED
    BY <2>3 DEF Lease!Next
<1>3. CASE ~leading[c] /\ leading'[c]
  <2>1. Stored.holder = c /\ now < taken + Stored.dur
    BY <1>0, <1>3 DEF LeadersSecure
  <2>2. L = {}
    BY <1>0, <1>3, <2>1 DEF LeadersSecure
  <2>3. M = {c}
    BY <1>3, <2>2
  <2>4. Lease!Lead(c)
    BY <1>0, <2>1, <2>2, <2>3 DEF Lease!Lead
  <2> QED
    BY <2>4 DEF Lease!Next
<1> QED
  BY <1>0, <1>1, <1>2, <1>3

\* A push the server takes is a Grant.
LEMMA PushGrants ==
    ASSUME LeaseView, LeaseView', NEW r, Justified(r), Stored' = r, taken' = now,
           UNCHANGED <<now, leading>>
    PROVE  r.holder \in Client /\ Lease!Grant(r.holder)
<1> DEFINE L == {d \in Client : leading[d]}
<1>0. /\ LeadersSecure /\ LeadersSecure' /\ r.holder \in Client /\ now' = now /\ leading' = leading
      /\ Past(Stored)
  BY StoredPast DEF LeaseView, Justified, Made
<1>1. Stored.holder \in {NoOne, r.holder} \/ now >= taken + Stored.dur
  BY <1>0 DEF Justified, ZeroRecord, Past, Made
<1>2. now \in Nat /\ taken + Stored.dur \in Nat
  BY <1>0, LeaseTypes DEF LeadersSecure, LeaseView, GitInv
<1>3. \A d \in Client : leading[d] => d = r.holder /\ now < taken' + r.dur
  BY <1>0, <1>1, <1>2, LockAssumption DEF LeadersSecure
<1>4. L # {} => L = {r.holder} /\ now < taken' + r.dur
  BY <1>3
<1>5. taken' + r.dur \in Nat
  BY <1>0 DEF LeadersSecure
<1> QED
  BY <1>0, <1>1, <1>4, <1>5 DEF Lease!Grant

\* Every step is one of LeaderLease or a stutter.
LEMMA LeaseRefined ==
    ASSUME SafeConfig, LeaseView, LeaseView', [Next]_vars
    PROVE  [Lease!Next]_(Lease!vars)
<1>0. /\ GitInv /\ LocalInv' /\ InterfaceTypeOK /\ ElectorTypeOK /\ LeadersSecure'
  BY DEF LeaseView, GitInv, LocalInv, TypeOK
<1>1. CASE Tick
  <2>1. /\ now' = now + 1 /\ taken' = taken /\ leading' = leading /\ Stored' = Stored
    BY <1>1 DEF Tick, gitVars, electorVars, Stored, Content
  <2>2. {d \in Client : leading[d]} # {} => now' < taken + Stored.dur
    BY <1>0, <2>1 DEF LeadersSecure
  <2>3. Lease!Wait
    BY <2>1, <2>2 DEF Lease!Wait
  <2> QED
    BY <2>3 DEF Lease!Next
<1>2. CASE UNCHANGED vars
  BY <1>2 DEF vars, interfaceVars, electorVars, gitVars, Lease!vars, Stored, Content
<1>3. ASSUME NEW c \in Client, ElectorStep(c) \/ Die(c), UNCHANGED now
      PROVE  [Lease!Next]_(Lease!vars)
  <2>1. UNCHANGED <<remote, taken>>
    BY <1>0, <1>3, ElectorKeeps
  <2>2. Proceed(c) \/ Resume(c) \/ Fail(c) \/ Crash(c)
    BY <1>3 DEF ElectorStep, Die, Proceed
  <2>3. \A d \in Client : d # c => leading'[d] = leading[d]
    BY <1>0, <2>2, OtherElectors DEF SameElector
  <2> QED
    BY <1>3, <2>1, <2>3, LeadOrQuit
<1>4. ASSUME UNCHANGED <<now, cancelled, deadline, electorVars>>,
             (\E c \in Client : ServerStep(c)) \/ (\E k \in late : LatePush(k))
      PROVE  [Lease!Next]_(Lease!vars)
  <2>0. now' = now /\ leading' = leading
    BY <1>4 DEF electorVars
  <2>1. CASE \E c \in Client : Pull(c) \/ SetNothing(c)
    <3>1. UNCHANGED <<remote, taken>>
      BY <2>1 DEF Pull, SetNothing, gitVars
    <3> QED
      BY <2>0, <3>1 DEF Lease!vars, Stored, Content
  <2>2. CASE (\E c \in Client : Push(c)) \/ (\E k \in late : LatePush(k))
    <3>1. PICK k \in Commit : Justified(Last(k)) /\ Stored' = Last(k) /\ taken' = now
      BY <1>0, <1>4, <2>2, PushKeeps
    <3>2. Last(k).holder \in Client /\ Lease!Grant(Last(k).holder)
      BY <2>0, <3>1, PushGrants
    <3> QED
      BY <3>2 DEF Lease!Next
  <2> QED
    BY <1>4, <2>1, <2>2 DEF ServerStep
<1> QED
  BY <1>1, <1>2, <1>3, <1>4 DEF Next

\* The election over a git repository is a LeaderLease, for any number of
\* clients, failed or late pushes and restarts, when no one releases: what the
\* server takes renews the lease of its owner or takes one that has ended,
\* although a clone with a detached HEAD pushes other records than set was
\* given, and no OnStartedLeading context is live when the lease ends.
THEOREM LeaseImplemented == SafeConfig => (Spec => ImplementsLease)
<1> SUFFICES ASSUME SafeConfig PROVE Spec => ImplementsLease
  OBVIOUS
<1>1. Spec => []LeaseView
  <2>1. GitInv => LeaseView
    BY LeadersAreSecure DEF LeaseView
  <2> QED
    BY <2>1, GitInvariant, PTL
<1>2. Init => Lease!Init
  <2> SUFFICES ASSUME Init PROVE Lease!Init
    OBVIOUS
  <2>1. GitInv /\ remote \in Seq({ZeroRecord})
    BY GitInvInit, GitAssumption DEF Init, GitInit
  <2>2. Stored = ZeroRecord
    <3>1. CASE remote = <<>>
      BY <3>1 DEF Stored, Content
    <3>2. CASE remote # <<>>
      <4>1. remote \in Commit
        BY <2>1, LeaseTypes DEF GitInv
      <4>2. Len(remote) \in 1..Len(remote) /\ Stored = remote[Len(remote)]
        BY <3>2, <4>1, ContentType DEF Stored
      <4> QED
        BY <2>1, <4>2, ElementOfSeq
    <3> QED
      BY <3>1, <3>2
  <2> QED
    BY <2>2 DEF Init, InterfaceInit, ElectorInit, GitInit, ZeroRecord, Lease!Init
<1>3. LeaseView /\ LeaseView' /\ [Next]_vars => [Lease!Next]_(Lease!vars)
  BY LeaseRefined
<1> QED
  BY <1>1, <1>2, <1>3, PTL DEF Spec, ImplementsLease, Lease!Spec

-----------------------------------------------------------------------------
(***************************************************************************)
(* The candidates, in any configuration.                                   *)
(***************************************************************************)
\* What a clone follows it follows when the server has taken more.
LEMMA StillFollows ==
    ASSUME NEW s \in Commit, NEW t \in Commit, NEW u \in Commit, IsPrefix(s, t),
           t = u \/ FastForward(t, u)
    PROVE  IsPrefix(s, u) /\ (t # <<>> => u # <<>>)
<1>1. Len(s) \in Nat /\ Len(t) \in Nat /\ Len(u) \in Nat
  BY LenProperties DEF Commit
<1>2. Len(s) <= Len(t) /\ \A i \in 1..Len(s) : s[i] = t[i]
  BY PrefixElements
<1>3. Len(t) <= Len(u) /\ \A i \in 1..Len(t) : t[i] = u[i]
  BY <1>1, FastForwardAdds
<1>4. IsPrefix(s, u)
  BY <1>1, <1>2, <1>3, PrefixElements
<1>5. t # <<>> => Len(t) # 0
  BY EmptySeq DEF Commit
<1>6. u = <<>> => Len(u) = 0
  OBVIOUS
<1> QED
  BY <1>1, <1>3, <1>4, <1>5, <1>6

\* What a step of another elector leaves of a client.
SameClone(d) ==
    /\ SameElector(d) /\ call'[d] = call[d] /\ head'[d] = head[d] /\ detached'[d] = detached[d]

LEMMA OtherClones ==
    ASSUME LocalInv, NEW c \in Client, ElectorStep(c) \/ Die(c), NEW d \in Client, d # c
    PROVE  SameClone(d) /\ remote' = remote /\ faults' \in {faults, faults + 1} /\ faults \in Nat
<1>0. InterfaceTypeOK /\ ElectorTypeOK /\ GitTypeOK
  BY DEF LocalInv, TypeOK
<1>1. Proceed(c) \/ Resume(c) \/ Fail(c) \/ Crash(c)
  BY DEF ElectorStep, Die, Proceed
<1>2. SameElector(d) /\ call'[d] = call[d]
  BY <1>0, <1>1, OtherElectors
<1>3. /\ head'[d] = head[d] /\ detached'[d] = detached[d] /\ remote' = remote
      /\ faults' \in {faults, faults + 1}
  BY <1>0 DEF ElectorStep, Die, New, Returns, Fails, Refused, ContextEnds, Lost,
              CloneAfterFailure, PushFails, ClientGone, gitVars, GitTypeOK
<1>4. faults \in Nat
  BY <1>0, GitAssumption DEF GitTypeOK
<1> QED
  BY <1>2, <1>3, <1>4 DEF SameClone

\* A clone after a step of its own elector.
LEMMA CloneElector ==
    ASSUME LocalInv, NEW c \in Client, CloneInv(c), ElectorStep(c) \/ Die(c)
    PROVE  CloneInv(c)'
<1>0. /\ InterfaceTypeOK /\ ElectorTypeOK /\ GitTypeOK /\ ElectorInv(c) /\ FetchInv(c)
      /\ remote \in Commit
  BY DEF LocalInv, TypeOK, GitTypeOK
<1>t. /\ pc \in [Client -> PCs] /\ inRenew \in [Client -> BOOLEAN] /\ call \in [Client -> Call]
      /\ observedRawRecord \in [Client -> Record] /\ head \in [Client -> Commit]
      /\ detached \in [Client -> BOOLEAN] /\ head[c] \in Commit
  BY <1>0 DEF InterfaceTypeOK, ElectorTypeOK, GitTypeOK
<1>1. CASE Run(c) /\ New(c)
  <2>1. head'[c] = remote /\ remote' = remote /\ pc'[c] = "wait"
        /\ observedRawRecord' = observedRawRecord
    BY <1>t, <1>1 DEF Run, New, observedVars
  <2>2. IsPrefix(remote, remote)
    BY <1>0, PrefixElements, LenProperties DEF Commit
  <2> QED
    BY <2>1, <2>2 DEF CloneInv
<1>2. CASE Proceed(c) /\ UNCHANGED gitVars
  <2>1. inRenew' = inRenew /\ observedRawRecord' = observedRawRecord
    BY <1>2 DEF Proceed, Run, StartTry, StartRound, PollTick, StopAcquiring, StopBetweenRounds,
                StopPolling, LeaveRenew, Cancel, observedVars
  <2>2. pc'[c] = "set" => pc[c] = "set"
    BY <1>t, <1>2 DEF Proceed, Run, StartTry, StartRound, PollTick, StopAcquiring, StopBetweenRounds,
                StopPolling, LeaveRenew, Cancel
  <2> QED
    BY <1>2, <2>1, <2>2 DEF CloneInv, gitVars
<1>3. CASE Resume(c) /\ Returns(c)
  <2>1. remote' = remote /\ detached' = detached
    BY <1>3 DEF Returns
  <2>2. CASE CreateRecord(c) \/ LeaseHeld(c) \/ TakeOrRenew(c)
    <3>1. call[c].op = "get" /\ ~IsWrite(c)
      BY <1>0, <2>2 DEF CreateRecord, LeaseHeld, TakeOrRenew, ElectorInv, CallMatches, IsWrite
    <3>2. call[c].ver \in 1..Len(remote)
      BY <1>0, <1>3, <3>1 DEF FetchInv, Fetched, Returns
    <3>3. head'[c] = SubSeq(remote, 1, call[c].ver)
      BY <1>t, <1>3, <3>1 DEF Returns
    <3>4. IsPrefix(head'[c], remote) /\ Len(head'[c]) = call[c].ver
      BY <1>0, <3>2, <3>3, FetchedType
    <3>5. head'[c] # <<>> /\ remote # <<>>
      BY <1>0, <3>2, <3>4, ContentType
    <3> QED
      BY <2>1, <3>4, <3>5 DEF CloneInv
  <2>3. CASE SetSucceeds(c) \/ ReleaseSucceeds(c)
    <3>1. inRenew'[c] /\ pc'[c] # "set" /\ observedRawRecord' = observedRawRecord
      BY <1>0, <1>t, <2>3
         DEF SetSucceeds, ReleaseSucceeds, ReleaseEnds, ElectorInv, TimersInv
    <3> QED
      BY <2>1, <3>1 DEF CloneInv
  <2> QED
    BY <1>3, <2>2, <2>3 DEF Resume
<1>4. CASE Fail(c) /\ Fails(c)
  <2>1. remote' = remote /\ head' = head /\ (detached[c] => detached'[c])
    BY <1>t, <1>4 DEF Fails, Refused, ContextEnds, Lost, CloneAfterFailure, PushFails
  <2>2. inRenew' = inRenew /\ pc'[c] # "set" /\ observedRawRecord' = observedRawRecord
    BY <1>t, <1>4 DEF Fail, CallFails, ReleaseFails, ReleaseEnds, TryFails, observedVars
  <2> QED
    BY <2>1, <2>2 DEF CloneInv
<1>5. CASE Die(c)
  <2>1. /\ remote' = remote /\ head'[c] = <<>> /\ pc'[c] = "off"
        /\ observedRawRecord'[c] = ZeroRecord
    BY <1>t, <1>5 DEF Die, Crash, ClientGone
  <2>2. <<>> \in Commit /\ Len(<<>>) = 0 /\ Len(remote) \in Nat
    BY <1>0, EmptySeq, LenProperties DEF Commit
  <2>3. IsPrefix(<<>>, remote)
    BY <1>0, <2>2, PrefixElements
  <2> QED
    BY <2>1, <2>3 DEF CloneInv
<1> QED
  BY <1>1, <1>2, <1>3, <1>4, <1>5 DEF ElectorStep

\* A candidate whose clone follows the server fails to pull only when the pull
\* is lost or its context is cancelled.
LEMMA CandidateLoses ==
    ASSUME LocalInv, NEW c \in Client, AcquireInv(c), CloneInv(c), Fail(c), Fails(c),
           Candidate(c)', ~detached'[c], ~cancelled[c]
    PROVE  faults' = faults + 1
<1>0. InterfaceTypeOK /\ ElectorTypeOK /\ GitTypeOK /\ ElectorInv(c)
  BY DEF LocalInv, TypeOK
<1>1. Candidate(c) /\ Pauses(c) /\ SameReading(c) /\ ~inRenew[c]
  BY <1>0, CandidateFails
<1>2. pc[c] = "get" /\ ~detached[c]
  <2>1. CloneAfterFailure(c)
    BY DEF Fails, Refused, ContextEnds, Lost
  <2>2. pc[c] = "set" => IsWrite(c) /\ head[c] # <<>>
    BY <1>0 DEF CloneInv, ElectorInv, CallMatches, IsWrite
  <2> QED
    BY <1>0, <1>1, <2>1, <2>2 DEF CloneAfterFailure, PushFails, GitTypeOK, Pauses
<1>3. call[c].op = "get" /\ ~IsWrite(c)
  BY <1>0, <1>2 DEF ElectorInv, CallMatches, IsWrite
<1>4. remote # <<>> /\ ~Diverged(c)
  BY <1>1, <1>2 DEF CloneInv, Candidate, Diverged
<1>5. ~Refused(c)
  BY <1>3, <1>4 DEF Refused, PendingPush
<1>6. ~ContextEnds(c)
  <2>1. now \in Nat /\ now < Never /\ Never \in Nat
    BY <1>0, LockAssumption DEF InterfaceTypeOK, Never
  <2> QED
    BY <1>1, <2>1 DEF ContextEnds, CallCtxDone, CtxDone, AcquireInv
<1> QED
  BY <1>5, <1>6 DEF Fails, Lost

\* A candidate after a step of its own.
LEMMA RetryElector ==
    ASSUME LocalInv, LocalInv', NEW c \in Client, AcquireInv(c), WriteInv(c), CloneInv(c),
           RetryInv(c), ElectorStep(c) \/ Die(c), UNCHANGED now
    PROVE  RetryInv(c)'
<1>0. /\ InterfaceTypeOK /\ ElectorTypeOK /\ GitTypeOK /\ ElectorInv(c) /\ TimelyInv(c)
      /\ InterfaceTypeOK' /\ ElectorTypeOK'
  BY DEF LocalInv, TypeOK
<1>f. faults \in Nat /\ MaxFaults \in Nat /\ faults <= MaxFaults
  BY <1>0, GitAssumption DEF GitTypeOK
<1> SUFFICES ASSUME Candidate(c)', ~detached'[c]
             PROVE  IF cancelled'[c] THEN now <= Due(c, 2 + MaxFaults)'
                    ELSE StartsBy(c, 1 + faults)'
  BY DEF RetryInv
<1>s. Proceed(c) \/ Resume(c) \/ Fail(c) \/ Crash(c)
  BY DEF ElectorStep, Die, Proceed
<1>1. ~Die(c) /\ ~(Run(c) /\ New(c))
  BY <1>0 DEF Die, Crash, Run, Candidate, AcquireInv, observedVars, ElectorTypeOK
<1>2. detached[c] => detached'[c]
  BY <1>0, <1>1 DEF ElectorStep, gitVars, Returns, Fails, Refused, ContextEnds, Lost,
                    CloneAfterFailure, PushFails, GitTypeOK
<1>3. ASSUME Candidate(c) PROVE now <= Due(c, 2 + MaxFaults)
  <2>1. IF cancelled[c] THEN now <= Due(c, 2 + MaxFaults) ELSE StartsBy(c, 1 + faults)
    BY <1>2, <1>3 DEF RetryInv
  <2>2. CASE ~cancelled[c]
    <3>1. now <= Due(c, 1 + faults + 1)
      BY <1>0, <1>3, <1>f, <2>1, <2>2, CandidateInTime
    <3>2. Due(c, 1 + faults + 1) <= Due(c, 2 + MaxFaults)
      BY <1>0, <1>f, DueGrows
    <3>3. Due(c, 1 + faults + 1) \in Nat /\ Due(c, 2 + MaxFaults) \in Nat /\ now \in Nat
      BY <1>0, <1>f, DueGrows, LockAssumption DEF InterfaceTypeOK
    <3> QED
      BY <3>1, <3>2, <3>3
  <2> QED
    BY <2>1, <2>2
<1>4. CASE cancelled'[c]
  <2>1. ASSUME NEW n \in Nat, n = 2 + MaxFaults PROVE now <= Due(c, n)'
    BY <1>0, <1>3, <1>s, <2>1, CandidateNotLater
  <2> QED
    BY <1>f, <1>4, <2>1
<1>5. CASE ~cancelled'[c]
  <2>1. ~cancelled[c]
    BY <1>0, <1>s, <1>5, CandidateSteps, CandidateFails
  <2>2. Candidate(c) => StartsBy(c, 1 + faults)
    BY <1>2, <2>1 DEF RetryInv
  <2>3. CASE (Proceed(c) /\ UNCHANGED gitVars) \/ (Resume(c) /\ Returns(c))
    <3>1. faults' = faults
      BY <2>3 DEF gitVars, Returns
    <3>2. \/ StartsBy(c, 1)'
          \/ Candidate(c) /\ SameReading(c) /\ TryStart(c)' = TryStart(c)
      BY <1>0, <2>3, CandidateGoesOn
    <3>3. ASSUME NEW n \in Nat, n = 1 + faults PROVE StartsBy(c, n)'
      <4>1. CASE StartsBy(c, 1)'
        BY <1>0, <1>f, <3>3, <4>1, StartsLater
      <4>2. CASE Candidate(c) /\ SameReading(c) /\ TryStart(c)' = TryStart(c)
        BY <2>2, <3>3, <4>2 DEF StartsBy, Due, SameReading
      <4> QED
        BY <3>2, <4>1, <4>2
    <3> QED
      BY <1>f, <1>5, <3>1, <3>3 DEF StartsBy, Due
  <2>4. CASE Fail(c) /\ Fails(c)
    <3>1. faults' = faults + 1
      BY <2>1, <2>4, CandidateLoses
    <3>2. Candidate(c)
      BY <1>0, <2>4, CandidateFails
    <3>3. ASSUME NEW n \in Nat, n = 1 + faults PROVE StartsBy(c, n + 1)'
      BY <1>0, <2>2, <2>4, <3>2, <3>3, CandidateRetries
    <3>4. 1 + faults' = (1 + faults) + 1 /\ 1 + faults \in Nat
      BY <1>f, <3>1
    <3> QED
      BY <1>5, <3>3, <3>4 DEF StartsBy, Due
  <2> QED
    BY <1>1, <2>3, <2>4 DEF ElectorStep
<1> QED
  BY <1>4, <1>5

\* The server leaves a candidate at its try.
LEMMA RetryServer ==
    ASSUME LocalInv, UNCHANGED <<now, cancelled, deadline, electorVars>>, NEW d \in Client,
           AcquireInv(d), WriteInv(d), CloneInv(d), RetryInv(d),
           (\E c \in Client : ServerStep(c)) \/ (\E k \in late : LatePush(k))
    PROVE  AcquireInv(d)' /\ WriteInv(d)' /\ CloneInv(d)' /\ RetryInv(d)'
<1>0. /\ InterfaceTypeOK /\ ElectorTypeOK /\ GitTypeOK /\ ElectorInv(d)
      /\ now \in Nat /\ call[d].at \in Nat
  BY LockAssumption DEF LocalInv, TypeOK, InterfaceTypeOK, Call
<1>1. SameElector(d)
  BY DEF electorVars, observedVars, SameElector
<1>2. \/ UNCHANGED call
      \/ \E c \in Client : \E st, rec, ver :
           Answer(c, st, rec, ver) /\ (IsWrite(c) => rec = call[c].rec)
  <2>1. ASSUME NEW c \in Client, Pull(c) PROVE ~IsWrite(c)
    BY <2>1 DEF Pull, IsWrite
  <2> QED
    BY <2>1 DEF ServerStep, Pull, SetNothing, Push, LatePush
<1>3. /\ Candidate(d)' <=> Candidate(d)
      /\ AcquireInv(d)'
      /\ \A n : Due(d, n)' = Due(d, n)
      /\ \A n : Candidate(d) /\ StartsBy(d, n) => StartsBy(d, n)'
  BY <1>0, <1>1, <1>2, CandidateStays
<1>4. WriteInv(d)'
  <2>1. pc'[d] = pc[d] /\ now' = now /\ now <= now
    BY <1>0, <1>1 DEF SameElector
  <2> QED
    BY <1>0, <1>2, <2>1, WriteKept
<1>5. /\ UNCHANGED <<head, detached, faults>> /\ remote \in Commit /\ remote' \in Commit
      /\ remote' = remote \/ FastForward(remote, remote')
  <2>1. ASSUME NEW c \in Client, Push(c)
        PROVE  /\ remote' = Pushed(c) /\ Pushed(c) \in Commit /\ FastForward(remote, Pushed(c))
               /\ UNCHANGED <<head, detached, faults>>
    BY <2>1, PushedType DEF Push, CanPush, LocalInv, Take
  <2>2. ASSUME NEW k \in late, LatePush(k)
        PROVE  /\ remote' = k /\ k \in Commit /\ FastForward(remote, k)
               /\ UNCHANGED <<head, detached, faults>>
    BY <1>0, <2>2 DEF LatePush, Take, GitTypeOK
  <2>3. ASSUME NEW c \in Client, Pull(c) \/ SetNothing(c) PROVE UNCHANGED gitVars
    BY <2>3 DEF Pull, SetNothing
  <2> QED
    BY <1>0, <2>1, <2>2, <2>3 DEF ServerStep, gitVars, GitTypeOK
<1>6. CloneInv(d)'
  <2>1. head[d] \in Commit
    BY <1>0 DEF GitTypeOK
  <2>2. IsPrefix(head[d], remote) => IsPrefix(head[d], remote')
    BY <1>5, <2>1, StillFollows
  <2>3. remote # <<>> => remote' # <<>>
    <3>1. IsPrefix(remote, remote)
      BY <1>5, PrefixElements, LenProperties DEF Commit
    <3> QED
      BY <1>5, <3>1, StillFollows
  <2> QED
    BY <1>1, <1>5, <2>2, <2>3 DEF CloneInv, SameElector
<1>7. RetryInv(d)'
  BY <1>1, <1>3, <1>5 DEF RetryInv, SameElector
<1> QED
  BY <1>3, <1>4, <1>6, <1>7

\* The clock leaves it, and waits for one that is cancelled.
LEMMA RetryTick ==
    ASSUME LocalInv, LocalInv', Tick, NEW d \in Client,
           AcquireInv(d), WriteInv(d), CloneInv(d), RetryInv(d)
    PROVE  AcquireInv(d)' /\ WriteInv(d)' /\ CloneInv(d)' /\ RetryInv(d)'
<1>0. /\ InterfaceTypeOK /\ ElectorTypeOK /\ ElectorInv(d) /\ NoTimerDue(d) /\ CallMayWait(d)
      /\ now' = now + 1 /\ now \in Nat /\ call[d].at \in Nat /\ call' = call
      /\ UNCHANGED <<head, detached, remote, faults>>
  BY LockAssumption DEF LocalInv, TypeOK, Tick, InterfaceTypeOK, Call, gitVars
<1>1. SameElector(d)
  BY DEF Tick, electorVars, observedVars, SameElector
<1>2. /\ Candidate(d)' <=> Candidate(d)
      /\ AcquireInv(d)'
      /\ \A n : Candidate(d) /\ StartsBy(d, n) => StartsBy(d, n)'
  BY <1>0, <1>1, CandidateStays
<1>3. WriteInv(d)'
  <2>1. pc'[d] = pc[d] /\ now' \in Nat /\ now <= now'
    BY <1>0, <1>1 DEF SameElector
  <2> QED
    BY <1>0, <2>1, WriteKept
<1>4. CloneInv(d)'
  BY <1>0, <1>1 DEF CloneInv, SameElector
<1>5. RetryInv(d)'
  BY <1>0, <1>1, <1>2, CandidateFrozen DEF RetryInv, SameElector
<1> QED
  BY <1>2, <1>3, <1>4, <1>5

\* A step of another elector leaves it.
LEMMA RetryOthers ==
    ASSUME LocalInv, LocalInv', NEW c \in Client, ElectorStep(c) \/ Die(c), UNCHANGED now,
           NEW d \in Client, d # c, AcquireInv(d), WriteInv(d), CloneInv(d), RetryInv(d)
    PROVE  AcquireInv(d)' /\ WriteInv(d)' /\ CloneInv(d)' /\ RetryInv(d)'
<1>0. /\ InterfaceTypeOK /\ ElectorTypeOK /\ ElectorInv(d) /\ InterfaceTypeOK' /\ ElectorTypeOK'
  BY DEF LocalInv, TypeOK
<1>1. SameClone(d) /\ remote' = remote /\ faults' \in {faults, faults + 1} /\ faults \in Nat
  BY OtherClones
<1>2. /\ Candidate(d)' <=> Candidate(d)
      /\ AcquireInv(d)'
      /\ \A n : Due(d, n)' = Due(d, n)
      /\ \A n : Candidate(d) /\ StartsBy(d, n) => StartsBy(d, n)'
  BY <1>0, <1>1, CandidateStays DEF SameClone
<1>3. WriteInv(d)' /\ CloneInv(d)'
  BY <1>1 DEF WriteInv, CloneInv, SameClone, SameElector
<1>4. ASSUME NEW m \in Nat, Candidate(d), StartsBy(d, m)
      PROVE  StartsBy(d, m)' /\ \A n : n = m + 1 => StartsBy(d, n)'
  <2>1. StartsBy(d, m)'
    BY <1>2, <1>4, Zenon
  <2>2. ASSUME NEW n, n = m + 1 PROVE n \in Nat /\ m <= n
    BY <1>4, <2>2
  <2> QED
    BY <1>0, <1>4, <2>1, <2>2, StartsLater
<1>5. RetryInv(d)'
  <2> SUFFICES ASSUME Candidate(d)', ~detached'[d]
               PROVE  IF cancelled'[d] THEN now <= Due(d, 2 + MaxFaults)'
                      ELSE StartsBy(d, 1 + faults)'
    BY DEF RetryInv
  <2>1. IF cancelled[d] THEN now <= Due(d, 2 + MaxFaults) ELSE StartsBy(d, 1 + faults)
    BY <1>1, <1>2 DEF RetryInv, SameClone
  <2>2. cancelled'[d] = cancelled[d]
    BY <1>1 DEF SameClone, SameElector
  <2>3. CASE cancelled[d]
    BY <1>2, <2>1, <2>2, <2>3
  <2>4. CASE ~cancelled[d]
    <3>1. 1 + faults \in Nat /\ StartsBy(d, 1 + faults) /\ Candidate(d)
      BY <1>1, <1>2, <2>1, <2>4
    <3>2. CASE faults' = faults
      <4>1. ASSUME NEW m \in Nat, m = 1 + faults PROVE StartsBy(d, m)'
        BY <1>4, <3>1, <4>1
      <4>2. 1 + faults' = 1 + faults
        BY <3>2
      <4> QED
        BY <2>2, <2>4, <3>1, <4>1, <4>2 DEF StartsBy, Due
    <3>3. CASE faults' = faults + 1
      <4>1. ASSUME NEW m \in Nat, m = 1 + faults, NEW n, n = m + 1 PROVE StartsBy(d, n)'
        BY <1>4, <3>1, <4>1
      <4>2. 1 + faults' = (1 + faults) + 1
        BY <1>1, <3>3
      <4> QED
        BY <2>2, <2>4, <3>1, <4>1, <4>2 DEF StartsBy, Due
    <3> QED
      BY <1>1, <3>2, <3>3
  <2> QED
    BY <2>3, <2>4
<1> QED
  BY <1>2, <1>3, <1>5

\* Every step preserves CandidatesInv.
LEMMA CandidatesStep == CandidatesInv /\ [Next]_vars => CandidatesInv'
<1> SUFFICES ASSUME CandidatesInv, [Next]_vars PROVE CandidatesInv'
  OBVIOUS
<1>0. /\ LocalInv /\ LocalInv'
      /\ \A c \in Client : AcquireInv(c) /\ WriteInv(c) /\ CloneInv(c) /\ RetryInv(c)
  BY LocalStep DEF CandidatesInv
<1>1. CASE Tick
  BY <1>0, <1>1, RetryTick DEF CandidatesInv
<1>2. ASSUME NEW c \in Client, ElectorStep(c) \/ Die(c), UNCHANGED now PROVE CandidatesInv'
  <2>1. Proceed(c) \/ Resume(c) \/ Fail(c) \/ Crash(c)
    BY <1>2 DEF ElectorStep, Die, Proceed
  <2>2. AcquireInv(c)' /\ WriteInv(c)'
    BY <1>0, <1>2, <2>1, AcquireStep, WriteStep DEF LocalInv, TypeOK
  <2>3. CloneInv(c)' /\ RetryInv(c)'
    BY <1>0, <1>2, CloneElector, RetryElector
  <2>4. ASSUME NEW d \in Client, d # c
        PROVE  AcquireInv(d)' /\ WriteInv(d)' /\ CloneInv(d)' /\ RetryInv(d)'
    BY <1>0, <1>2, <2>4, RetryOthers
  <2> QED
    BY <1>0, <2>2, <2>3, <2>4 DEF CandidatesInv
<1>3. ASSUME (\E c \in Client : ServerStep(c)) \/ (\E k \in late : LatePush(k)),
             UNCHANGED <<now, cancelled, deadline, electorVars>>
      PROVE  CandidatesInv'
  BY <1>0, <1>3, RetryServer DEF CandidatesInv
<1>4. CASE UNCHANGED vars
  <2>1. ASSUME NEW c \in Client
        PROVE  AcquireInv(c)' /\ WriteInv(c)' /\ CloneInv(c)' /\ RetryInv(c)'
    BY <1>0, <1>4 DEF vars, interfaceVars, electorVars, observedVars, gitVars, AcquireInv, WriteInv,
       CloneInv, RetryInv, Candidate, StartsBy, TryStart, Due
  <2> QED
    BY <1>0, <2>1 DEF CandidatesInv
<1> QED
  BY <1>1, <1>2, <1>3, <1>4 DEF Next

\* The initial state satisfies it.
LEMMA CandidatesInit == Init => CandidatesInv
<1> SUFFICES ASSUME Init PROVE CandidatesInv
  OBVIOUS
<1>1. LocalInv /\ remote \in Commit
  BY LocalInit DEF LocalInv, TypeOK, GitTypeOK
<1>2. IsPrefix(<<>>, remote)
  <2>1. <<>> \in Commit /\ Len(<<>>) = 0 /\ Len(remote) \in Nat
    BY <1>1, EmptySeq, LenProperties DEF Commit
  <2> QED
    BY <1>1, <2>1, PrefixElements
<1>3. ASSUME NEW c \in Client
      PROVE  AcquireInv(c) /\ WriteInv(c) /\ CloneInv(c) /\ RetryInv(c)
  <2>1. /\ pc[c] = "off" /\ deadline[c] = Never /\ ~inRenew[c] /\ call[c] = Idle /\ now = 0
        /\ observedRecord[c] = ZeroRecord /\ observedRawRecord[c] = ZeroRecord /\ head[c] = <<>>
    BY DEF Init, InterfaceInit, ElectorInit, GitInit
  <2> QED
    BY <1>2, <2>1 DEF AcquireInv, WriteInv, CloneInv, RetryInv, Candidate, Idle
<1> QED
  BY <1>1, <1>3 DEF CandidatesInv

\* A clone all of whose pushes were taken follows the server, and its client
\* tries again in time, in every configuration New accepts.
THEOREM CandidatesInvariant == Spec => []CandidatesInv
BY CandidatesInit, CandidatesStep, PTL DEF Spec

\* A candidate none of whose pushes has failed takes the lease within two retries
\* of the end of the record it has read, and one more for each request that is
\* lost, whoever pushes, releases, stops or dies meanwhile.
THEOREM CandidateNotStuck == Spec => []CandidateNotStuckUnlessDetached
<1>1. ASSUME CandidatesInv, NEW c \in Client, StuckFor(c, 2 + MaxFaults), ~detached[c]
      PROVE  FALSE
  <2>1. /\ InterfaceTypeOK /\ ElectorTypeOK /\ GitTypeOK /\ ElectorInv(c) /\ TimelyInv(c)
        /\ WriteInv(c) /\ RetryInv(c)
    BY <1>1 DEF CandidatesInv, LocalInv, TypeOK
  <2>2. faults \in Nat /\ MaxFaults \in Nat /\ faults <= MaxFaults
    BY <2>1, GitAssumption DEF GitTypeOK
  <2>3. Candidate(c) /\ now > Due(c, 2 + MaxFaults)
    BY <1>1 DEF StuckFor, Candidate, Due, RetryTime, RetryPause
  <2>4. /\ Due(c, 1 + faults + 1) \in Nat /\ Due(c, 2 + MaxFaults) \in Nat /\ now \in Nat
        /\ Due(c, 1 + faults + 1) <= Due(c, 2 + MaxFaults)
    BY <2>1, <2>2, DueGrows, LockAssumption DEF InterfaceTypeOK
  <2>5. CASE cancelled[c]
    BY <1>1, <2>1, <2>3, <2>4, <2>5 DEF RetryInv
  <2>6. CASE ~cancelled[c]
    <3>1. StartsBy(c, 1 + faults)
      BY <1>1, <2>1, <2>3, <2>6 DEF RetryInv
    <3>2. now <= Due(c, 1 + faults + 1)
      BY <2>1, <2>2, <2>3, <3>1, CandidateInTime
    <3> QED
      BY <2>3, <2>4, <3>2
  <2> QED
    BY <2>5, <2>6
<1>2. CandidatesInv => CandidateNotStuckUnlessDetached
  BY <1>1 DEF CandidateNotStuckUnlessDetached
<1> QED
  BY <1>2, CandidatesInvariant, PTL
=============================================================================
