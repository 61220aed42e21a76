------------------------ MODULE GossipElectionProofs ------------------------
(***************************************************************************)
(* GossipElection, for every set of clients and every configuration New    *)
(* accepts: its types, and that a leader gives up in time; and when no one *)
(* releases, that two clients lead together only after a race.             *)
(***************************************************************************)
EXTENDS GossipElectionInv, ElectorProofs

\* What is on its way is what was, and the entry that is sent, confirmed.
LEMMA SendType ==
    ASSUME NEW S, S \subseteq Entry, NEW e \in Entry, NEW n \in Nat, e.time <= n,
           \A f \in S : f.time <= n
    PROVE  Send(S, e) \subseteq Entry /\ \A f \in Send(S, e) : f.time <= n
<1>1. Heard(e) \in Entry /\ Heard(e).time = e.time
  BY DEF Heard, Entry
<1> QED
  BY <1>1 DEF Send

\* A step of the store keeps the types, and no entry is newer than the newest Set.
LEMMA StoreStepType ==
    ASSUME TypeOK, EntriesInv, NEW c \in Client, StoreStep(c), UNCHANGED now
    PROVE  call' \in [Client -> Call] /\ GossipTypeOK' /\ EntriesInv'
<1> USE DEF TypeOK, GossipTypeOK, EntriesInv
<1>n. now \in 0..Never
  BY LockAssumption DEF InterfaceTypeOK, Never
<1>e. \A d \in Client : entry[d].rec \in Record /\ entry[d].time \in 0..sets
  BY DEF Entry
<1>c. call[c].rec \in Record
  BY DEF InterfaceTypeOK, Call
<1>a. ASSUME NEW t, Confirm(c, t) PROVE call' \in [Client -> Call]
  BY <1>a, <1>c, <1>e, AnswerType DEF Confirm, InterfaceTypeOK
<1>1. CASE GetReturns(c)
  <2>1. call' \in [Client -> Call]
    BY <1>1, <1>e, AnswerType DEF GetReturns
  <2> QED
    BY <1>1, <1>e, <2>1 DEF GetReturns
<1>2. CASE GetWaits(c)
  BY <1>2, <1>e DEF GetWaits, InterfaceTypeOK
<1>3. CASE Set(c)
  <2> DEFINE e == [rec |-> call[c].rec, time |-> sets + 1, confirmed |-> FALSE]
  <2>1. e \in Entry /\ e.time = sets + 1 /\ sets' = sets + 1 /\ sets' \in Nat
    BY <1>3, <1>c DEF Set, Entry
  <2>2. entry' = [entry EXCEPT ![c] = e]
    BY <1>3 DEF Set
  <2>3. entry' \in [Client -> Entry] /\ \A d \in Client : entry'[d].time <= sets'
    BY <1>e, <2>1, <2>2
  <2>4. /\ Send(sent[c], e) \subseteq Entry
        /\ \A f \in Send(sent[c], e) : f.time <= sets'
    <3>1. \A f \in sent[c] : f.time <= sets'
      BY <2>1 DEF Entry
    <3>2. e.time <= sets'
      BY <2>1
    <3> HIDE DEF e
    <3> QED
      BY <2>1, <3>1, <3>2, SendType
  <2>5. sent' = [sent EXCEPT ![c] = IF alone[c] THEN @ ELSE Send(@, e)]
    BY <1>3 DEF Set
  <2> HIDE DEF e
  <2>6. sent' \in [Client -> SUBSET Entry] /\ \A d \in Client : \A f \in sent'[d] : f.time <= sets'
    <3>1. \A d \in Client : \A f \in sent[d] : f.time <= sets'
      BY <2>1 DEF Entry
    <3> QED
      BY <2>4, <2>5, <3>1
  <2>7. on' \in [Client -> 0..sets'] /\ seen' \in [Client -> 0..sets']
    BY <1>3, <2>1 DEF Set
  <2>8. raced' \in 0..Never
    BY <1>3, <1>n DEF Set
  <2> QED
    BY <1>3, <2>1, <2>3, <2>6, <2>7, <2>8 DEF Set, InterfaceTypeOK
<1>4. CASE ConfirmAlone(c)
  <2>1. entry' \in [Client -> Entry] /\ \A d \in Client : entry'[d].time = entry[d].time
    BY <1>4 DEF ConfirmAlone, Entry
  <2>2. raced' \in 0..Never
    BY <1>4, <1>n DEF ConfirmAlone
  <2> QED
    BY <1>4, <1>a, <1>e, <2>1, <2>2 DEF ConfirmAlone
<1>5. ASSUME NEW d \in Client, NEW e \in sent[d], ArrivesSame(c, e) \/ ArrivesNewer(c, e)
      PROVE  call' \in [Client -> Call] /\ GossipTypeOK' /\ EntriesInv'
  <2>1. e \in Entry /\ e.time <= sets
    BY <1>5
  <2>2. entry' \in [Client -> Entry] /\ \A f \in Client : entry'[f].time <= sets
    BY <1>5, <2>1 DEF ArrivesSame, ArrivesNewer
  <2>3. CASE ArrivesSame(c, e)
    <3>1. raced' \in 0..Never
      BY <1>n, <2>3 DEF ArrivesSame
    <3>2. seen' \in [Client -> 0..sets]
      BY <2>1, <2>3 DEF ArrivesSame, Entry
    <3> QED
      BY <1>a, <2>2, <2>3, <3>1, <3>2 DEF ArrivesSame
  <2>4. CASE ArrivesNewer(c, e)
    <3>1. /\ Send(sent[c], e) \subseteq Entry
          /\ \A f \in Send(sent[c], e) : f.time <= sets
      BY <2>1, SendType
    <3>2. sent' \in [Client -> SUBSET Entry] /\ \A f \in Client : \A g \in sent'[f] : g.time <= sets
      BY <2>4, <3>1 DEF ArrivesNewer
    <3> QED
      BY <2>2, <2>4, <3>2 DEF ArrivesNewer, InterfaceTypeOK
  <2> QED
    BY <1>5, <2>3, <2>4
<1>6. ASSUME NEW d \in Client
      PROVE  /\ Send(sent[d], entry[d]) \subseteq Entry
             /\ \A f \in Send(sent[d], entry[d]) : f.time <= sets
  BY SendType
<1>7. CASE Join(c)
  <2>1. PICK d \in Client :
          /\ alone' = [alone EXCEPT ![c] = (d = c), ![d] = (d = c)]
          /\ entry' = [entry EXCEPT ![c] = Heard(entry[d])]
          /\ sent' = [sent EXCEPT ![d] = Send(@, entry[d])]
    BY <1>7 DEF Join, Others
  <2>2. Heard(entry[d]) \in Entry /\ Heard(entry[d]).time = entry[d].time
    BY DEF Heard, Entry
  <2>3. entry' \in [Client -> Entry] /\ \A f \in Client : entry'[f].time <= sets
    BY <2>1, <2>2
  <2>4. sent' \in [Client -> SUBSET Entry] /\ \A f \in Client : \A g \in sent'[f] : g.time <= sets
    BY <1>6, <2>1
  <2>5. alone' \in [Client -> BOOLEAN] /\ up' \in [Client -> BOOLEAN]
    BY <1>7, <2>1 DEF Join
  <2> QED
    BY <1>7, <2>3, <2>4, <2>5 DEF Join, InterfaceTypeOK
<1>8. CASE Reunited(c)
  <2>1. sent' \in [Client -> SUBSET Entry] /\ \A f \in Client : \A g \in sent'[f] : g.time <= sets
    BY <1>6, <1>8 DEF Reunited
  <2>2. alone' \in [Client -> BOOLEAN]
    BY <1>8 DEF Reunited
  <2> QED
    BY <1>8, <2>1, <2>2 DEF Reunited, InterfaceTypeOK
<1> QED
  BY <1>1, <1>2, <1>3, <1>4, <1>5, <1>7, <1>8 DEF StoreStep

\* What Returns, Fails, ClientGone and TakenForDead do to the lock's variables.
LEMMA LockSideType ==
    ASSUME TypeOK, EntriesInv, NEW c \in Client,
           Returns(c) \/ Fails(c) \/ ClientGone(c) \/ Isolated(c)
    PROVE  GossipTypeOK' /\ EntriesInv'
<1> USE DEF TypeOK, GossipTypeOK, EntriesInv
<1>1. NoEntry \in Entry /\ NoEntry.time = 0
  BY DEF NoEntry, Entry, ZeroRecord, Record
<1>2. CASE Returns(c) \/ Fails(c)
  BY <1>2 DEF Returns, Fails, CallOver
<1>3. CASE ClientGone(c)
  BY <1>1, <1>3 DEF ClientGone
<1>4. CASE Isolated(c)
  BY <1>4 DEF Isolated
<1> QED
  BY <1>2, <1>3, <1>4

\* The store answers at most one call, and a write with its own record.
LEMMA AnswersOnly ==
    ASSUME NEW c \in Client, StoreStep(c)
    PROVE  \/ UNCHANGED call
           \/ \E d \in Client : \E st, rec, ver :
                Answer(d, st, rec, ver) /\ (IsWrite(d) => rec = call[d].rec)
<1>1. ASSUME NEW t, Confirm(c, t)
      PROVE  \/ UNCHANGED call
             \/ \E st, rec, ver : Answer(c, st, rec, ver) /\ (IsWrite(c) => rec = call[c].rec)
  BY <1>1 DEF Confirm
<1>2. CASE GetReturns(c)
  BY <1>2 DEF GetReturns, IsWrite
<1>3. CASE ConfirmAlone(c)
  BY <1>1, <1>3 DEF ConfirmAlone
<1>4. ASSUME NEW e, ArrivesSame(c, e)
      PROVE  \/ UNCHANGED call
             \/ \E st, rec, ver : Answer(c, st, rec, ver) /\ (IsWrite(c) => rec = call[c].rec)
  BY <1>1, <1>4 DEF ArrivesSame
<1>5. CASE GetWaits(c) \/ Set(c) \/ Join(c) \/ Reunited(c) \/ \E e : ArrivesNewer(c, e)
  BY <1>5 DEF GetWaits, Set, Join, Reunited, ArrivesNewer
<1> QED
  BY <1>2, <1>3, <1>4, <1>5 DEF StoreStep

\* Every step preserves LocalInv.
LEMMA LocalStep == LocalInv /\ [Next]_vars => LocalInv'
<1> SUFFICES ASSUME LocalInv, [Next]_vars PROVE LocalInv'
  OBVIOUS
<1> USE DEF LocalInv
<1>0. InterfaceTypeOK /\ ElectorTypeOK /\ GossipTypeOK
  BY DEF TypeOK
<1>1. CASE Tick
  <2>1. \A c \in Client : ElectorInv(c)'
    BY <1>0, <1>1, ElectorInvTick DEF Tick, LockMayWait
  <2>2. InterfaceTypeOK' /\ ElectorTypeOK'
    BY <1>0, <1>1, ElectorTypeTick DEF Tick
  <2>3. GossipTypeOK' /\ EntriesInv'
    BY <1>0, <1>1 DEF Tick, gossipVars, GossipTypeOK, EntriesInv
  <2> QED
    BY <2>1, <2>2, <2>3 DEF TypeOK
<1>2. ASSUME NEW c \in Client, ElectorStep(c) \/ Die(c), UNCHANGED now PROVE LocalInv'
  <2>1. Proceed(c) \/ Resume(c) \/ Fail(c) \/ Crash(c)
    BY <1>2 DEF ElectorStep, Die
  <2>2. \A d \in Client : ElectorInv(d)'
    BY <1>0, <1>2, <2>1, ElectorInvStep
  <2>3. InterfaceTypeOK' /\ ElectorTypeOK'
    BY <1>0, <1>2, <2>1, ProceedType, ResumeType
  <2>4. UNCHANGED gossipVars \/ Returns(c) \/ Fails(c) \/ ClientGone(c)
    BY <1>2 DEF ElectorStep, Die
  <2>5. GossipTypeOK' /\ EntriesInv'
    BY <1>0, <2>4, LockSideType DEF gossipVars, GossipTypeOK, EntriesInv
  <2> QED
    BY <2>2, <2>3, <2>5 DEF TypeOK
<1>3. ASSUME NEW c \in Client, StoreStep(c), UNCHANGED <<now, cancelled, deadline, electorVars>>
      PROVE  LocalInv'
  <2>1. \A d \in Client : ElectorInv(d)'
    BY <1>0, <1>3, AnswersOnly, ElectorInvAnswer
  <2>2. call' \in [Client -> Call] /\ GossipTypeOK' /\ EntriesInv'
    BY <1>3, StoreStepType
  <2> QED
    BY <1>0, <1>3, <2>1, <2>2
       DEF TypeOK, InterfaceTypeOK, ElectorTypeOK, electorVars, observedVars
<1>4. ASSUME NEW c \in Client, TakenForDead(c), UNCHANGED <<now, cancelled, deadline>>
      PROVE  LocalInv'
  <2>1. GossipTypeOK' /\ EntriesInv' /\ UNCHANGED call
    BY <1>4, LockSideType DEF TakenForDead, Isolated
  <2>2. stops' \in 0..MaxStops
    BY <1>0, <1>4, ElectorAssumption DEF TakenForDead, ElectorTypeOK
  <2>3. InterfaceTypeOK' /\ ElectorTypeOK'
    BY <1>0, <1>4, <2>1, <2>2 DEF TakenForDead, InterfaceTypeOK, ElectorTypeOK, observedVars
  <2>4. \A d \in Client : SameElector(d)
    BY <1>4 DEF TakenForDead, SameElector, observedVars
  <2>5. \A d \in Client : ElectorInv(d)'
    BY <1>4, <2>1, <2>4, ElectorInvFrame
  <2> QED
    BY <2>1, <2>3, <2>5 DEF TypeOK
<1>5. CASE UNCHANGED vars
  <2>1. UNCHANGED <<now, cancelled, deadline, electorVars>> /\ UNCHANGED <<call, gossipVars>>
    BY <1>5 DEF vars, interfaceVars
  <2>2. \A d \in Client : ElectorInv(d)'
    BY <1>0, <2>1, ElectorInvAnswer
  <2> QED
    BY <1>0, <2>1, <2>2
       DEF TypeOK, InterfaceTypeOK, ElectorTypeOK, electorVars, observedVars,
           GossipTypeOK, EntriesInv, gossipVars
<1> QED
  BY <1>1, <1>2, <1>3, <1>4, <1>5 DEF Next

\* The initial state satisfies it.
LEMMA LocalInit == Init => LocalInv
<1> SUFFICES ASSUME Init PROVE LocalInv
  OBVIOUS
<1>1. NoEntry \in Entry /\ NoEntry.time = 0 /\ Never \in 0..Never
  BY LockAssumption DEF NoEntry, Entry, ZeroRecord, Record, Never
<1>2. GossipTypeOK
  BY <1>1 DEF Init, GossipInit, GossipTypeOK
<1>3. EntriesInv
  BY <1>1 DEF Init, GossipInit, EntriesInv
<1> QED
  BY <1>2, <1>3, ElectorTypeInit, ElectorInvInit DEF Init, LocalInv, TypeOK

\* It holds in every state, whatever is lost, late or repeated and whoever
\* crashes, joins or is taken for dead.
THEOREM LocalInvariant == Spec => []LocalInv
BY LocalInit, LocalStep, PTL DEF Spec

\* Every variable keeps its type; no entry that waits, was seen or is on its way
\* has a timestamp no Set has given.
THEOREM TypeCorrect == Spec => []TypeOK
<1>1. LocalInv => TypeOK
  BY DEF LocalInv
<1> QED
  BY <1>1, LocalInvariant, PTL

\* A leader whose renewals are not confirmed gives up within a pause and a round,
\* or is in the release that waits for other nodes.
THEOREM LeaderGivesUp == Spec => []GivesUpUnlessReleasing
<1>1. ASSUME LocalInv, NEW c \in Client, leading[c], pc[c] # "release"
      PROVE  ~(now > observedTime[c] + RetryPeriod + RenewDeadline)
  <2>1. /\ now \in Nat /\ observedTime[c] \in Nat /\ wake[c] \in Nat /\ deadline[c] \in Nat
        /\ RetryPeriod \in Nat /\ RenewDeadline \in Nat
    BY <1>1, LockAssumption, ElectorAssumption
       DEF LocalInv, TypeOK, InterfaceTypeOK, ElectorTypeOK
  <2>2. ElectorInv(c)
    BY <1>1 DEF LocalInv
  <2> QED
    BY <1>1, <2>1, <2>2 DEF ElectorInv, TimersInv, GiveUpInv, InRound
<1>2. LocalInv => GivesUpUnlessReleasing
  BY <1>1 DEF GivesUpUnlessReleasing
<1> QED
  BY <1>2, LocalInvariant, PTL

-----------------------------------------------------------------------------
(***************************************************************************)
(* Who has seen which Set.                                                 *)
(***************************************************************************)
\* What is in a map or on its way is one of the rows.
LEMMA RowsHave ==
    /\ Row(NoEntry) \in Rows
    /\ \A c \in Client : Row(entry[c]) \in Rows
    /\ \A c \in Client : \A e \in sent[c] : Row(e) \in Rows
BY DEF Rows

\* The rows are what is in the maps and on its way.
LEMMA RowsFrom ==
    ASSUME NEW S, Row(NoEntry) \in S, \A c \in Client : Row(entry[c]) \in S,
           \A c \in Client : \A e \in sent[c] : Row(e) \in S
    PROVE  Rows \subseteq S
BY DEF Rows

\* The types of the rows.
LEMMA RowsType ==
    ASSUME LocalInv
    PROVE  \A e \in Rows : /\ e.time \in 0..sets /\ e.rec \in Record /\ e.rec.renew \in Nat
                           /\ e = Row(e)
<1>0. \A c \in Client : entry[c].rec \in Record /\ entry[c].time \in 0..sets
  <2> SUFFICES ASSUME NEW c \in Client PROVE entry[c].rec \in Record /\ entry[c].time \in 0..sets
    OBVIOUS
  <2>1. sets \in Nat /\ entry[c] \in Entry /\ entry[c].time <= sets
    BY DEF LocalInv, TypeOK, GossipTypeOK, EntriesInv
  <2> QED
    BY <2>1 DEF Entry
<1> DEFINE S == [time: 0..sets, rec: Record]
<1>1. Row(NoEntry) \in S
  BY DEF Row, NoEntry, ZeroRecord, Record, LocalInv, TypeOK, GossipTypeOK
<1>2. \A c \in Client : Row(entry[c]) \in S
  BY <1>0 DEF Row
<1>3. \A c \in Client : \A e \in sent[c] : Row(e) \in S
  BY DEF Row, Entry, LocalInv, TypeOK, GossipTypeOK, EntriesInv
<1>4. Rows \subseteq S
  BY <1>1, <1>2, <1>3, RowsFrom
<1> QED
  BY <1>4 DEF Row, Record

\* What may arrive after a Send is what was there, or the entry that was sent.
LEMMA SendRows ==
    ASSUME NEW S, NEW e \in Entry, NEW f \in Send(S, e)
    PROVE  f \in S \/ (Row(f) = Row(e) /\ f.confirmed)
<1>1. Row(Heard(e)) = Row(e) /\ Heard(e).confirmed
  BY DEF Row, Heard, Entry
<1> QED
  BY <1>1 DEF Send

\* The rows after a step that leaves the maps and what is on its way alone, or
\* moves entries between them.
LEMMA RowsMoved ==
    ASSUME LocalInv, RowsInv, UNCHANGED now,
           \A c \in Client : Row(entry'[c]) \in Rows,
           \A c \in Client : \A e \in sent'[c] : Row(e) \in Rows /\ e.confirmed
    PROVE  RowsInv' /\ Rows' \subseteq Rows
<1>1. Rows' \subseteq Rows
  BY RowsHave DEF Rows
<1> QED
  BY <1>1 DEF RowsInv, Stored, Agree

\* The types a client's part of the invariants is about.
LEMMA ClientTypes ==
    ASSUME LocalInv, NEW c \in Client
    PROVE  /\ now \in Nat /\ now < Never /\ Never \in Nat /\ raced \in Nat /\ sets \in Nat
           /\ call[c] \in Call /\ call[c].at \in Nat /\ call[c].rec \in Record
           /\ call[c].rec.renew \in Nat
           /\ observedTime[c] \in Nat /\ observedRawRecord[c] \in Record
           /\ observedRawRecord[c].renew \in Nat /\ observedRecord[c] \in Record
           /\ entry[c] \in Entry /\ entry[c].time \in 0..sets /\ entry[c].rec \in Record
           /\ entry[c].rec.renew \in Nat
           /\ seen[c] \in 0..sets /\ on[c] \in 0..sets /\ LeaseDuration \in Nat
           /\ wake[c] \in Nat /\ deadline[c] \in Nat
<1>1. InterfaceTypeOK /\ ElectorTypeOK /\ GossipTypeOK /\ entry[c].time <= sets
  BY DEF LocalInv, TypeOK, EntriesInv
<1>2. /\ now \in 0..MaxTime /\ MaxTime \in Nat /\ Never = MaxTime + 1 /\ LeaseDuration \in Nat
  BY <1>1, LockAssumption, ElectorAssumption DEF InterfaceTypeOK, Never
<1>3. /\ call[c] \in Call /\ call[c].at \in Nat /\ call[c].rec \in Record
  BY <1>1 DEF InterfaceTypeOK, Call
<1>4. /\ observedTime[c] \in Nat /\ observedRawRecord[c] \in Record
      /\ observedRecord[c] \in Record /\ wake[c] \in Nat /\ deadline[c] \in Nat
  BY <1>1 DEF ElectorTypeOK, InterfaceTypeOK
<1>5. /\ sets \in Nat /\ entry[c] \in Entry /\ seen[c] \in 0..sets /\ on[c] \in 0..sets
      /\ raced \in 0..Never
  BY <1>1 DEF GossipTypeOK
<1>6. entry[c].time \in Nat /\ entry[c].rec \in Record
  BY <1>5 DEF Entry
<1>7. \A r \in Record : r.renew \in Nat
  BY DEF Record
<1> QED
  BY <1>1, <1>2, <1>3, <1>4, <1>5, <1>6, <1>7

\* What a step of another client leaves of a client.
SameClient(d) ==
    /\ SameElector(d) /\ call'[d] = call[d] /\ up'[d] = up[d] /\ entry'[d] = entry[d]
    /\ on'[d] = on[d] /\ seen'[d] = seen[d]

\* A client is not disturbed by what other clients set.
LEMMA SameClientKept ==
    ASSUME LocalInv, NEW d \in Client, ClientInv(d), SameClient(d), UNCHANGED now,
           \A e \in Rows' : e \in Rows \/ e.time > sets
    PROVE  ClientInv(d)'
<1> USE DEF SameClient, SameElector
<1>t. seen[d] \in 0..sets /\ sets \in Nat
  BY ClientTypes
<1>i. /\ Is(call[d].rec, seen[d]) => Is(call[d].rec, seen[d])'
      /\ Is(observedRawRecord[d], seen[d]) => Is(observedRawRecord[d], seen[d])'
  BY <1>t DEF Is
<1>1. RestInv(d)' /\ OwnInv(d)'
  BY DEF ClientInv, RestInv, OwnInv, CtxDone, Waits
<1>2. ObservedInv(d)'
  BY DEF ClientInv, ObservedInv, IsLeader, RawIsOver
<1>3. GetInv(d)'
  BY <1>i DEF ClientInv, GetInv, IsLeader, RawIsOver, CtxDone, Waits, Stored
<1>4. SetInv(d)'
  BY <1>i DEF ClientInv, SetInv, RawIsOver, Begins
<1> QED
  BY <1>1, <1>2, <1>3, <1>4 DEF ClientInv

\* The clock waits for a client that has something to do.
LEMMA StoreTick ==
    ASSUME ~ReleaseOnCancel, LocalInv, RowsInv, NEW c \in Client, ClientInv(c), Tick
    PROVE  RowsInv' /\ ClientInv(c)'
<1> USE DEF electorVars, observedVars, gossipVars
<1>t. now \in Nat /\ now' = now + 1
  BY ClientTypes DEF Tick
<1>1. UNCHANGED <<call, cancelled, deadline, electorVars, gossipVars>> /\ LockMayWait(c)
  BY DEF Tick
<1>2. Rows' = Rows
  BY <1>1 DEF Rows
<1>3. \A r \in Record : Stored(r) => Stored(r)'
  BY <1>t DEF Stored, Record
<1>4. RowsInv'
  BY <1>1, <1>2, <1>3, RowsType DEF RowsInv, Agree
<1>5. pc[c] # "get" /\ (pc[c] = "set" => ~Begins(c))
  <2>1. /\ call[c].op = "get" <=> pc[c] = "get"
        /\ IsWrite(c) <=> pc[c] = "set"
    BY NoReleaseCalls DEF LocalInv, TypeOK
  <2> QED
    BY <1>1, <2>1 DEF ClientInv, GetInv, LockMayWait, CallCtxDone, Waits, Begins, IsWrite
<1>6. CtxDone(c) => CtxDone(c)'
  BY <1>t, <1>1, ClientTypes DEF CtxDone
<1>7. RestInv(c)' /\ OwnInv(c)' /\ ObservedInv(c)'
  BY <1>1, <1>6 DEF ClientInv, RestInv, OwnInv, ObservedInv, Waits, IsLeader, RawIsOver
<1>8. GetInv(c)' /\ SetInv(c)'
  BY <1>t, <1>1, <1>5, ClientTypes DEF ClientInv, GetInv, SetInv, Begins, RawIsOver
<1> QED
  BY <1>4, <1>7, <1>8 DEF ClientInv

\* The steps of an elector that need no call to return.
LEMMA StoreProceed ==
    ASSUME ~ReleaseOnCancel, LocalInv, NEW c \in Client, ClientInv(c), up[c], Proceed(c),
           UNCHANGED gossipVars, UNCHANGED now
    PROVE  ClientInv(c)'
<1> USE DEF gossipVars, observedVars
<1>0. InterfaceTypeOK /\ ElectorTypeOK /\ ElectorInv(c)
  BY DEF LocalInv, TypeOK
<1>t. /\ pc \in [Client -> PCs] /\ call \in [Client -> Call] /\ deadline \in [Client -> Nat]
      /\ cancelled \in [Client -> BOOLEAN] /\ leading \in [Client -> BOOLEAN]
      /\ now \in Nat /\ now < Never
  BY <1>0, ClientTypes DEF InterfaceTypeOK, ElectorTypeOK
<1>r. Rows' = Rows
  BY DEF Rows
<1>o. UNCHANGED <<observedVars, entry, seen>>
  BY DEF Proceed, Run, StartTry, StartRound, PollTick, StopAcquiring, StopBetweenRounds,
         StopPolling, LeaveRenew, Cancel
<1>1. ObservedInv(c)'
  BY <1>o DEF ClientInv, ObservedInv, IsLeader, RawIsOver
<1>2. CASE StartTry(c) \/ StartRound(c) \/ PollTick(c)
  <2>1. /\ pc'[c] = "get" /\ call'[c].st = "pending" /\ call'[c].at = now /\ call'[c].op = "get"
        /\ on[c] = 0
    BY <1>0, <1>2, <1>t
       DEF StartTry, StartRound, PollTick, Invoke, ClientInv, RestInv, ElectorInv, CallMatches
  <2>2. GetInv(c)' /\ SetInv(c)'
    BY <2>1 DEF GetInv, SetInv, Waits
  <2>3. OwnInv(c)'
    BY <1>2, <1>t, <2>1 DEF ClientInv, OwnInv, StartTry, StartRound, PollTick, CtxDone
  <2>4. RestInv(c)'
    BY <1>2, <1>t, <2>1 DEF ClientInv, RestInv, StartTry, StartRound, PollTick
  <2> QED
    BY <1>1, <2>2, <2>3, <2>4 DEF ClientInv
<1>3. CASE Run(c) \/ StopAcquiring(c) \/ StopBetweenRounds(c) \/ StopPolling(c)
  <2>1. /\ pc'[c] \in {"wait", "done"} /\ call'[c].op = "none" /\ on[c] = 0
        /\ (~inRenew'[c] => deadline'[c] = Never) /\ (pc[c] = "off" \/ pc'[c] = "done")
    BY <1>0, <1>3, <1>t
       DEF Run, StopAcquiring, StopBetweenRounds, StopPolling, LeaveRenew, ClientInv, RestInv,
           ElectorInv, CallMatches
  <2>2. GetInv(c)' /\ SetInv(c)'
    BY <2>1 DEF GetInv, SetInv
  <2>3. OwnInv(c)' /\ RestInv(c)'
    BY <2>1 DEF ClientInv, OwnInv, RestInv
  <2> QED
    BY <1>1, <2>2, <2>3 DEF ClientInv
<1>4. CASE Cancel(c)
  <2>1. /\ UNCHANGED <<pc, inRenew, call, deadline>> /\ cancelled'[c] = TRUE
    BY <1>4, <1>t DEF Cancel
  <2>2. GetInv(c)' /\ SetInv(c)'
    BY <1>o, <1>r, <2>1
       DEF ClientInv, GetInv, SetInv, Waits, Begins, CtxDone, Is, Stored, IsLeader, RawIsOver
  <2>3. OwnInv(c)' /\ RestInv(c)'
    BY <2>1 DEF ClientInv, OwnInv, RestInv, CtxDone, Waits
  <2> QED
    BY <1>1, <2>2, <2>3 DEF ClientInv
<1> QED
  BY <1>2, <1>3, <1>4 DEF Proceed

\* A Get has returned an entry: it is observed.
LEMMA StoreObserve ==
    ASSUME LocalInv, NEW c \in Client, ClientInv(c), pc[c] = "get", call[c].st = "ok",
           Observe(c, call[c].rec), UNCHANGED <<entry, seen, now>>, NEW t, t = call[c].at
    PROVE  /\ ObservedInv(c)'
           /\ observedRawRecord'[c] = call[c].rec
           /\ ~HeldByOther(c, call[c].rec, call[c].at) => RawIsOver(c, t)'
<1>t. /\ now \in Nat /\ call[c].at \in Nat /\ call[c].rec.renew \in Nat /\ call[c].rec \in Record
      /\ observedTime[c] \in Nat /\ entry[c].time \in Nat /\ seen[c] \in Nat
      /\ LeaseDuration \in Nat /\ observedRawRecord[c].renew \in Nat
  BY ClientTypes
<1>0. /\ observedRecord \in [Client -> Record] /\ observedRawRecord \in [Client -> Record]
      /\ observedTime \in [Client -> Nat]
  BY DEF LocalInv, TypeOK, ElectorTypeOK
<1>1. /\ Stored(call[c].rec) /\ seen[c] # 0 /\ call[c].at = now
      /\ IsLeader(c) => RawIsOver(c, call[c].rec.renew)
      /\ seen[c] <= entry[c].time /\ observedRawRecord[c].renew <= observedTime[c]
      /\ IsLeader(c) => RawIsOver(c, entry[c].rec.renew)
  BY DEF ClientInv, GetInv, ObservedInv
<1>2. LeaseDuration > 0
  BY ElectorAssumption DEF NewAccepts
<1>3. CASE observedRawRecord[c] = call[c].rec
  <2>1. UNCHANGED observedVars
    BY <1>3 DEF Observe
  <2>2. ObservedInv(c)'
    BY <2>1 DEF observedVars, ClientInv, ObservedInv, IsLeader, RawIsOver
  <2>3. IsLeader(c) => call[c].rec.holder \in {c, NoOne}
    BY <1>t, <1>1, <1>2, <1>3 DEF RawIsOver
  <2>4. ~HeldByOther(c, call[c].rec, call[c].at) => RawIsOver(c, t)'
    BY <1>t, <1>1, <1>3, <2>1, <2>3
       DEF HeldByOther, IsLeader, RawIsOver, observedVars, Stored
  <2> QED
    BY <1>3, <2>1, <2>2, <2>4 DEF observedVars
<1>4. CASE observedRawRecord[c] # call[c].rec
  <2>1. /\ observedRecord'[c] = call[c].rec /\ observedRawRecord'[c] = call[c].rec
        /\ observedTime'[c] = now
    BY <1>0, <1>4 DEF Observe, SetObservedRecord
  <2>2. ObservedInv(c)'
    BY <1>t, <1>1, <2>1 DEF ObservedInv, IsLeader, RawIsOver, Stored
  <2>3. ~HeldByOther(c, call[c].rec, call[c].at) => RawIsOver(c, t)'
    BY <1>t, <1>1, <2>1 DEF HeldByOther, RawIsOver, Stored
  <2> QED
    BY <2>1, <2>2, <2>3
<1> QED
  BY <1>3, <1>4

\* A call has returned, or failed.
LEMMA StoreResume ==
    ASSUME ~ReleaseOnCancel, LocalInv, RowsInv, NEW c \in Client, ClientInv(c),
           (Resume(c) /\ Returns(c)) \/ (Fail(c) /\ Fails(c)), UNCHANGED now
    PROVE  ClientInv(c)'
<1>0. InterfaceTypeOK /\ ElectorTypeOK /\ GossipTypeOK /\ ElectorInv(c)
  BY DEF LocalInv, TypeOK
<1>t. /\ pc \in [Client -> PCs] /\ call \in [Client -> Call] /\ deadline \in [Client -> Nat]
      /\ observedRecord \in [Client -> Record] /\ observedTime \in [Client -> Nat]
      /\ inRenew \in [Client -> BOOLEAN] /\ on \in [Client -> 0..sets]
      /\ now \in Nat /\ now < Never /\ observedTime[c] \in Nat /\ call[c].at \in Nat
      /\ observedRawRecord[c].renew \in Nat /\ entry[c].rec.renew \in Nat /\ LeaseDuration \in Nat
  BY <1>0, ClientTypes DEF InterfaceTypeOK, ElectorTypeOK, GossipTypeOK
<1>1. on'[c] = 0 /\ UNCHANGED <<sets, up, alone, entry, sent, seen, raced>>
  BY <1>0 DEF Returns, Fails, CallOver, GossipTypeOK
<1>2. Rows' = Rows
  BY <1>1 DEF Rows
<1>3. pc[c] # "release" /\ (pc[c] \in {"get", "set"} => up[c])
  BY <1>0, NoReleaseCalls DEF ClientInv, RestInv
<1>f. ASSUME TryFails(c), pc[c] \in {"get", "set"}, ObservedInv(c)',
             entry[c].confirmed \/ CtxDone(c)
      PROVE  ClientInv(c)'
  <2>1. /\ call'[c].op = "none" /\ (inRenew[c] => pc'[c] = "poll") /\ (~inRenew[c] => pc'[c] = "wait")
        /\ UNCHANGED <<inRenew, deadline, cancelled>>
    BY <1>f, <1>t DEF TryFails, Return, Idle
  <2>2. RestInv(c)' /\ GetInv(c)' /\ SetInv(c)'
    BY <1>1, <1>3, <1>f, <2>1 DEF ClientInv, RestInv, GetInv, SetInv
  <2>3. ~inRenew[c] /\ CtxDone(c) => cancelled[c]
    BY <1>t DEF ClientInv, RestInv, CtxDone
  <2>4. OwnInv(c)'
    BY <1>1, <1>f, <2>1, <2>3 DEF OwnInv, CtxDone
  <2> QED
    BY <1>f, <2>2, <2>4 DEF ClientInv
<1>s. ASSUME pc[c] = "get", pc'[c] = "set", call[c].st # "pending", NEW op, NEW r, Invoke(c, op, r),
             op \in {"create", "update"}, r.holder = c, r.dur = LeaseDuration, r.renew = call[c].at,
             ObservedInv(c)', NEW t, t = call[c].at, RawIsOver(c, t)',
             Is(observedRawRecord[c], seen[c])', UNCHANGED <<inRenew, deadline>>
      PROVE  ClientInv(c)'
  <2>1. /\ call'[c].op = op /\ call'[c].st = "pending" /\ call'[c].rec = r /\ call'[c].at = now
    BY <1>s, <1>t DEF Invoke
  <2>2. call[c].at = now /\ entry[c].confirmed
    BY <1>s DEF ClientInv, GetInv, OwnInv
  <2>3. RestInv(c)' /\ OwnInv(c)' /\ GetInv(c)'
    BY <1>1, <1>3, <1>s, <2>1, <2>2 DEF ClientInv, RestInv, OwnInv, GetInv
  <2>4. Begins(c)'
    BY <1>1, <2>1 DEF Begins
  <2>5. RawIsOver(c, call[c].at)'
    BY <1>s, <2>1, <2>2 DEF RawIsOver
  <2>6. SetInv(c)'
    BY <1>s, <1>t, <2>1, <2>2, <2>4, <2>5 DEF SetInv
  <2> QED
    BY <1>s, <2>3, <2>6 DEF ClientInv
<1>4. CASE CreateRecord(c)
  <2>1. /\ pc[c] = "get" /\ pc'[c] = "set" /\ call[c].st = "notexist"
        /\ Invoke(c, "create", NewRecord(c, call[c].at, 0))
        /\ UNCHANGED <<inRenew, deadline, observedRawRecord, observedRecord, observedTime>>
    BY <1>4, <1>t DEF CreateRecord, observedVars
  <2>2. seen[c] = 0 /\ observedRawRecord[c] = ZeroRecord
    BY <2>1 DEF ClientInv, GetInv
  <2>3. \A e \in Rows : e.time = 0 => e.rec = ZeroRecord
    BY RowsHave DEF RowsInv, Agree, Row, NoEntry
  <2>4. Is(observedRawRecord[c], seen[c])'
    BY <1>1, <1>2, <2>1, <2>2, <2>3 DEF Is
  <2>5. ObservedInv(c)' /\ \A t : RawIsOver(c, t)'
    BY <1>1, <2>1, <2>2 DEF ClientInv, ObservedInv, IsLeader, RawIsOver, ZeroRecord
  <2>6. \A r : r = NewRecord(c, call[c].at, 0) =>
          r.holder = c /\ r.dur = LeaseDuration /\ r.renew = call[c].at
    BY DEF NewRecord
  <2> QED
    BY <1>s, <2>1, <2>4, <2>5, <2>6
<1>5. CASE LeaseHeld(c)
  <2>1. pc[c] = "get" /\ call[c].st = "ok" /\ Observe(c, call[c].rec) /\ TryFails(c)
    BY <1>5 DEF LeaseHeld
  <2>2. ObservedInv(c)'
    BY <1>1, <2>1, StoreObserve
  <2>3. entry[c].confirmed
    BY <2>1 DEF ClientInv, OwnInv
  <2> QED
    BY <1>f, <2>1, <2>2, <2>3
<1>6. CASE TakeOrRenew(c)
  <2>1. /\ pc[c] = "get" /\ pc'[c] = "set" /\ call[c].st = "ok" /\ Observe(c, call[c].rec)
        /\ ~HeldByOther(c, call[c].rec, call[c].at) /\ UNCHANGED <<inRenew, deadline>>
    BY <1>6, <1>t DEF TakeOrRenew
  <2>2. PICK n : Invoke(c, "update", NewRecord(c, call[c].at, n))
    BY <1>6 DEF TakeOrRenew
  <2>3. /\ ObservedInv(c)' /\ observedRawRecord'[c] = call[c].rec
        /\ \A t : t = call[c].at => RawIsOver(c, t)'
    BY <1>1, <2>1, StoreObserve
  <2>4. Is(observedRawRecord[c], seen[c])'
    BY <1>1, <1>2, <2>1, <2>3 DEF ClientInv, GetInv, Is
  <2>5. \A r : r = NewRecord(c, call[c].at, n) =>
          r.holder = c /\ r.dur = LeaseDuration /\ r.renew = call[c].at
    BY DEF NewRecord
  <2> QED
    BY <1>s, <2>1, <2>2, <2>3, <2>4, <2>5
<1>7. CASE SetSucceeds(c)
  <2>1. /\ pc[c] = "set" /\ call[c].st = "ok" /\ pc'[c] = "wait" /\ inRenew'[c] = TRUE
        /\ call'[c].op = "none" /\ observedRecord'[c] = call[c].rec /\ observedTime'[c] = now
        /\ UNCHANGED observedRawRecord
    BY <1>7, <1>t DEF SetSucceeds, SetObservedRecord, Return, Idle
  <2>2. /\ entry[c].confirmed /\ entry[c].rec.renew >= call[c].at /\ entry[c].time # 0
        /\ RawIsOver(c, call[c].at) /\ observedTime[c] <= now
    BY <1>0, <2>1 DEF ClientInv, OwnInv, SetInv, Begins, Waits, ElectorInv, TimersInv
  <2>3. RestInv(c)' /\ OwnInv(c)' /\ GetInv(c)' /\ SetInv(c)'
    BY <1>1, <1>3, <2>1, <2>2 DEF RestInv, OwnInv, GetInv, SetInv
  <2>4. RawIsOver(c, entry[c].rec.renew)'
    BY <1>1, <1>t, <2>1, <2>2 DEF RawIsOver
  <2>5. ObservedInv(c)'
    BY <1>1, <1>t, <2>1, <2>2, <2>4 DEF ClientInv, ObservedInv
  <2> QED
    BY <2>3, <2>5 DEF ClientInv
<1>8. CASE CallFails(c) /\ Fails(c)
  <2>1. ObservedInv(c)' /\ CtxDone(c)
    BY <1>1, <1>8
       DEF CallFails, observedVars, Fails, CallCtxDone, ClientInv, ObservedInv, IsLeader, RawIsOver
  <2> QED
    BY <1>8, <1>f, <2>1 DEF CallFails
<1>9. ~ReleaseSucceeds(c) /\ ~ReleaseFails(c)
  BY <1>3 DEF ReleaseSucceeds, ReleaseFails, ReleaseEnds
<1> QED
  BY <1>4, <1>5, <1>6, <1>7, <1>8, <1>9 DEF Resume, Fail

\* The process dies.
LEMMA StoreCrash ==
    ASSUME LocalInv, RowsInv, NEW c \in Client, Die(c), UNCHANGED now
    PROVE  RowsInv' /\ Rows' \subseteq Rows /\ ClientInv(c)'
<1>0. InterfaceTypeOK /\ ElectorTypeOK /\ GossipTypeOK
  BY DEF LocalInv, TypeOK
<1>1. /\ entry' = [entry EXCEPT ![c] = NoEntry] /\ UNCHANGED sent
      /\ entry'[c] = NoEntry /\ on'[c] = 0 /\ seen'[c] = 0
      /\ pc'[c] = "off" /\ observedRecord'[c] = ZeroRecord /\ observedRawRecord'[c] = ZeroRecord
      /\ observedTime'[c] = 0 /\ call'[c] = Idle /\ deadline'[c] = Never
  BY <1>0 DEF Die, Crash, ClientGone, InterfaceTypeOK, ElectorTypeOK, GossipTypeOK
<1>2. RowsInv' /\ Rows' \subseteq Rows
  <2>1. \A d \in Client : Row(entry'[d]) \in Rows
    BY <1>0, <1>1, RowsHave DEF GossipTypeOK
  <2>2. \A d \in Client : \A e \in sent'[d] : Row(e) \in Rows /\ e.confirmed
    BY <1>1, RowsHave DEF RowsInv
  <2> QED
    BY <2>1, <2>2, RowsMoved
<1>3. ClientInv(c)'
  BY <1>1, LockAssumption
     DEF ClientInv, RestInv, OwnInv, ObservedInv, GetInv, SetInv, NoEntry, ZeroRecord, Idle,
         IsLeader, RawIsOver
<1> QED
  BY <1>2, <1>3

-----------------------------------------------------------------------------
\* What a step of the store of c keeps of all clients.
StoreKept(c) ==
    /\ RowsInv' /\ (\A e \in Rows' : e \in Rows \/ e.time > sets)
    /\ ClientInv(c)'

\* The Get of c is answered with the entry of its map, or waits for it.
LEMMA StoreGet ==
    ASSUME ~ReleaseOnCancel, LocalInv, RowsInv, NEW c \in Client, ClientInv(c),
           GetReturns(c) \/ GetWaits(c), UNCHANGED <<now, cancelled, deadline, electorVars>>
    PROVE  StoreKept(c)
<1> USE DEF electorVars, observedVars
<1>0. InterfaceTypeOK /\ ElectorTypeOK /\ GossipTypeOK /\ ElectorInv(c)
  BY DEF LocalInv, TypeOK
<1>t. /\ call \in [Client -> Call] /\ seen \in [Client -> 0..sets] /\ on \in [Client -> 0..sets]
      /\ entry[c] \in Entry /\ now \in Nat
  BY <1>0, ClientTypes DEF InterfaceTypeOK, GossipTypeOK
<1>p. pc[c] = "get"
  BY <1>0, NoReleaseCalls DEF GetReturns, GetWaits
<1>r. UNCHANGED <<entry, sent, sets, up, raced>>
  BY DEF GetReturns, GetWaits
<1>1. Rows' = Rows /\ RowsInv'
  BY <1>r DEF Rows, RowsInv, Stored, Agree
<1>2. SetInv(c)'
  BY <1>p DEF SetInv
<1>3. CASE GetReturns(c)
  <2>1. /\ call'[c].st = IF entry[c] = NoEntry THEN "notexist" ELSE "ok"
        /\ call'[c].rec = entry[c].rec /\ call'[c].at = call[c].at /\ call'[c].op = "get"
        /\ seen'[c] = entry[c].time /\ entry[c].confirmed /\ UNCHANGED on
    BY <1>3, <1>t DEF GetReturns, Answer
  <2>2. Row(entry[c]) \in Rows /\ Row(entry[c]) = [time |-> entry[c].time, rec |-> entry[c].rec]
    BY RowsHave DEF Row
  <2>3. entry[c].time = 0 => entry[c].rec = ZeroRecord
    BY <2>2, RowsHave DEF RowsInv, Agree, Row, NoEntry
  <2>4. entry[c] = NoEntry <=> entry[c].time = 0
    <3>1. entry[c].time = 0 => entry[c] = [rec |-> ZeroRecord, time |-> 0, confirmed |-> TRUE]
      BY <1>t, <2>1, <2>3 DEF Entry
    <3> QED
      BY <3>1 DEF NoEntry
  <2>5. entry[c].time # 0 => Stored(entry[c].rec)
    BY <2>2 DEF RowsInv
  <2>6. \A e \in Rows : e.time = entry[c].time => e.rec = entry[c].rec
    BY <2>2 DEF RowsInv, Agree
  <2>7. ObservedInv(c)' /\ RestInv(c)' /\ OwnInv(c)'
    BY <1>t, <1>r, <2>1, ClientTypes
       DEF ClientInv, ObservedInv, RestInv, OwnInv, IsLeader, RawIsOver
  <2>8. Is(call[c].rec, seen[c])'
    BY <1>1, <2>1, <2>6 DEF Is
  <2>9. GetInv(c)'
    <3>1. call'[c].at = now /\ ~Waits(c)'
      BY <1>p, <2>1 DEF ClientInv, GetInv, Waits
    <3>2. IsLeader(c)' => RawIsOver(c, call[c].rec.renew)'
      BY <2>1 DEF ClientInv, ObservedInv, IsLeader, RawIsOver
    <3>3. entry[c].time = 0 => observedRawRecord[c] = ZeroRecord
      BY DEF ClientInv, ObservedInv
    <3>4. entry[c].time # 0 => Stored(call[c].rec)'
      BY <2>1, <2>5 DEF Stored
    <3> QED
      BY <2>1, <2>4, <2>8, <3>1, <3>2, <3>3, <3>4 DEF GetInv
  <2> QED
    BY <1>1, <1>2, <2>7, <2>9 DEF ClientInv, StoreKept
<1>4. CASE GetWaits(c)
  <2>1. /\ UNCHANGED <<call, seen>> /\ call[c].st = "pending" /\ call[c].op = "get"
        /\ ~entry[c].confirmed
    BY <1>4 DEF GetWaits, Begins
  <2>2. CtxDone(c)
    BY <1>p, <2>1 DEF ClientInv, OwnInv
  <2>3. GetInv(c)'
    BY <1>p, <2>1, <2>2 DEF ClientInv, GetInv, CtxDone
  <2>4. ObservedInv(c)' /\ RestInv(c)' /\ OwnInv(c)'
    BY <1>p, <1>r, <2>1, <2>2
       DEF ClientInv, ObservedInv, RestInv, OwnInv, IsLeader, RawIsOver, CtxDone
  <2> QED
    BY <1>1, <1>2, <2>3, <2>4 DEF ClientInv, StoreKept
<1> QED
  BY <1>3, <1>4

\* A Create or Update sets the newest entry.
LEMMA StoreSet ==
    ASSUME ~ReleaseOnCancel, LocalInv, RowsInv, NEW c \in Client, ClientInv(c),
           Set(c), UNCHANGED <<now, cancelled, deadline, electorVars>>
    PROVE  StoreKept(c)
<1> USE DEF electorVars, observedVars
<1>0. InterfaceTypeOK /\ ElectorTypeOK /\ GossipTypeOK /\ ElectorInv(c)
  BY DEF LocalInv, TypeOK
<1> DEFINE e == [rec |-> call[c].rec, time |-> sets + 1, confirmed |-> FALSE]
<1>t. /\ call[c].rec \in Record /\ sets \in Nat /\ now \in Nat /\ call[c].at \in Nat
      /\ seen[c] \in 0..sets /\ call[c].rec.renew \in Nat
      /\ on \in [Client -> 0..sets] /\ entry \in [Client -> Entry]
      /\ sent \in [Client -> SUBSET Entry]
  BY <1>0, ClientTypes DEF GossipTypeOK
<1>p. pc[c] = "set"
  BY <1>0, NoReleaseCalls DEF Set
<1>1. /\ call[c].rec.holder = c /\ call[c].rec.dur = LeaseDuration /\ call[c].rec.renew = now
      /\ call[c].at = now /\ RawIsOver(c, call[c].at) /\ Begins(c) /\ call[c].st = "pending"
  BY <1>p DEF ClientInv, SetInv, Set, Begins
<1>2. e \in Entry /\ Row(e) = [time |-> sets + 1, rec |-> call[c].rec]
  BY <1>t DEF Entry, Row
<1>3. /\ entry' = [entry EXCEPT ![c] = e] /\ sets' = sets + 1 /\ UNCHANGED <<call, up, seen>>
      /\ on' = [on EXCEPT ![c] = sets + 1]
      /\ sent' = [sent EXCEPT ![c] = IF alone[c] THEN @ ELSE Send(@, e)]
  BY DEF Set
<1> HIDE DEF e
<1>4. /\ entry'[c] = e /\ e.time = sets + 1 /\ e.rec = call[c].rec /\ ~e.confirmed
      /\ on'[c] = sets + 1
  BY <1>t, <1>3 DEF e
<1>5. Rows' \subseteq Rows \cup {Row(e)}
  <2>1. \A d \in Client : Row(entry'[d]) \in Rows \cup {Row(e)}
    BY <1>t, <1>3, RowsHave
  <2>2. \A d \in Client : \A f \in sent'[d] : Row(f) \in Rows \cup {Row(e)}
    BY <1>2, <1>3, <1>t, RowsHave, SendRows
  <2> QED
    BY <2>1, <2>2, RowsHave DEF Rows
<1>6. RowsInv'
  <2>1. \A f \in Rows : f.time <= sets /\ f.time \in Nat /\ f.rec.renew \in Nat /\ f.rec.renew <= now
    <3>1. \A f \in Rows : f.time \in 0..sets /\ f.rec.renew \in Nat
      BY RowsType
    <3>2. \A f \in Rows : f.time = 0 => f.rec.renew = 0
      BY RowsHave DEF RowsInv, Agree, Row, NoEntry, ZeroRecord
    <3> QED
      BY <1>t, <3>1, <3>2 DEF RowsInv, Stored
  <2>2. Stored(call[c].rec)
    BY <1>1, <1>t DEF Stored
  <2>3. \A f \in Rows' : f.time # 0 => Stored(f.rec)'
    BY <1>2, <1>5, <2>2 DEF RowsInv, Stored
  <2>4. \A f, g \in Rows' : Agree(f, g)
    BY <1>1, <1>2, <1>5, <1>t, <2>1 DEF RowsInv, Agree
  <2>5. \A d \in Client : \A f \in sent'[d] : f.confirmed
    BY <1>2, <1>3, <1>t, SendRows DEF RowsInv
  <2> QED
    BY <2>3, <2>4, <2>5 DEF RowsInv, Agree
<1>7. \A f \in Rows' : f \in Rows \/ f.time > sets
  BY <1>2, <1>5, <1>t
<1>8. RestInv(c)' /\ GetInv(c)'
  <2>1. call[c].op # "none" /\ up[c]
    BY <1>p DEF Set, IsWrite, ClientInv, RestInv
  <2> QED
    BY <1>p, <1>3, <2>1 DEF ClientInv, RestInv, GetInv
<1>9. OwnInv(c)'
  BY <1>1, <1>3, <1>4, <1>p, <1>t DEF OwnInv, Waits
<1>10. ObservedInv(c)'
  <2>1. RawIsOver(c, entry[c].rec.renew)'
    BY <1>1, <1>4 DEF RawIsOver
  <2> QED
    BY <1>3, <1>4, <1>t, <2>1 DEF ClientInv, ObservedInv
<1>11. SetInv(c)'
  <2>1. ~Begins(c)'
    BY <1>4, <1>t DEF Begins
  <2> QED
    BY <1>1, <1>3, <1>4, <1>t, <2>1 DEF SetInv, RawIsOver
<1> QED
  BY <1>6, <1>7, <1>8, <1>9, <1>10, <1>11 DEF ClientInv, StoreKept

\* The entry of c is confirmed, and the call that waits for it is answered.
LEMMA StoreConfirmed ==
    ASSUME ~ReleaseOnCancel, LocalInv, RowsInv, NEW c \in Client, ClientInv(c),
           UNCHANGED <<now, cancelled, deadline, electorVars, sets, up, sent, on>>,
           NEW e \in Entry, Row(e) = Row(entry[c]), e.confirmed,
           entry' = [entry EXCEPT ![c] = e], up[c],
           \/ UNCHANGED <<call, seen>>
           \/ Waits(c) /\ Answer(c, "ok", call[c].rec, 0) /\ pc[c] = "set" /\ UNCHANGED seen
           \/ /\ Waits(c) /\ Answer(c, "ok", entry[c].rec, 0) /\ pc[c] = "get"
              /\ on[c] = entry[c].time /\ seen' = [seen EXCEPT ![c] = e.time]
    PROVE  StoreKept(c)
<1> USE DEF electorVars, observedVars
<1>0. InterfaceTypeOK /\ ElectorTypeOK /\ GossipTypeOK /\ ElectorInv(c)
  BY DEF LocalInv, TypeOK
<1>t. /\ call \in [Client -> Call] /\ seen \in [Client -> 0..sets]
      /\ entry \in [Client -> Entry] /\ sets \in Nat /\ now \in Nat /\ on[c] \in 0..sets
      /\ entry[c].time \in 0..sets
  BY <1>0, ClientTypes DEF InterfaceTypeOK, GossipTypeOK
<1>1. entry'[c] = e /\ e.time = entry[c].time /\ e.rec = entry[c].rec
  BY <1>t DEF Row
<1>2. RowsInv' /\ Rows' \subseteq Rows
  <2>1. \A d \in Client : Row(entry'[d]) \in Rows
    BY <1>t, RowsHave
  <2>2. \A d \in Client : \A f \in sent'[d] : Row(f) \in Rows /\ f.confirmed
    BY RowsHave DEF RowsInv
  <2> QED
    BY <2>1, <2>2, RowsMoved
<1>3. OwnInv(c)'
  BY <1>1 DEF OwnInv
<1>4. seen'[c] \in {seen[c], entry[c].time}
  BY <1>t, <1>1
<1>5. ObservedInv(c)'
  <2>1. seen'[c] <= entry'[c].time
    BY <1>1, <1>4, <1>t DEF ClientInv, ObservedInv
  <2> QED
    BY <1>1, <2>1 DEF ClientInv, ObservedInv, IsLeader, RawIsOver
<1>6. RestInv(c)'
  BY <1>t DEF ClientInv, RestInv, Answer
<1>7. CASE UNCHANGED <<call, seen>>
  <2>1. /\ Is(call[c].rec, seen[c]) => Is(call[c].rec, seen[c])'
        /\ Is(observedRawRecord[c], seen[c]) => Is(observedRawRecord[c], seen[c])'
    BY <1>2, <1>7 DEF Is
  <2>2. GetInv(c)'
    BY <1>7, <2>1 DEF ClientInv, GetInv, Stored, Waits, CtxDone, IsLeader, RawIsOver
  <2>3. SetInv(c)'
    BY <1>1, <1>7, <2>1 DEF ClientInv, SetInv, Begins, RawIsOver
  <2> QED
    BY <1>2, <1>3, <1>5, <1>6, <2>2, <2>3 DEF ClientInv, StoreKept
<1>8. CASE Waits(c) /\ Answer(c, "ok", call[c].rec, 0) /\ pc[c] = "set" /\ UNCHANGED seen
  <2>1. /\ call'[c].st = "ok" /\ call'[c].rec = call[c].rec /\ call'[c].at = call[c].at
        /\ ~Begins(c) /\ ~Begins(c)'
    BY <1>8, <1>t DEF Answer, Waits, Begins
  <2>2. GetInv(c)'
    BY <1>8 DEF GetInv
  <2>3. SetInv(c)'
    BY <1>1, <1>8, <2>1 DEF ClientInv, SetInv, RawIsOver
  <2> QED
    BY <1>2, <1>3, <1>5, <1>6, <2>2, <2>3 DEF ClientInv, StoreKept
<1>9. CASE /\ Waits(c) /\ Answer(c, "ok", entry[c].rec, 0) /\ pc[c] = "get"
           /\ on[c] = entry[c].time /\ seen' = [seen EXCEPT ![c] = e.time]
  <2>1. /\ call'[c].st = "ok" /\ call'[c].rec = entry[c].rec /\ call'[c].at = call[c].at
        /\ seen'[c] = entry[c].time /\ entry[c].time # 0 /\ call[c].at = now
    BY <1>1, <1>9, <1>t DEF Answer, Waits, ClientInv, GetInv
  <2>2. /\ Row(entry[c]) \in Rows /\ Row(entry[c]).time = entry[c].time
        /\ Row(entry[c]).rec = entry[c].rec
    BY RowsHave DEF Row
  <2>3. Stored(call[c].rec)'
    BY <2>1, <2>2 DEF RowsInv, Stored
  <2>4. Is(call[c].rec, seen[c])'
    BY <1>2, <2>1, <2>2 DEF RowsInv, Agree, Is
  <2>5. IsLeader(c)' => RawIsOver(c, call[c].rec.renew)'
    BY <2>1 DEF ClientInv, ObservedInv, IsLeader, RawIsOver
  <2>6. GetInv(c)' /\ SetInv(c)'
    BY <1>9, <2>1, <2>3, <2>4, <2>5 DEF GetInv, SetInv, Waits
  <2> QED
    BY <1>2, <1>3, <1>5, <1>6, <2>6 DEF ClientInv, StoreKept
<1> QED
  BY <1>7, <1>8, <1>9

\* Whoever confirms the entry.
LEMMA StoreConfirm ==
    ASSUME ~ReleaseOnCancel, LocalInv, RowsInv, NEW c \in Client, ClientInv(c),
           UNCHANGED <<now, cancelled, deadline, electorVars>>,
           \/ ConfirmAlone(c)
           \/ \E d \in Client : \E e \in sent[d] : ArrivesSame(c, e)
    PROVE  StoreKept(c)
<1>0. ElectorTypeOK /\ ElectorInv(c) /\ GossipTypeOK
  BY DEF LocalInv, TypeOK
<1>p. IsWrite(c) <=> pc[c] = "set"
  BY <1>0, NoReleaseCalls
<1>t. entry[c] \in Entry
  BY ClientTypes
<1>1. CASE ConfirmAlone(c)
  <2> DEFINE e == [entry[c] EXCEPT !.confirmed = TRUE]
  <2>1. e \in Entry /\ Row(e) = Row(entry[c]) /\ e.confirmed
    BY <1>t DEF Entry, Row
  <2>2. /\ entry' = [entry EXCEPT ![c] = e] /\ Waits(c) /\ pc[c] = "set"
        /\ Answer(c, "ok", call[c].rec, 0) /\ UNCHANGED <<sets, up, sent, on, seen>>
    BY <1>1, <1>p DEF ConfirmAlone, Confirm
  <2>3. up[c]
    BY <2>2 DEF ClientInv, RestInv
  <2> HIDE DEF e
  <2> QED
    BY <2>1, <2>2, <2>3, StoreConfirmed
<1>2. ASSUME NEW d \in Client, NEW e \in sent[d], ArrivesSame(c, e) PROVE StoreKept(c)
  <2>1. e \in Entry /\ e.confirmed /\ Row(e) \in Rows /\ Row(entry[c]) \in Rows
    BY <1>0, RowsHave DEF GossipTypeOK, RowsInv
  <2>2. /\ entry' = [entry EXCEPT ![c] = e] /\ up[c] /\ e.time = entry[c].time
        /\ UNCHANGED <<sets, up, sent, on>>
    BY <1>2 DEF ArrivesSame, Arrives
  <2>3. Row(e) = Row(entry[c])
    BY <2>1, <2>2 DEF RowsInv, Agree, Row
  <2>4. \/ UNCHANGED <<call, seen>>
        \/ Waits(c) /\ Answer(c, "ok", call[c].rec, 0) /\ pc[c] = "set" /\ UNCHANGED seen
        \/ /\ Waits(c) /\ Answer(c, "ok", entry[c].rec, 0) /\ pc[c] = "get"
           /\ on[c] = entry[c].time /\ seen' = [seen EXCEPT ![c] = e.time]
    <3>1. CASE ~(Waits(c) /\ on[c] = e.time)
      BY <1>2, <3>1 DEF ArrivesSame, Confirm
    <3>2. CASE Waits(c) /\ on[c] = e.time /\ IsWrite(c)
      BY <1>2, <1>0, <1>p, <3>2 DEF ArrivesSame, Confirm, GossipTypeOK
    <3>3. CASE Waits(c) /\ on[c] = e.time /\ ~IsWrite(c)
      <4>1. pc[c] = "get"
        BY <1>0, <1>p, <3>3, <2>2, NoReleaseCalls
           DEF IsWrite, Waits, ClientInv, RestInv, LocalInv, TypeOK, InterfaceTypeOK, Call
      <4> QED
        BY <1>2, <2>2, <3>3, <4>1 DEF ArrivesSame, Confirm
    <3> QED
      BY <3>1, <3>2, <3>3
  <2> QED
    BY <2>1, <2>2, <2>3, <2>4, StoreConfirmed
<1> QED
  BY <1>1, <1>2

\* A newer entry replaces that of c, or c joins and takes over a map, or what a
\* node has is sent.
LEMMA StoreMoves ==
    ASSUME ~ReleaseOnCancel, LocalInv, RowsInv, NEW c \in Client, ClientInv(c),
           UNCHANGED <<now, cancelled, deadline, electorVars>>,
           \/ \E d \in Client : \E e \in sent[d] : ArrivesNewer(c, e)
           \/ Join(c)
           \/ Reunited(c)
    PROVE  StoreKept(c)
<1> USE DEF electorVars, observedVars
<1>0. InterfaceTypeOK /\ ElectorTypeOK /\ GossipTypeOK /\ ElectorInv(c)
  BY DEF LocalInv, TypeOK
<1>t. /\ entry \in [Client -> Entry] /\ sent \in [Client -> SUBSET Entry]
      /\ up \in [Client -> BOOLEAN]
  BY <1>0 DEF GossipTypeOK
<1>c. UNCHANGED <<call, on, seen, sets>>
  BY DEF ArrivesNewer, Join, Reunited
<1>s. ASSUME NEW f \in Entry, Row(f) \in Rows, NEW d \in Client, NEW g \in Send(sent[d], f)
      PROVE  Row(g) \in Rows /\ g.confirmed
  BY <1>s, SendRows, RowsHave DEF RowsInv
<1>u. ASSUME NEW f \in Entry, Row(f) \in Rows, f.time >= entry[c].time,
             f.confirmed \/ f = entry[c], entry'[c] = f,
             up'[c] \/ UNCHANGED <<up, entry>>, Rows' \subseteq Rows
      PROVE  ClientInv(c)'
  <2>1. /\ Row(entry[c]) \in Rows /\ f.rec.renew \in Nat /\ f.time \in Nat
        /\ entry[c].time \in Nat /\ entry[c].rec.renew \in Nat /\ seen[c] \in Nat
        /\ observedRawRecord[c].renew \in Nat /\ LeaseDuration \in Nat /\ call[c].at \in Nat
    BY <1>u, RowsHave, ClientTypes DEF Entry, Record
  <2>2. f.rec.renew >= entry[c].rec.renew
    BY <1>u, <2>1 DEF RowsInv, Agree, Row
  <2>3. RestInv(c)' /\ OwnInv(c)'
    BY <1>c, <1>u DEF ClientInv, RestInv, OwnInv, CtxDone, Waits
  <2>4. ObservedInv(c)'
    BY <1>c, <1>u, <2>1, <2>2 DEF ClientInv, ObservedInv, IsLeader, RawIsOver
  <2>5. /\ Is(call[c].rec, seen[c]) => Is(call[c].rec, seen[c])'
        /\ Is(observedRawRecord[c], seen[c]) => Is(observedRawRecord[c], seen[c])'
    BY <1>c, <1>u DEF Is
  <2>6. GetInv(c)'
    BY <1>c, <2>5 DEF ClientInv, GetInv, Stored, Waits, CtxDone, IsLeader, RawIsOver
  <2>7. SetInv(c)'
    BY <1>c, <1>u, <2>1, <2>2, <2>5 DEF ClientInv, SetInv, Begins, RawIsOver
  <2> QED
    BY <2>3, <2>4, <2>6, <2>7 DEF ClientInv
<1>1. ASSUME NEW d \in Client, NEW e \in sent[d], ArrivesNewer(c, e) PROVE StoreKept(c)
  <2>1. e \in Entry /\ Row(e) \in Rows /\ e.confirmed
    BY <1>t, RowsHave DEF RowsInv
  <2>2. /\ entry' = [entry EXCEPT ![c] = e] /\ e.time > entry[c].time /\ up[c] /\ UNCHANGED up
        /\ sent' = [sent EXCEPT ![c] = IF alone[c] THEN @ ELSE Send(@, e)]
    BY <1>1 DEF ArrivesNewer, Arrives
  <2>3. RowsInv' /\ Rows' \subseteq Rows
    <3>1. \A f \in Client : Row(entry'[f]) \in Rows
      BY <1>t, <2>1, <2>2, RowsHave
    <3>2. \A f \in Client : \A g \in sent'[f] : Row(g) \in Rows /\ g.confirmed
      BY <1>s, <1>t, <2>1, <2>2, RowsHave DEF RowsInv
    <3> QED
      BY <3>1, <3>2, RowsMoved
  <2>4. e.time >= entry[c].time /\ entry'[c] = e
    BY <1>t, <2>1, <2>2 DEF Entry
  <2> QED
    BY <1>u, <2>1, <2>2, <2>3, <2>4 DEF StoreKept
<1>2. CASE Join(c)
  <2>1. PICK d \in Client :
          /\ entry' = [entry EXCEPT ![c] = Heard(entry[d])]
          /\ sent' = [sent EXCEPT ![d] = Send(@, entry[d])]
    BY <1>2 DEF Join, Others
  <2>2. Heard(entry[d]) \in Entry /\ Row(Heard(entry[d])) = Row(entry[d]) /\ Heard(entry[d]).confirmed
    BY <1>t DEF Heard, Entry, Row
  <2>3. RowsInv' /\ Rows' \subseteq Rows
    <3>1. \A f \in Client : Row(entry'[f]) \in Rows
      BY <1>t, <2>1, <2>2, RowsHave
    <3>2. \A f \in Client : \A g \in sent'[f] : Row(g) \in Rows /\ g.confirmed
      BY <1>s, <1>t, <2>1, RowsHave DEF RowsInv
    <3> QED
      BY <3>1, <3>2, RowsMoved
  <2>4. up'[c] /\ entry'[c] = Heard(entry[d]) /\ Heard(entry[d]).time >= entry[c].time
    <3>1. entry[c].time = 0
      BY <1>2 DEF Join, ClientInv, RestInv, NoEntry
    <3>2. Heard(entry[d]).time \in Nat
      BY <2>2 DEF Entry
    <3> QED
      BY <1>2, <1>t, <2>1, <3>1, <3>2 DEF Join
  <2> QED
    BY <1>u, <2>2, <2>3, <2>4, RowsHave DEF StoreKept
<1>3. CASE Reunited(c)
  <2>1. UNCHANGED <<entry, up>>
    BY <1>3 DEF Reunited
  <2>2. RowsInv' /\ Rows' \subseteq Rows
    <3>1. \A f \in Client : Row(entry'[f]) \in Rows
      BY <2>1, RowsHave
    <3>2. \A f \in Client : \A g \in sent'[f] : g \in sent[f] \/ g \in Send(sent[f], entry[f])
      BY <1>3 DEF Reunited
    <3>3. \A f \in Client : \A g \in sent'[f] : Row(g) \in Rows /\ g.confirmed
      BY <1>s, <1>t, <3>2, RowsHave DEF RowsInv
    <3> QED
      BY <3>1, <3>3, RowsMoved
  <2>3. entry[c].time >= entry[c].time /\ entry[c] \in Entry
    BY ClientTypes
  <2> QED
    BY <1>u, <2>1, <2>2, <2>3, RowsHave DEF StoreKept
<1> QED
  BY <1>1, <1>2, <1>3

-----------------------------------------------------------------------------
\* A step of the store of c leaves the other clients alone.
LEMMA StoreStepOthers ==
    ASSUME LocalInv, NEW c \in Client, StoreStep(c), NEW d \in Client, d # c,
           UNCHANGED <<now, cancelled, deadline, electorVars>>
    PROVE  SameClient(d)
<1>0. InterfaceTypeOK /\ GossipTypeOK
  BY DEF LocalInv, TypeOK
<1>1. SameElector(d)
  BY DEF electorVars, observedVars, SameElector
<1>2. call'[d] = call[d]
  BY <1>0 DEF StoreStep, GetReturns, GetWaits, Set, ConfirmAlone, ArrivesSame, ArrivesNewer, Join,
              Reunited, Confirm, Answer, InterfaceTypeOK
<1>3. up'[d] = up[d] /\ entry'[d] = entry[d] /\ on'[d] = on[d] /\ seen'[d] = seen[d]
  <2>1. CASE GetReturns(c) \/ GetWaits(c) \/ Set(c) \/ ConfirmAlone(c) \/ Reunited(c) \/ Join(c)
    BY <1>0, <2>1 DEF GetReturns, GetWaits, Set, ConfirmAlone, Reunited, Join, GossipTypeOK
  <2>2. ASSUME NEW e, ArrivesSame(c, e) \/ ArrivesNewer(c, e)
        PROVE  up'[d] = up[d] /\ entry'[d] = entry[d] /\ on'[d] = on[d] /\ seen'[d] = seen[d]
    BY <1>0, <2>2 DEF ArrivesSame, ArrivesNewer, GossipTypeOK
  <2> QED
    BY <2>1, <2>2 DEF StoreStep
<1> QED
  BY <1>1, <1>2, <1>3 DEF SameClient

\* A step of the elector of c, or its death, does so, too.
LEMMA ElectorStepOthers ==
    ASSUME LocalInv, NEW c \in Client, ElectorStep(c) \/ Die(c), NEW d \in Client, d # c
    PROVE  SameClient(d)
<1>0. InterfaceTypeOK /\ ElectorTypeOK /\ GossipTypeOK
  BY DEF LocalInv, TypeOK
<1>1. SameElector(d) /\ call'[d] = call[d]
  BY <1>0, OtherElectors DEF ElectorStep, Die
<1>2. up'[d] = up[d] /\ entry'[d] = entry[d] /\ on'[d] = on[d] /\ seen'[d] = seen[d]
  BY <1>0 DEF ElectorStep, Die, gossipVars, Returns, Fails, CallOver, ClientGone, GossipTypeOK
<1> QED
  BY <1>1, <1>2 DEF SameClient

\* Every step preserves StoreInv.
LEMMA StoreInvStep ==
    ASSUME ~ReleaseOnCancel, StoreInv, [Next]_vars PROVE StoreInv'
<1>0. LocalInv /\ RowsInv /\ LocalInv' /\ \A c \in Client : ClientInv(c)
  BY LocalStep DEF StoreInv
<1>1. CASE Tick
  <2>1. RowsInv'
    <3>1. UNCHANGED <<entry, sent>> /\ now' = now + 1
      BY <1>1 DEF Tick, gossipVars
    <3>2. Rows' = Rows
      BY <3>1 DEF Rows
    <3>3. \A r \in Record : Stored(r) => Stored(r)'
      BY <1>0, <3>1, LockAssumption DEF Stored, Record, LocalInv, TypeOK, InterfaceTypeOK
    <3> QED
      BY <1>0, <3>1, <3>2, <3>3, RowsType DEF RowsInv, Agree
  <2> QED
    BY <1>0, <1>1, <2>1, StoreTick DEF StoreInv
<1>2. ASSUME NEW c \in Client, ElectorStep(c), UNCHANGED now PROVE StoreInv'
  <2>1. UNCHANGED <<entry, sent>>
    BY <1>2 DEF ElectorStep, gossipVars, Returns, Fails, CallOver
  <2>2. Rows' = Rows /\ RowsInv'
    BY <1>0, <1>2, <2>1 DEF Rows, RowsInv, Stored, Agree
  <2>3. ClientInv(c)'
    BY <1>0, <1>2, StoreProceed, StoreResume DEF ElectorStep
  <2>4. ASSUME NEW d \in Client, d # c PROVE ClientInv(d)'
    BY <1>0, <1>2, <2>2, <2>4, ElectorStepOthers, SameClientKept
  <2> QED
    BY <1>0, <2>2, <2>3, <2>4 DEF StoreInv
<1>3. ASSUME NEW c \in Client, Die(c), UNCHANGED now PROVE StoreInv'
  <2>1. RowsInv' /\ Rows' \subseteq Rows /\ ClientInv(c)'
    BY <1>0, <1>3, StoreCrash
  <2>2. ASSUME NEW d \in Client, d # c PROVE ClientInv(d)'
    BY <1>0, <1>3, <2>1, <2>2, ElectorStepOthers, SameClientKept
  <2> QED
    BY <1>0, <2>1, <2>2 DEF StoreInv
<1>4. ASSUME NEW c \in Client, StoreStep(c), UNCHANGED <<now, cancelled, deadline, electorVars>>
      PROVE  StoreInv'
  <2>1. StoreKept(c)
    BY <1>0, <1>4, StoreGet, StoreSet, StoreConfirm, StoreMoves DEF StoreStep
  <2>2. ASSUME NEW d \in Client, d # c PROVE ClientInv(d)'
    BY <1>0, <1>4, <2>1, <2>2, StoreStepOthers, SameClientKept DEF StoreKept
  <2> QED
    BY <1>0, <2>1, <2>2 DEF StoreInv, StoreKept
<1>5. ASSUME UNCHANGED <<now, cancelled, deadline, call, up, entry, sent, on, seen>>,
             UNCHANGED <<pc, inRenew, wake, observedVars, reportedLeader, metric, leading>>
      PROVE  StoreInv'
  <2>1. Rows' = Rows /\ RowsInv'
    BY <1>0, <1>5 DEF Rows, RowsInv, Stored, Agree
  <2>2. ASSUME NEW d \in Client PROVE ClientInv(d)'
    <3>1. SameClient(d)
      BY <1>5 DEF SameClient, SameElector, observedVars
    <3> QED
      BY <1>0, <1>5, <2>1, <3>1, SameClientKept
  <2> QED
    BY <1>0, <2>1, <2>2 DEF StoreInv
<1>6. ASSUME NEW c \in Client, TakenForDead(c), UNCHANGED <<now, cancelled, deadline>>
      PROVE  StoreInv'
  BY <1>5, <1>6 DEF TakenForDead, Isolated
<1>7. CASE UNCHANGED vars
  BY <1>5, <1>7 DEF vars, interfaceVars, electorVars, gossipVars
<1> QED
  BY <1>1, <1>2, <1>3, <1>4, <1>6, <1>7 DEF Next

\* The initial state satisfies it.
LEMMA StoreInvInit == Init => StoreInv
<1> SUFFICES ASSUME Init PROVE StoreInv
  OBVIOUS
<1>1. /\ entry = [c \in Client |-> NoEntry] /\ sent = [c \in Client |-> {}]
      /\ \A c \in Client : up[c] /\ on[c] = 0 /\ seen[c] = 0
  BY DEF Init, GossipInit
<1>2. Rows = {Row(NoEntry)}
  BY <1>1 DEF Rows
<1>3. RowsInv
  BY <1>1, <1>2 DEF RowsInv, Agree, Row, NoEntry, ZeroRecord
<1>4. ASSUME NEW c \in Client PROVE ClientInv(c)
  <2>1. /\ pc[c] = "off" /\ call[c] = Idle /\ deadline[c] = Never /\ entry[c] = NoEntry
        /\ observedRecord[c] = ZeroRecord /\ observedRawRecord[c] = ZeroRecord
        /\ observedTime[c] = 0
    BY <1>1 DEF Init, InterfaceInit, ElectorInit
  <2> QED
    BY <1>1, <2>1, LockAssumption
       DEF ClientInv, RestInv, OwnInv, ObservedInv, GetInv, SetInv, NoEntry, ZeroRecord, Idle,
           IsLeader, RawIsOver
<1> QED
  BY <1>3, <1>4, LocalInit DEF StoreInv

\* When no one releases, a client that sets the newest entry of the key of
\* lock.go, which it has seen, holds the lease or has waited for its end; the
\* others are told apart by raced.
THEOREM StoreInvariant == ~ReleaseOnCancel => (Spec => []StoreInv)
<1> SUFFICES ASSUME ~ReleaseOnCancel PROVE Spec => []StoreInv
  OBVIOUS
<1>1. Init => StoreInv
  BY StoreInvInit
<1>2. StoreInv /\ [Next]_vars => StoreInv'
  BY StoreInvStep
<1> QED
  BY <1>1, <1>2, PTL DEF Spec

-----------------------------------------------------------------------------
(***************************************************************************)
(* The leaders.                                                            *)
(***************************************************************************)
\* The configuration the rest is about: no releases, and a lease that outlasts
\* the time a leader may act.
SafeConfig == ~ReleaseOnCancel /\ LeaseDuration > LeadTime

\* The durations as numbers.
LEMMA Durations ==
    ASSUME SafeConfig
    PROVE  /\ RequestTimeout \in Nat /\ RetryPeriod \in Nat /\ RenewDeadline \in Nat
           /\ LeaseDuration \in Nat /\ LeadTime \in Nat
           /\ LeadTime = 2 * RequestTimeout + RetryPeriod + RenewDeadline
           /\ LeaseDuration > LeadTime
BY LockAssumption, ElectorAssumption DEF SafeConfig, LeadTime

\* A leader has until LeadEnd, and its lease runs for longer.
LEMMA LeaseRuns ==
    ASSUME SafeConfig, StoreInv, NEW c \in Client
    PROVE  /\ LeadEnd(c) \in Nat
           /\ leading[c] => /\ now <= LeadEnd(c)
                            /\ now < LeadEnd(c) - LeadTime + LeaseDuration
<1>0. LocalInv /\ ElectorInv(c) /\ ~ReleaseOnCancel
  BY DEF StoreInv, LocalInv, SafeConfig
<1>t. /\ now \in Nat /\ wake[c] \in Nat /\ deadline[c] \in Nat /\ RenewDeadline \in Nat
      /\ LeaseDuration \in Nat /\ LeadTime \in Nat /\ LeaseDuration > LeadTime
  BY <1>0, ClientTypes, Durations
<1>1. LeadEnd(c) \in Nat
  BY <1>t DEF LeadEnd
<1>2. ASSUME leading[c] PROVE now <= LeadEnd(c)
  <2>1. pc[c] \in {"wait", "poll", "get", "set"} /\ inRenew[c]
    BY <1>0, <1>2 DEF ElectorInv, GiveUpInv, CallMatches
  <2> QED
    BY <1>0, <1>t, <2>1 DEF ElectorInv, TimersInv, InRound, LeadEnd
<1> QED
  BY <1>t, <1>1, <1>2

\* The last race is never forgotten but for a later one.
LEMMA RacedStep ==
    ASSUME [Next]_vars PROVE raced' = raced \/ raced' = now
BY DEF Next, Tick, ElectorStep, Die, TakenForDead, StoreStep, vars, gossipVars, Returns, Fails,
       CallOver, ClientGone, Isolated, GetReturns, GetWaits, Set, ConfirmAlone, ArrivesSame,
       ArrivesNewer, Join, Reunited

\* A client whose entry is its own set it no later than now.
LEMMA OwnEntry ==
    ASSUME StoreInv, NEW c \in Client, entry[c].rec.holder = c
    PROVE  entry[c].rec.renew <= now
<1>1. LocalInv /\ RowsInv /\ Row(entry[c]) \in Rows /\ Row(NoEntry) \in Rows
  BY RowsHave DEF StoreInv
<1>2. entry[c].time = 0 => entry[c].rec = ZeroRecord
  BY <1>1 DEF RowsInv, Agree, Row, NoEntry
<1> QED
  BY <1>1, <1>2, LockAssumption DEF RowsInv, Row, Stored, ZeroRecord

\* The newest entry stays that of a client whose lease runs, but for a race.
LEMMA NewestKept ==
    ASSUME SafeConfig, StoreInv, [Next]_vars, NEW c \in Client, ~Die(c), NEW t \in Int,
           NewestSince(c, t), now < t + LeaseDuration \/ (t <= raced /\ raced <= now)
    PROVE  NewestSince(c, t)'
<1>0. /\ LocalInv /\ RowsInv /\ ~ReleaseOnCancel /\ (\A d \in Client : ClientInv(d))
      /\ GossipTypeOK /\ ElectorTypeOK /\ (\A d \in Client : ElectorInv(d))
  BY DEF StoreInv, SafeConfig, LocalInv, TypeOK
<1>t. /\ now \in Nat /\ raced \in Nat /\ sets \in Nat /\ LeaseDuration \in Nat
      /\ entry[c].rec.renew \in Nat /\ entry[c].time \in 0..sets /\ entry[c] \in Entry
  BY <1>0, ClientTypes
<1>1. now' = now \/ now' = now + 1
  BY DEF Next, Tick, vars, interfaceVars
<1>2. t <= now
  BY <1>t, OwnEntry DEF NewestSince
<1>3. CASE t <= raced /\ raced <= now
  BY <1>t, <1>1, <1>2, <1>3, RacedStep DEF NewestSince
<1>4. CASE /\ entry[c].time = sets /\ entry[c].rec.holder = c /\ entry[c].rec.renew >= t
           /\ now < t + LeaseDuration
  <2>1. ASSUME sets' = sets, Row(entry'[c]) = Row(entry[c]) PROVE NewestSince(c, t)'
    BY <1>4, <2>1 DEF NewestSince, Row
  <2>2. CASE Tick \/ UNCHANGED vars
    BY <2>1, <2>2 DEF Tick, vars, gossipVars
  <2>3. ASSUME NEW d \in Client, ElectorStep(d) PROVE NewestSince(c, t)'
    BY <2>1, <2>3 DEF ElectorStep, gossipVars, Returns, Fails, CallOver
  <2>4. ASSUME NEW d \in Client, Die(d) PROVE NewestSince(c, t)'
    BY <1>0, <2>1, <2>4, ElectorStepOthers DEF Die, ClientGone, GossipTypeOK
  <2>5. ASSUME NEW d \in Client, TakenForDead(d) PROVE NewestSince(c, t)'
    BY <2>1, <2>5 DEF TakenForDead, Isolated
  <2>6. ASSUME NEW d \in Client, StoreStep(d), ~Set(d), UNCHANGED <<now, cancelled, deadline, electorVars>>
        PROVE  NewestSince(c, t)'
    <3>1. sets' = sets
      BY <2>6 DEF StoreStep, GetReturns, GetWaits, ConfirmAlone, ArrivesSame, ArrivesNewer, Join,
                  Reunited
    <3>2. CASE d # c
      BY <1>0, <2>1, <2>6, <3>1, <3>2, StoreStepOthers DEF SameClient
    <3>3. CASE GetReturns(c) \/ GetWaits(c) \/ Reunited(c)
      BY <2>1, <3>1, <3>3 DEF GetReturns, GetWaits, Reunited
    <3>4. CASE ConfirmAlone(c)
      BY <1>0, <1>t, <2>1, <3>1, <3>4 DEF ConfirmAlone, GossipTypeOK, Row, Entry
    <3>5. ASSUME NEW f \in Client, NEW e \in sent[f], ArrivesSame(c, e) PROVE NewestSince(c, t)'
      <4>1. Row(e) \in Rows /\ Row(entry[c]) \in Rows /\ e.time = entry[c].time /\ entry'[c] = e
        BY <1>0, <3>5, RowsHave DEF ArrivesSame, GossipTypeOK
      <4>2. Row(e) = Row(entry[c])
        BY <1>0, <4>1 DEF RowsInv, Agree, Row
      <4> QED
        BY <2>1, <3>1, <4>1, <4>2
    <3>6. ASSUME NEW f \in Client, NEW e \in sent[f] PROVE ~ArrivesNewer(c, e)
      <4>1. e.time \in Nat /\ e.time <= sets
        BY <1>0 DEF LocalInv, EntriesInv, GossipTypeOK, Entry
      <4> QED
        BY <1>t, <1>4, <4>1 DEF ArrivesNewer
    <3>7. ~Join(c)
      BY <1>0, <1>4, LockAssumption DEF Join, ClientInv, RestInv, NoEntry, ZeroRecord
    <3> QED
      BY <2>6, <3>2, <3>3, <3>4, <3>5, <3>6, <3>7 DEF StoreStep
  <2>7. ASSUME NEW d \in Client, Set(d), UNCHANGED <<now, cancelled, deadline, electorVars>>
        PROVE  NewestSince(c, t)'
    <3>1. pc[d] = "set" /\ Begins(d)
      BY <1>0, <2>7, NoReleaseCalls DEF Set
    <3>2. /\ call[d].at = now /\ call[d].rec.holder = d /\ call[d].rec.renew = now
          /\ Is(observedRawRecord[d], seen[d]) /\ RawIsOver(d, now)
      BY <1>0, <3>1 DEF ClientInv, SetInv
    <3>3. CASE d = c
      BY <1>0, <1>t, <1>2, <2>7, <3>2, <3>3 DEF Set, NewestSince, GossipTypeOK
    <3>4. CASE seen[d] # sets
      BY <1>t, <1>2, <2>7, <3>4 DEF Set, NewestSince
    <3>5. CASE d # c /\ seen[d] = sets
      <4>1. observedRawRecord[d] = entry[c].rec
        BY <1>4, <3>2, <3>5, RowsHave DEF Is, Row
      <4>2. now >= entry[c].rec.renew + LeaseDuration
        BY <1>4, <3>2, <3>5, <4>1, LockAssumption DEF RawIsOver
      <4> QED
        BY <1>t, <1>4, <4>2
    <3> QED
      BY <3>3, <3>4, <3>5
  <2> QED
    BY <2>2, <2>3, <2>4, <2>5, <2>6, <2>7 DEF Next
<1> QED
  BY <1>3, <1>4 DEF NewestSince

\* The newest since an instant is the newest since the earlier ones.
LEMMA NewestEarlier ==
    ASSUME LocalInv, NEW c \in Client, NEW t \in Int, NEW u \in Int, NewestSince(c, t), u <= t
    PROVE  NewestSince(c, u)
BY ClientTypes DEF NewestSince

\* A step of an elector, or the death of a client.
LEMMA LeadersElector ==
    ASSUME SafeConfig, LeadersInv, StoreInv', [Next]_vars, NEW c \in Client,
           ElectorStep(c) \/ Die(c), UNCHANGED now
    PROVE  AckInv(c)' /\ AckInTime(c)' /\ LeadInv(c)'
<1>0. /\ StoreInv /\ LocalInv /\ InterfaceTypeOK /\ ElectorTypeOK /\ GossipTypeOK
      /\ ~ReleaseOnCancel /\ AckInv(c) /\ AckInTime(c) /\ LeadInv(c) /\ ElectorInv(c)
  BY DEF LeadersInv, StoreInv, LocalInv, TypeOK, SafeConfig
<1>1. CASE Die(c)
  <2>1. pc'[c] = "off" /\ ~leading'[c]
    BY <1>0, <1>1 DEF Die, Crash, ElectorTypeOK
  <2> QED
    BY <2>1 DEF AckInv, AckInTime, LeadInv
<1>2. CASE ElectorStep(c)
  <2>1. UNCHANGED <<entry, sets, raced, now>>
    BY <1>2 DEF ElectorStep, gossipVars, Returns, Fails, CallOver
  <2>2. ASSUME NEW t PROVE NewestSince(c, t)' <=> NewestSince(c, t)
    BY <2>1 DEF NewestSince
  <2>3. pc'[c] = "set" =>
          \/ Begins(c)'
          \/ pc[c] = "set" /\ call'[c] = call[c] /\ on'[c] = on[c]
    <3>1. CASE Proceed(c) /\ UNCHANGED gossipVars
      BY <1>0, <3>1 DEF Proceed, Run, StartTry, StartRound, PollTick, StopAcquiring,
           StopBetweenRounds, StopPolling, LeaveRenew, Cancel, gossipVars, ElectorTypeOK
    <3>2. CASE (CreateRecord(c) \/ TakeOrRenew(c)) /\ Returns(c)
      BY <1>0, <3>2 DEF CreateRecord, TakeOrRenew, Invoke, Returns, CallOver, Begins,
           InterfaceTypeOK, GossipTypeOK
    <3>3. CASE LeaseHeld(c) \/ CallFails(c) \/ SetSucceeds(c) \/ ReleaseSucceeds(c) \/ ReleaseFails(c)
      BY <1>0, <3>3 DEF LeaseHeld, CallFails, TryFails, SetSucceeds, ReleaseSucceeds, ReleaseFails,
           ReleaseEnds, ElectorTypeOK
    <3> QED
      BY <1>2, <3>1, <3>2, <3>3 DEF ElectorStep, Resume, Fail
  <2>4. AckInv(c)' /\ AckInTime(c)'
    BY <1>0, <2>1, <2>3 DEF AckInv, AckInTime, NewestSince, Begins
  <2>5. ASSUME leading'[c], NEW u, u = LeadEnd(c)' - LeadTime PROVE NewestSince(c, u)
    <3>0. Proceed(c) \/ Resume(c) \/ Fail(c) \/ Crash(c)
      BY <1>2 DEF ElectorStep
    <3>t. /\ LeadEnd(c) \in Nat /\ LeadEnd(c)' \in Nat /\ now \in Nat /\ raced \in Nat
          /\ call[c].at \in Nat /\ RequestTimeout \in Nat /\ RetryPeriod \in Nat
          /\ RenewDeadline \in Nat /\ LeaseDuration \in Nat /\ LeadTime \in Nat
          /\ LeadTime = 2 * RequestTimeout + RetryPeriod + RenewDeadline
          /\ LeaseDuration > LeadTime
      BY <1>0, <2>1, <2>5, <3>0, LeadGoesOn, ClientTypes, LeaseRuns, Durations
    <3>1. CASE leading[c] /\ LeadEnd(c)' <= LeadEnd(c)
      BY <1>0, <2>5, <3>t, <3>1, NewestEarlier DEF LeadInv
    <3>2. CASE /\ pc[c] = "set" /\ call[c].st = "ok"
               /\ LeadEnd(c)' <= now + RetryPeriod + RenewDeadline
      <4>1. NewestSince(c, call[c].at) /\ u \in Int /\ u <= now
        BY <1>0, <2>5, <3>t, <3>2 DEF AckInv, Begins
      <4>2. CASE now <= call[c].at + RequestTimeout
        BY <1>0, <2>5, <3>t, <3>2, <4>1, <4>2, NewestEarlier
      <4>3. CASE call[c].at <= raced /\ raced = now
        BY <3>t, <4>1, <4>3 DEF NewestSince
      <4> QED
        BY <1>0, <3>2, <4>2, <4>3 DEF AckInTime
    <3> QED
      BY <1>0, <2>1, <2>5, <3>0, <3>1, <3>2, LeadGoesOn
  <2>6. LeadInv(c)'
    <3>1. ASSUME leading'[c], NEW u, u = LeadEnd(c)' - LeadTime PROVE NewestSince(c, u)'
      BY <2>2, <2>5, <3>1
    <3> QED
      BY <3>1 DEF LeadInv
  <2> QED
    BY <2>4, <2>6
<1> QED
  BY <1>1, <1>2

\* A leader stays what it is while others act and time passes.
LEMMA LeadKept ==
    ASSUME SafeConfig, LeadersInv, [Next]_vars, NEW c \in Client, ~Die(c),
           pc'[c] = pc[c], wake'[c] = wake[c], leading'[c] = leading[c], deadline'[c] = deadline[c]
    PROVE  LeadInv(c)'
<1>0. /\ StoreInv /\ LocalInv /\ LeadInv(c)
  BY DEF LeadersInv, StoreInv
<1>t. /\ LeadEnd(c) \in Nat /\ LeadTime \in Nat /\ now \in Nat
  BY <1>0, ClientTypes, LeaseRuns, Durations
<1>1. ASSUME leading[c], NEW t, t = LeadEnd(c) - LeadTime PROVE NewestSince(c, t)'
  BY <1>0, <1>t, <1>1, LeaseRuns, NewestKept DEF LeadInv
<1>2. LeadEnd(c)' = LeadEnd(c)
  BY DEF LeadEnd
<1> QED
  BY <1>1, <1>2 DEF LeadInv

\* Any other step, for a client whose elector and call it leaves alone.
LEMMA LeadersSame ==
    ASSUME SafeConfig, LeadersInv, [Next]_vars, NEW c \in Client, ~Die(c),
           pc'[c] = pc[c], wake'[c] = wake[c], leading'[c] = leading[c], deadline'[c] = deadline[c],
           call'[c] = call[c], on'[c] = on[c],
           now' = now \/ (now' = now + 1 /\ (pc[c] = "set" => call[c].st # "ok"))
    PROVE  AckInv(c)' /\ AckInTime(c)' /\ LeadInv(c)'
<1>0. /\ StoreInv /\ LocalInv /\ SetInv(c) /\ AckInv(c) /\ AckInTime(c)
  BY DEF LeadersInv, StoreInv, ClientInv
<1>t. /\ now \in Nat /\ raced \in Nat /\ LeadTime \in Nat
      /\ call[c].at \in Nat /\ RequestTimeout \in Nat /\ LeaseDuration \in Nat
      /\ LeaseDuration > RequestTimeout
  BY <1>0, ClientTypes, Durations
<1>1. LeadInv(c)'
  BY LeadKept
<1>2. AckInTime(c)'
  BY <1>0, <1>t, RacedStep DEF AckInTime, SetInv
<1>3. AckInv(c)'
  <2> SUFFICES ASSUME pc[c] = "set", ~Begins(c), NEW t, t = call[c].at
               PROVE  \/ NewestSince(c, t)'
                      \/ call[c].st = "pending" /\ now' >= t + LeaseDuration
    BY DEF AckInv, Begins
  <2>1. CASE now >= t + LeaseDuration /\ call[c].st = "pending"
    BY <1>t, <2>1
  <2>2. CASE now < t + LeaseDuration \/ call[c].st # "pending"
    <3>1. NewestSince(c, t) /\ t \in Int
      BY <1>0, <1>t, <2>2 DEF AckInv
    <3>2. now < t + LeaseDuration \/ (t <= raced /\ raced <= now)
      BY <1>0, <1>t, <2>2 DEF AckInTime, SetInv
    <3> QED
      BY <1>0, <3>1, <3>2, NewestKept
  <2> QED
    BY <1>t, <2>1, <2>2
<1> QED
  BY <1>1, <1>2, <1>3

\* The store acts on the call of c, or on what has arrived at c.
LEMMA LeadersStore ==
    ASSUME SafeConfig, LeadersInv, [Next]_vars, NEW c \in Client, StoreStep(c),
           UNCHANGED <<now, cancelled, deadline, electorVars>>
    PROVE  AckInv(c)' /\ AckInTime(c)' /\ LeadInv(c)'
<1>0. /\ StoreInv /\ LocalInv /\ ElectorInv(c) /\ RestInv(c) /\ SetInv(c) /\ AckInv(c) /\ AckInTime(c)
      /\ InterfaceTypeOK /\ ElectorTypeOK /\ GossipTypeOK /\ ~ReleaseOnCancel
  BY DEF LeadersInv, StoreInv, ClientInv, LocalInv, TypeOK, SafeConfig
<1>t. /\ now \in Nat /\ raced \in Nat /\ sets \in Nat /\ call[c].at \in Nat /\ RequestTimeout \in Nat
      /\ LeaseDuration \in Nat /\ LeaseDuration > RequestTimeout
  BY <1>0, ClientTypes, Durations
<1>e. /\ pc' = pc /\ wake' = wake /\ leading' = leading /\ deadline' = deadline /\ now' = now
  BY DEF electorVars
<1>d. ~Die(c)
  BY <1>0, <1>e DEF Die, Crash, ElectorTypeOK
<1>l. LeadInv(c)'
  BY <1>e, <1>d, LeadKept
<1>p. /\ call[c].op = "get" <=> pc[c] = "get"
      /\ IsWrite(c) <=> pc[c] = "set"
  BY <1>0, NoReleaseCalls
<1>1. CASE UNCHANGED <<call, on>>
  BY <1>1, <1>e, <1>d, LeadersSame
<1>2. CASE pc[c] # "set"
  BY <1>2, <1>e, <1>l DEF AckInv, AckInTime
<1>3. CASE Set(c)
  <2>1. pc[c] = "set" /\ Begins(c)
    BY <1>3, <1>p DEF Set
  <2>2. call[c].at = now /\ call[c].rec.holder = c /\ call[c].rec.renew = now /\ call[c].st = "pending"
    BY <1>0, <2>1 DEF SetInv, Begins
  <2>3. /\ call' = call /\ sets' = sets + 1
        /\ entry'[c].time = sets + 1 /\ entry'[c].rec = call[c].rec
    BY <1>0, <1>3 DEF Set, GossipTypeOK
  <2>4. AckInv(c)' /\ AckInTime(c)'
    BY <1>t, <2>2, <2>3 DEF AckInv, AckInTime, NewestSince
  <2> QED
    BY <1>l, <2>4
<1>4. ASSUME pc[c] = "set", Waits(c), Answer(c, "ok", call[c].rec, 0),
             raced' = IF Belated(c) THEN now ELSE raced
      PROVE  AckInv(c)' /\ AckInTime(c)' /\ LeadInv(c)'
  <2>1. call'[c].at = call[c].at /\ call'[c].st = "ok" /\ call[c].at <= now
    BY <1>0, <1>4 DEF Answer, InterfaceTypeOK, SetInv
  <2>2. AckInTime(c)'
    BY <1>t, <1>e, <1>4, <2>1 DEF AckInTime, Belated
  <2>3. AckInv(c)'
    <3>1. ASSUME NEW t, t = call[c].at PROVE NewestSince(c, t)'
      <4>1. CASE Belated(c)
        BY <1>t, <1>e, <1>4, <2>1, <3>1, <4>1 DEF NewestSince
      <4>2. CASE ~Belated(c)
        <5>1. now < t + LeaseDuration
          BY <1>t, <3>1, <4>2 DEF Belated
        <5>2. NewestSince(c, t)
          BY <1>0, <1>t, <1>4, <3>1, <5>1 DEF AckInv, Waits, Begins
        <5> QED
          BY <1>0, <1>t, <1>d, <3>1, <5>1, <5>2, NewestKept
      <4> QED
        BY <4>1, <4>2
    <3> QED
      BY <2>1, <3>1 DEF AckInv
  <2> QED
    BY <1>l, <2>2, <2>3
<1>5. CASE ConfirmAlone(c)
  BY <1>4, <1>5, <1>p DEF ConfirmAlone, Confirm
<1>6. ASSUME NEW e, ArrivesSame(c, e) PROVE AckInv(c)' /\ AckInTime(c)' /\ LeadInv(c)'
  <2>1. CASE pc[c] = "set" /\ Waits(c) /\ on[c] = e.time
    BY <1>4, <1>6, <1>p, <2>1 DEF ArrivesSame, Confirm
  <2>2. CASE ~(Waits(c) /\ on[c] = e.time)
    BY <1>1, <1>6, <2>2 DEF ArrivesSame, Confirm
  <2> QED
    BY <1>2, <2>1, <2>2
<1>7. ASSUME NEW e, ArrivesNewer(c, e) PROVE UNCHANGED <<call, on>>
  BY <1>7 DEF ArrivesNewer
<1>8. CASE GetReturns(c) \/ GetWaits(c)
  BY <1>2, <1>8, <1>p DEF GetReturns, GetWaits
<1>9. CASE Join(c) \/ Reunited(c)
  BY <1>1, <1>9 DEF Join, Reunited
<1> QED
  BY <1>1, <1>3, <1>5, <1>6, <1>7, <1>8, <1>9 DEF StoreStep

\* Every step preserves the invariant.
LEMMA LeadersInvStep ==
    ASSUME SafeConfig, LeadersInv, [Next]_vars PROVE LeadersInv'
<1>0. /\ StoreInv /\ StoreInv' /\ LocalInv /\ ~ReleaseOnCancel /\ ElectorTypeOK
      /\ \A c \in Client : ElectorInv(c)
  BY StoreInvStep DEF LeadersInv, SafeConfig, StoreInv, LocalInv, TypeOK
<1> SUFFICES ASSUME NEW c \in Client PROVE AckInv(c)' /\ AckInTime(c)' /\ LeadInv(c)'
  BY <1>0 DEF LeadersInv
<1>1. CASE Tick
  <2>1. /\ now' = now + 1 /\ UNCHANGED <<call, deadline, on, pc, wake, leading>> /\ LockMayWait(c)
    BY <1>1 DEF Tick, electorVars, gossipVars
  <2>2. ~Die(c)
    BY <1>0, <2>1 DEF Die, Crash, ElectorTypeOK
  <2>3. pc[c] = "set" => call[c].st # "ok"
    BY <1>0, <2>1 DEF ElectorInv, CallMatches, LockMayWait, Waits
  <2> QED
    BY <2>1, <2>2, <2>3, LeadersSame
<1>2. ASSUME NEW d \in Client, ElectorStep(d) \/ Die(d), UNCHANGED now
      PROVE  AckInv(c)' /\ AckInTime(c)' /\ LeadInv(c)'
  <2>1. CASE d = c
    BY <1>0, <1>2, <2>1, LeadersElector
  <2>2. CASE d # c
    <3>1. SameClient(c)
      BY <1>0, <1>2, <2>2, ElectorStepOthers
    <3>2. CASE Die(c)
      BY <1>0, <1>2, <3>2, LeadersElector
    <3>3. CASE ~Die(c)
      BY <1>2, <3>1, <3>3, LeadersSame DEF SameClient, SameElector
    <3> QED
      BY <3>2, <3>3
  <2> QED
    BY <2>1, <2>2
<1>3. ASSUME NEW d \in Client, StoreStep(d), UNCHANGED <<now, cancelled, deadline, electorVars>>
      PROVE  AckInv(c)' /\ AckInTime(c)' /\ LeadInv(c)'
  <2>1. CASE d # c
    <3>1. SameClient(c)
      BY <1>0, <1>3, <2>1, StoreStepOthers
    <3>2. ~Die(c)
      BY <1>0, <1>3 DEF Die, Crash, ElectorTypeOK, electorVars
    <3> QED
      BY <1>3, <3>1, <3>2, LeadersSame DEF SameClient, SameElector
  <2> QED
    BY <1>3, <2>1, LeadersStore
<1>4. ASSUME UNCHANGED <<now, call, deadline, on, pc, wake, leading>>
      PROVE  AckInv(c)' /\ AckInTime(c)' /\ LeadInv(c)'
  <2>1. ~Die(c)
    BY <1>0, <1>4 DEF Die, Crash, ElectorTypeOK
  <2> QED
    BY <1>4, <2>1, LeadersSame
<1>5. CASE UNCHANGED vars \/ \E d \in Client : TakenForDead(d) /\ UNCHANGED <<now, cancelled, deadline>>
  BY <1>4, <1>5 DEF TakenForDead, Isolated, vars, interfaceVars, electorVars, gossipVars
<1> QED
  BY <1>1, <1>2, <1>3, <1>5 DEF Next

\* When no one releases and the lease outlasts the time a leader may act, the
\* newest entry is a leader's, set for the try it leads by, unless there was a
\* race since.
THEOREM LeadersInvariant == SafeConfig => (Spec => []LeadersInv)
<1> SUFFICES ASSUME SafeConfig PROVE Spec => []LeadersInv
  OBVIOUS
<1>1. Init => LeadersInv
  BY StoreInvInit DEF Init, ElectorInit, LeadersInv, AckInv, AckInTime, LeadInv
<1>2. LeadersInv /\ [Next]_vars => LeadersInv'
  BY LeadersInvStep
<1> QED
  BY <1>1, <1>2, PTL DEF Spec

\* Two OnStartedLeading contexts are live at once only after a Set of lock.go by
\* a client that had not seen the newest entry, or one confirmed later than
\* RequestTimeout, and then for no longer than LeadTime: whatever is lost,
\* delayed or repeated, and whoever is cut off, dies and joins again.
THEOREM OneLeaderUnlessRaced == SafeConfig => (Spec => []OneLeaderAfterRace)
<1> SUFFICES ASSUME SafeConfig PROVE Spec => []OneLeaderAfterRace
  OBVIOUS
<1>1. Spec => []LeadersInv
  BY LeadersInvariant
<1>2. LeadersInv => OneLeaderAfterRace
  <2> SUFFICES ASSUME LeadersInv, RaceFree, NEW c \in Client, NEW d \in Client, leading[c],
                      leading[d]
               PROVE  c = d
    BY DEF OneLeaderAfterRace, MutualExclusion
  <2>0. StoreInv /\ LocalInv /\ RowsInv
    BY DEF LeadersInv, StoreInv
  <2>1. ASSUME NEW e \in Client, leading[e] PROVE entry[e].time = sets /\ entry[e].rec.holder = e
    <3>t. /\ now \in Nat /\ raced \in Nat /\ LeadTime \in Nat /\ LeadEnd(e) \in Nat
          /\ now <= LeadEnd(e)
      BY <2>0, <2>1, ClientTypes, Durations, LeaseRuns
    <3>1. NewestSince(e, LeadEnd(e) - LeadTime)
      BY <2>1 DEF LeadersInv, LeadInv
    <3> QED
      BY <3>t, <3>1 DEF NewestSince, RaceFree
  <2>2. Row(entry[c]) \in Rows /\ Row(entry[d]) \in Rows
    BY RowsHave
  <2>3. entry[c].rec = entry[d].rec
    BY <2>0, <2>1, <2>2 DEF RowsInv, Agree, Row
  <2> QED
    BY <2>1, <2>3
<1> QED
  BY <1>1, <1>2, PTL

-----------------------------------------------------------------------------
(***************************************************************************)
(* The candidates.                                                         *)
(***************************************************************************)
\* The time a candidate has is a number.
LEMMA DueType ==
    ASSUME LocalInv, NEW c \in Client
    PROVE  /\ Due(c, 0) \in Nat /\ RetryPause \in Nat /\ now \in Nat /\ wake[c] \in Nat
           /\ Due(c, 0) = observedTime[c] + observedRawRecord[c].dur
           /\ observedTime[c] <= Due(c, 0)
<1>1. observedTime[c] \in Nat /\ observedRawRecord[c] \in Record /\ now \in Nat /\ wake[c] \in Nat
  BY ClientTypes
<1>2. observedRawRecord[c].dur \in Nat
  BY <1>1 DEF Record
<1> QED
  BY <1>1, <1>2, RetryTimeType DEF Due

\* An entry is confirmed when it is sent on.
LEMMA SentConfirmed ==
    ASSUME NEW S, NEW e \in Entry, \A f \in S : f.confirmed
    PROVE  \A f \in Send(S, e) : f.confirmed
BY DEF Send, Heard, Entry

\* A step of another client leaves a candidate as it is.
LEMMA PromptSame ==
    ASSUME NEW d \in Client, AcquireInv(d), PromptInv(d), SameClient(d), UNCHANGED now
    PROVE  AcquireInv(d)' /\ PromptInv(d)'
BY DEF SameClient, SameElector, AcquireInv, PromptInv, Candidate, Due

\* The clock waits for a Get, and for a Set that has not begun.
LEMMA PromptTick ==
    ASSUME LocalInv, NEW c \in Client, AcquireInv(c), PromptInv(c), Tick
    PROVE  AcquireInv(c)' /\ PromptInv(c)'
<1>1. UNCHANGED <<call, cancelled, deadline, electorVars, gossipVars>> /\ LockMayWait(c)
  BY DEF Tick
<1>2. AcquireInv(c)'
  BY <1>1 DEF AcquireInv, electorVars, observedVars
<1>3. pc[c] \in {"get", "set"} => on[c] # 0
  BY <1>1 DEF LockMayWait, Waits, LocalInv, ElectorInv, CallMatches
<1>4. PromptInv(c)'
  BY <1>1, <1>3 DEF PromptInv, Candidate, Due, electorVars, observedVars, gossipVars
<1> QED
  BY <1>2, <1>4

\* The elector goes on at once, unless its Set waits.
LEMMA PromptElector ==
    ASSUME LocalInv, NEW c \in Client, AcquireInv(c), PromptInv(c), LocalInv',
           ElectorStep(c) \/ Die(c), UNCHANGED now
    PROVE  AcquireInv(c)' /\ PromptInv(c)'
<1>0. InterfaceTypeOK /\ ElectorTypeOK /\ GossipTypeOK /\ ElectorInv(c) /\ ElectorInv(c)'
  BY DEF LocalInv, TypeOK
<1>t. /\ now \in Nat /\ now < Never /\ deadline[c] \in Nat /\ cancelled[c] \in BOOLEAN
      /\ on \in [Client -> 0..sets] /\ sets \in Nat /\ entry \in [Client -> Entry]
  BY <1>0, ClientTypes DEF InterfaceTypeOK, GossipTypeOK
<1>1. AcquireInv(c)'
  BY <1>0, AcquireStep DEF ElectorStep, Die
<1>2. CASE Die(c)
  <2>1. on'[c] = 0 /\ entry'[c].confirmed
    BY <1>t, <1>2 DEF Die, ClientGone, NoEntry
  <2>2. pc'[c] = "off"
    BY <1>0, <1>2 DEF Die, Crash, ElectorTypeOK
  <2> QED
    BY <1>1, <2>1, <2>2 DEF PromptInv, Candidate
<1>3. CASE ElectorStep(c)
  <2>1. /\ entry' = entry
        /\ (on' = on /\ Proceed(c)) \/ on'[c] = 0
    BY <1>t, <1>3 DEF ElectorStep, gossipVars, Returns, Fails, CallOver
  <2>2. call'[c].op = "none" => on'[c] = 0
    <3>1. CASE Proceed(c) /\ call[c].op # "none"
      BY <1>0, <3>1 DEF Proceed, Run, StartTry, StartRound, PollTick, StopAcquiring,
                   StopBetweenRounds, StopPolling, LeaveRenew, Cancel, Invoke, InterfaceTypeOK
    <3> QED
      BY <2>1, <3>1 DEF PromptInv
  <2>3. ASSUME ~inRenew'[c], ~cancelled'[c]
        PROVE  /\ ~inRenew[c] /\ ~cancelled[c] /\ pc[c] # "set"
               /\ on'[c] = 0 /\ (Proceed(c) \/ Resume(c))
               /\ entry'[c].confirmed /\ (pc'[c] = "get" => call'[c].at = now)
    <3>1. ~inRenew[c] /\ ~cancelled[c]
      BY <1>0, <1>3, <2>3
         DEF ElectorStep, Proceed, Resume, Fail, Run, StartTry, StartRound, PollTick, StopAcquiring,
             StopBetweenRounds, StopPolling, LeaveRenew, Cancel, CreateRecord, LeaseHeld,
             TakeOrRenew, SetSucceeds, ReleaseSucceeds, ReleaseFails, ReleaseEnds, CallFails,
             TryFails, InterfaceTypeOK, ElectorTypeOK
    <3>2. ~Fails(c)
      BY <1>t, <3>1 DEF Fails, CallCtxDone, CtxDone, AcquireInv
    <3>3. Proceed(c) \/ Resume(c)
      BY <1>3, <3>2 DEF ElectorStep
    <3>4. pc[c] # "set" /\ (Proceed(c) => call[c].op = "none")
      <4>1. ~Cancel(c) /\ ~SetSucceeds(c)
        BY <1>0, <2>3 DEF Cancel, SetSucceeds, ElectorTypeOK, InterfaceTypeOK
      <4>2. pc[c] # "set"
        BY <3>3, <4>1 DEF Proceed, Resume, Run, StartTry, StartRound, PollTick, StopAcquiring,
             StopBetweenRounds, StopPolling, CreateRecord, LeaseHeld, TakeOrRenew,
             ReleaseSucceeds, ReleaseEnds
      <4>3. Proceed(c) => pc[c] \in {"off", "wait", "poll"}
        BY <4>1 DEF Proceed, Run, StartTry, StartRound, PollTick, StopAcquiring,
             StopBetweenRounds, StopPolling
      <4> QED
        BY <1>0, <4>2, <4>3 DEF ElectorInv, CallMatches
    <3>5. on'[c] = 0
      BY <1>t, <1>3, <3>2, <3>4
         DEF PromptInv, ElectorStep, gossipVars, Returns, CallOver
    <3>6. entry'[c].confirmed
      BY <2>1, <3>1, <3>4 DEF PromptInv
    <3>7. pc'[c] = "get" => call'[c].at = now
      <4>1. CASE StartTry(c) \/ StartRound(c) \/ PollTick(c)
        BY <1>0, <4>1 DEF StartTry, StartRound, PollTick, Invoke, InterfaceTypeOK
      <4>2. CASE ~(StartTry(c) \/ StartRound(c) \/ PollTick(c))
        BY <1>0, <2>3, <3>3, <4>2
           DEF Proceed, Resume, Run, StopAcquiring, StopBetweenRounds, StopPolling, LeaveRenew,
               Cancel, CreateRecord, LeaseHeld, TakeOrRenew, SetSucceeds, ReleaseSucceeds,
               ReleaseEnds, TryFails, InterfaceTypeOK, ElectorTypeOK
      <4> QED
        BY <4>1, <4>2
    <3> QED
      BY <3>1, <3>3, <3>4, <3>5, <3>6, <3>7
  <2>4. ASSUME Candidate(c)', ~cancelled'[c]
        PROVE  /\ pc'[c] = "wait" => wake'[c] <= Due(c, 0)' + RetryPause
               /\ pc'[c] # "wait" => now <= Due(c, 0)' + RetryPause
    <3>1. ~inRenew'[c]
      BY <2>4 DEF Candidate
    <3>2. ~inRenew[c] /\ ~cancelled[c] /\ (Proceed(c) \/ Resume(c))
      BY <2>3, <2>4, <3>1
    <3>3. pc[c] = "get" => call[c].at = now /\ on[c] = 0
      BY <3>2 DEF PromptInv
    <3>4. /\ Due(c, 0)' \in Nat /\ Due(c, 0) \in Nat /\ RetryPause \in Nat /\ now \in Nat
          /\ wake'[c] \in Nat /\ (SameReading(c) => Due(c, 0)' = Due(c, 0))
          /\ observedTime'[c] \in Nat /\ observedTime'[c] <= Due(c, 0)'
      <4>1. /\ Due(c, 0)' \in Nat /\ wake'[c] \in Nat /\ observedTime'[c] \in Nat
            /\ observedTime'[c] <= Due(c, 0)'
        <5>1. /\ observedTime'[c] \in Nat /\ observedRawRecord'[c] \in Record /\ wake'[c] \in Nat
          BY DEF LocalInv, TypeOK, ElectorTypeOK
        <5>2. observedRawRecord'[c].dur \in Nat
          BY <5>1 DEF Record
        <5> QED
          BY <5>1, <5>2, RetryTimeType DEF Due
      <4> QED
        BY <4>1, DueType DEF SameReading, Due
    <3>5. CASE observedTime'[c] = now
      <4>1. pc'[c] = "wait" => wake'[c] <= now + RetryPause
        BY <1>0, <1>1, <2>4, <3>2, CandidateSteps DEF Pauses, Writes, Cancel
      <4> QED
        BY <3>4, <3>5, <4>1
    <3>6. CASE observedTime'[c] # now
      <4>1. Candidate(c) /\ (pc[c] = "wait" => wake[c] <= Due(c, 0) + RetryPause)
                         /\ (pc[c] = "get" => now <= Due(c, 0) + RetryPause)
        <5>1. Candidate(c)
          BY <1>0, <2>4, <3>2, <3>6, CandidateSteps
        <5> QED
          BY <3>2, <3>3, <5>1 DEF PromptInv
      <4>2. \/ SameReading(c) /\ pc[c] = "wait" /\ wake[c] = now /\ pc'[c] = "get"
            \/ Pauses(c) /\ pc[c] = "get" /\ call[c].at < Due(c, 0)'
            \/ pc[c] = "get" /\ pc'[c] = "set" /\ SameReading(c)
        BY <1>0, <2>4, <3>2, <3>6, CandidateSteps DEF Writes, Reads
      <4> QED
        BY <3>3, <3>4, <4>1, <4>2 DEF Pauses
    <3> QED
      BY <3>5, <3>6
  <2> QED
    BY <1>1, <2>2, <2>3, <2>4 DEF PromptInv
<1> QED
  BY <1>2, <1>3

\* The store answers a call that waits, or one that takes no time.
LEMMA PromptStore ==
    ASSUME LocalInv, NEW c \in Client, AcquireInv(c), PromptInv(c), StoreStep(c),
           \A d \in Client : \A e \in sent[d] : e.confirmed,
           UNCHANGED <<now, cancelled, deadline, electorVars>>
    PROVE  AcquireInv(c)' /\ PromptInv(c)'
<1>0. InterfaceTypeOK /\ ElectorTypeOK /\ GossipTypeOK /\ ElectorInv(c)
  BY DEF LocalInv, TypeOK
<1>1. SameElector(c) /\ UNCHANGED now
  BY DEF electorVars, observedVars, SameElector
<1>2. AcquireInv(c)'
  BY <1>1 DEF AcquireInv, SameElector
<1>3. call'[c].op = call[c].op /\ call'[c].at = call[c].at
  BY <1>0, AnswersOnly DEF Answer, InterfaceTypeOK
<1>4. /\ call[c].op = "get" <=> pc[c] = "get"
      /\ IsWrite(c) => pc[c] = "set" \/ inRenew[c]
      /\ IsWrite(c) => call[c].op # "none"
  BY <1>0 DEF ElectorInv, CallMatches, TimersInv, ElectorTypeOK, PCs, IsWrite
<1>5. on \in [Client -> Nat] /\ entry \in [Client -> Entry] /\ sets \in Nat
  BY <1>0 DEF GossipTypeOK
<1>6. CASE GetWaits(c)
  <2>1. entry' = entry /\ ~entry[c].confirmed /\ pc[c] = "get"
    BY <1>4, <1>6 DEF GetWaits
  <2>2. inRenew[c] \/ cancelled[c]
    BY <2>1 DEF PromptInv
  <2>3. call[c].op # "none"
    BY <1>6 DEF GetWaits
  <2> QED
    BY <1>1, <1>2, <1>3, <2>2, <2>3 DEF PromptInv, Candidate, SameElector
<1>7. CASE Set(c)
  <2>1. on'[c] = sets + 1 /\ on'[c] # 0 /\ (pc[c] = "set" \/ inRenew[c]) /\ call[c].op # "none"
    BY <1>4, <1>5, <1>7 DEF Set
  <2> QED
    BY <1>1, <1>2, <1>3, <2>1 DEF PromptInv, Candidate, SameElector
<1>8. ASSUME on' = on, entry'[c].confirmed \/ entry'[c] = entry[c] PROVE PromptInv(c)'
  BY <1>1, <1>3, <1>8 DEF PromptInv, Candidate, SameElector, Due
<1>9. CASE GetReturns(c) \/ Reunited(c)
  BY <1>2, <1>8, <1>9 DEF GetReturns, Reunited
<1>10. CASE ConfirmAlone(c)
  <2>1. entry'[c].confirmed
    BY <1>5, <1>10 DEF ConfirmAlone, Entry
  <2> QED
    BY <1>2, <1>8, <1>10, <2>1 DEF ConfirmAlone
<1>11. CASE Join(c)
  <2>1. PICK d \in Client : entry' = [entry EXCEPT ![c] = Heard(entry[d])]
    BY <1>11 DEF Join, Others
  <2>2. entry'[c].confirmed
    BY <1>5, <2>1 DEF Heard, Entry
  <2> QED
    BY <1>2, <1>8, <1>11, <2>2 DEF Join
<1>12. ASSUME NEW d \in Client, NEW e \in sent[d], ArrivesSame(c, e) \/ ArrivesNewer(c, e)
       PROVE  PromptInv(c)'
  <2>1. entry'[c] = e /\ e.confirmed
    BY <1>5, <1>12 DEF ArrivesSame, ArrivesNewer
  <2> QED
    BY <1>8, <1>12, <2>1 DEF ArrivesSame, ArrivesNewer
<1> QED
  BY <1>2, <1>6, <1>7, <1>9, <1>10, <1>11, <1>12 DEF StoreStep

\* What the store sends is confirmed.
LEMMA StoreSends ==
    ASSUME LocalInv, NEW c \in Client, StoreStep(c),
           \A d \in Client : \A e \in sent[d] : e.confirmed
    PROVE  \A d \in Client : \A e \in sent'[d] : e.confirmed
<1>0. GossipTypeOK /\ call[c].rec \in Record
  BY ClientTypes DEF LocalInv, TypeOK
<1>1. /\ sent \in [Client -> SUBSET Entry] /\ entry \in [Client -> Entry] /\ sets \in Nat
  BY <1>0 DEF GossipTypeOK
<1>2. ASSUME NEW d \in Client, NEW e \in Entry PROVE \A f \in Send(sent[d], e) : f.confirmed
  BY SentConfirmed
<1>3. CASE GetReturns(c) \/ GetWaits(c) \/ ConfirmAlone(c) \/ \E e : ArrivesSame(c, e)
  BY <1>3 DEF GetReturns, GetWaits, ConfirmAlone, ArrivesSame
<1>4. CASE Set(c)
  <2> DEFINE e == [rec |-> call[c].rec, time |-> sets + 1, confirmed |-> FALSE]
  <2>1. e \in Entry
    BY <1>0, <1>1 DEF Entry
  <2>2. sent' = [sent EXCEPT ![c] = IF alone[c] THEN @ ELSE Send(@, e)]
    BY <1>4 DEF Set
  <2> HIDE DEF e
  <2>3. \A f \in Send(sent[c], e) : f.confirmed
    BY <1>2, <2>1
  <2> QED
    BY <1>1, <2>2, <2>3
<1>5. ASSUME NEW d \in Client, NEW e \in sent[d], ArrivesNewer(c, e)
      PROVE  \A f \in Client : \A g \in sent'[f] : g.confirmed
  <2>1. \A f \in Send(sent[c], e) : f.confirmed
    BY <1>1, <1>2
  <2> QED
    BY <1>1, <1>5, <2>1 DEF ArrivesNewer
<1>6. CASE Join(c)
  <2>1. PICK d \in Client : sent' = [sent EXCEPT ![d] = Send(@, entry[d])]
    BY <1>6 DEF Join, Others
  <2> QED
    BY <1>1, <1>2, <2>1
<1>7. CASE Reunited(c)
  BY <1>1, <1>2, <1>7 DEF Reunited
<1> QED
  BY <1>3, <1>4, <1>5, <1>6, <1>7 DEF StoreStep

\* Every step preserves CandidatesInv.
LEMMA CandidatesStep == CandidatesInv /\ [Next]_vars => CandidatesInv'
<1> SUFFICES ASSUME CandidatesInv, [Next]_vars PROVE CandidatesInv'
  OBVIOUS
<1>0. /\ LocalInv /\ LocalInv' /\ \A c \in Client : AcquireInv(c) /\ PromptInv(c)
      /\ \A c \in Client : \A e \in sent[c] : e.confirmed
  BY LocalStep DEF CandidatesInv
<1>1. CASE Tick
  <2>1. sent' = sent
    BY <1>1 DEF Tick, gossipVars
  <2> QED
    BY <1>0, <1>1, <2>1, PromptTick DEF CandidatesInv
<1>2. ASSUME NEW c \in Client, ElectorStep(c) \/ Die(c), UNCHANGED now PROVE CandidatesInv'
  <2>1. sent' = sent
    BY <1>2 DEF ElectorStep, Die, gossipVars, Returns, Fails, CallOver, ClientGone
  <2>2. AcquireInv(c)' /\ PromptInv(c)'
    BY <1>0, <1>2, PromptElector
  <2>3. ASSUME NEW d \in Client, d # c PROVE AcquireInv(d)' /\ PromptInv(d)'
    BY <1>0, <1>2, <2>3, ElectorStepOthers, PromptSame
  <2> QED
    BY <1>0, <2>1, <2>2, <2>3 DEF CandidatesInv
<1>3. ASSUME NEW c \in Client, StoreStep(c), UNCHANGED <<now, cancelled, deadline, electorVars>>
      PROVE  CandidatesInv'
  <2>1. \A d \in Client : \A e \in sent'[d] : e.confirmed
    BY <1>0, <1>3, StoreSends
  <2>2. AcquireInv(c)' /\ PromptInv(c)'
    BY <1>0, <1>3, PromptStore
  <2>3. ASSUME NEW d \in Client, d # c PROVE AcquireInv(d)' /\ PromptInv(d)'
    BY <1>0, <1>3, <2>3, StoreStepOthers, PromptSame
  <2> QED
    BY <1>0, <2>1, <2>2, <2>3 DEF CandidatesInv
<1>4. ASSUME UNCHANGED <<now, cancelled, deadline, call, up, entry, sent, on, seen>>,
             UNCHANGED <<pc, inRenew, wake, observedVars, reportedLeader, metric, leading>>
      PROVE  CandidatesInv'
  <2>1. ASSUME NEW d \in Client PROVE AcquireInv(d)' /\ PromptInv(d)'
    <3>1. SameClient(d)
      BY <1>4 DEF SameClient, SameElector, observedVars
    <3> QED
      BY <1>0, <1>4, <3>1, PromptSame
  <2> QED
    BY <1>0, <1>4, <2>1 DEF CandidatesInv
<1>5. ASSUME NEW c \in Client, TakenForDead(c), UNCHANGED <<now, cancelled, deadline>>
      PROVE  CandidatesInv'
  BY <1>4, <1>5 DEF TakenForDead, Isolated
<1>6. CASE UNCHANGED vars
  BY <1>4, <1>6 DEF vars, interfaceVars, electorVars, gossipVars
<1> QED
  BY <1>1, <1>2, <1>3, <1>5, <1>6 DEF Next

\* The initial state satisfies it.
LEMMA CandidatesInit == Init => CandidatesInv
<1> SUFFICES ASSUME Init PROVE CandidatesInv
  OBVIOUS
<1>1. ASSUME NEW c \in Client PROVE AcquireInv(c) /\ PromptInv(c)
  <2>1. /\ pc[c] = "off" /\ deadline[c] = Never /\ entry[c] = NoEntry /\ on[c] = 0 /\ ~inRenew[c]
        /\ observedRecord[c] = ZeroRecord /\ observedRawRecord[c] = ZeroRecord
    BY DEF Init, InterfaceInit, ElectorInit, GossipInit
  <2> QED
    BY <2>1 DEF AcquireInv, PromptInv, Candidate, NoEntry
<1>2. \A c \in Client : sent[c] = {}
  BY DEF Init, GossipInit
<1> QED
  BY <1>1, <1>2, LocalInit DEF CandidatesInv

\* A call of acquire takes no time before its Set has begun, whatever is lost or
\* late and whoever crashes, joins or is taken for dead.
THEOREM CandidatesInvariant == Spec => []CandidatesInv
BY CandidatesInit, CandidatesStep, PTL DEF Spec

\* A candidate whose record is over takes the lease within the time of a retry:
\* the Update of lock.go compares nothing and fails only when its context is
\* done, so that it stays a candidate only while it waits for other nodes.
THEOREM CandidateWaitsForNodes == Spec => []CandidateNotStuckUnlessWaiting
<1>1. ASSUME CandidatesInv, NEW c \in Client, StuckFor(c, 1), ~cancelled[c]
      PROVE  on[c] # 0
  <2>1. LocalInv /\ PromptInv(c) /\ ElectorInv(c)
    BY <1>1 DEF CandidatesInv, LocalInv
  <2>2. Candidate(c)
    BY <1>1 DEF StuckFor, Candidate
  <2>3. now > observedTime[c] + observedRawRecord[c].dur + 1 * RetryTime
    BY <1>1 DEF StuckFor, RetryTime, RetryPause
  <2>4. /\ Due(c, 0) \in Nat /\ RetryPause \in Nat /\ now \in Nat /\ wake[c] \in Nat
        /\ Due(c, 0) = observedTime[c] + observedRawRecord[c].dur
    BY <2>1, DueType
  <2>5. now > Due(c, 0) + RetryPause
    <3>1. RetryTime >= RetryPause /\ RetryTime \in Nat
      BY RetryTimeType, LockAssumption
    <3> QED
      BY <2>3, <2>4, <3>1
  <2>6. pc[c] = "wait" => now <= wake[c]
    BY <2>1 DEF ElectorInv, TimersInv
  <2> QED
    BY <1>1, <2>1, <2>2, <2>4, <2>5, <2>6 DEF PromptInv
<1>2. CandidatesInv => CandidateNotStuckUnlessWaiting
  BY <1>1 DEF CandidateNotStuckUnlessWaiting
<1> QED
  BY <1>2, CandidatesInvariant, PTL
=============================================================================
