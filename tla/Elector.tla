------------------------------ MODULE Elector ------------------------------
(***************************************************************************)
(* The LeaderElector of src/leaderelection.go: Run, its acquire and renew  *)
(* loops, tryAcquireOrRenew and release, for every client of an election.  *)
(* The Lock behind it is any module that answers the calls of              *)
(* LockInterface.                                                          *)
(*                                                                         *)
(* pc[c] is where the goroutine of Run is blocked:                         *)
(*   off      no process, or one that has not called Run                   *)
(*   wait     in the timer of JitterUntil, between two iterations          *)
(*   poll     in the ticker of PollImmediateUntil, between two tries of    *)
(*            one renew round                                              *)
(*   get, set in the Get, or the Create or Update, of tryAcquireOrRenew    *)
(*   release  in the Update of release                                     *)
(*   done     Run has returned                                             *)
(***************************************************************************)
EXTENDS LockInterface

CONSTANTS
    LeaseDuration, RenewDeadline, RetryPeriod,  \* Config, in clock units
    ReleaseOnCancel,                            \* Config
    MaxStops    \* bound: how many contexts are cancelled and processes die

\* The durations New accepts.  1.2 is JitterFactor; the product is truncated.
NewAccepts ==
    /\ LeaseDuration > RenewDeadline
    /\ RenewDeadline > (12 * RetryPeriod) \div 10
    /\ LeaseDuration >= 1 /\ RenewDeadline >= 1 /\ RetryPeriod >= 1

ASSUME ElectorAssumption ==
    /\ LeaseDuration \in Nat /\ RenewDeadline \in Nat /\ RetryPeriod \in Nat
    /\ ReleaseOnCancel \in BOOLEAN /\ MaxStops \in Nat
    /\ NewAccepts

VARIABLES
    pc,                 \* where Run is blocked
    inRenew,            \* acquire has returned true: Run is in renew
    wake,               \* when the current timer or ticker fires
    observedRecord,     \* le.observedRecord
    observedRawRecord,  \* le.observedRawRecord
    observedTime,       \* le.observedTime
    reportedLeader,     \* le.reportedLeader, the last argument of OnNewLeader
    metric,             \* the leader switch of the metrics is on
    leading,            \* OnStartedLeading was called and its context is live
    stops               \* how many contexts were cancelled and processes died

observedVars == <<observedRecord, observedRawRecord, observedTime>>
electorVars == <<pc, inRenew, wake, observedVars, reportedLeader, metric, leading, stops>>

PCs == {"off", "wait", "poll", "get", "set", "release", "done"}

ElectorTypeOK ==
    /\ pc \in [Client -> PCs]
    /\ inRenew \in [Client -> BOOLEAN]
    /\ wake \in [Client -> Nat]
    /\ observedRecord \in [Client -> Record]
    /\ observedRawRecord \in [Client -> Record]
    /\ observedTime \in [Client -> Nat]
    /\ reportedLeader \in [Client -> Client \cup {NoOne}]
    /\ metric \in [Client -> BOOLEAN]
    /\ leading \in [Client -> BOOLEAN]
    /\ stops \in 0..MaxStops

ElectorInit ==
    /\ pc = [c \in Client |-> "off"]
    /\ inRenew = [c \in Client |-> FALSE]
    /\ wake = [c \in Client |-> 0]
    /\ observedRecord = [c \in Client |-> ZeroRecord]
    /\ observedRawRecord = [c \in Client |-> ZeroRecord]
    /\ observedTime = [c \in Client |-> 0]
    /\ reportedLeader = [c \in Client |-> NoOne]
    /\ metric = [c \in Client |-> FALSE]
    /\ leading = [c \in Client |-> FALSE]
    /\ stops = 0

-----------------------------------------------------------------------------
IsLeader(c) == observedRecord[c].holder = c

\* Check(0) returns an error.
Unhealthy(c) == IsLeader(c) /\ now - observedTime[c] > LeaseDuration

\* Mutant: a record of the same holder does not count as observed anew.
SetObservedRecordOfNewHolder(c, rec) ==
    /\ observedRecord' = [observedRecord EXCEPT ![c] = rec]
    /\ observedTime' = [observedTime EXCEPT ![c] =
                          IF rec.holder = observedRecord[c].holder THEN @ ELSE now]

SetObservedRecord(c, rec) ==
    /\ observedRecord' = [observedRecord EXCEPT ![c] = rec]
    /\ observedTime' = [observedTime EXCEPT ![c] = now]

MaybeReportTransition(c) ==
    reportedLeader' = [reportedLeader EXCEPT ![c] = observedRecord'[c].holder]

\* The wait before the next iteration of acquire: wait.Jitter of RetryPeriod.
RetryDelays == RetryPeriod .. (22 * RetryPeriod) \div 10

(***************************************************************************)
(* When PollImmediateUntil tries again.  Its ticker starts when the first  *)
(* try of the round has failed (that try started at the instant the round  *)
(* did, so wake + RenewDeadline is the deadline); a tick that falls into a *)
(* try is dropped.  A try that began before its tick is the last one.      *)
(***************************************************************************)
NextTick(c) ==
    IF deadline[c] = wake[c] + RenewDeadline
    THEN {now + RetryPeriod}
    ELSE IF now < wake[c] THEN {wake[c]}
    ELSE {t \in now .. now + RetryPeriod :
            t > wake[c] /\ (t - wake[c]) % RetryPeriod = 0}

-----------------------------------------------------------------------------
\* New, RunOrDie and Run, up to the first iteration of acquire.
Run(c) ==
    /\ pc[c] = "off"
    /\ pc' = [pc EXCEPT ![c] = "wait"]
    /\ wake' = [wake EXCEPT ![c] = now]
    /\ UNCHANGED <<inRenew, observedVars, reportedLeader, metric, leading>>
    /\ UNCHANGED <<call, cancelled, deadline, stops>>

\* An iteration of acquire begins with the Get of a try.
StartTry(c) ==
    /\ pc[c] = "wait" /\ ~inRenew[c] /\ ~cancelled[c] /\ now >= wake[c]
    /\ pc' = [pc EXCEPT ![c] = "get"]
    /\ Invoke(c, "get", ZeroRecord)
    /\ UNCHANGED <<inRenew, wake, observedVars, reportedLeader, metric, leading>>
    /\ UNCHANGED <<cancelled, deadline, stops>>

\* Mutant: a round may last as long as the lease.
StartRoundOfLease(c) ==
    /\ pc[c] = "wait" /\ inRenew[c] /\ ~cancelled[c] /\ now >= wake[c]
    /\ pc' = [pc EXCEPT ![c] = "get"]
    /\ deadline' = [deadline EXCEPT ![c] = now + LeaseDuration]
    /\ wake' = [wake EXCEPT ![c] = now]
    /\ Invoke(c, "get", ZeroRecord)
    /\ UNCHANGED <<inRenew, observedVars, reportedLeader, metric, leading, cancelled, stops>>

\* A round of renew begins: a new deadline, and the Get of its first try.
StartRound(c) ==
    /\ pc[c] = "wait" /\ inRenew[c] /\ ~cancelled[c] /\ now >= wake[c]
    /\ pc' = [pc EXCEPT ![c] = "get"]
    /\ deadline' = [deadline EXCEPT ![c] = now + RenewDeadline]
    /\ wake' = [wake EXCEPT ![c] = now]
    /\ Invoke(c, "get", ZeroRecord)
    /\ UNCHANGED <<inRenew, observedVars, reportedLeader, metric, leading, cancelled, stops>>

\* A further try of the round: at a tick, or because the poller closed its
\* channel when the context ended, in which case the condition runs once more.
PollTick(c) ==
    /\ pc[c] = "poll" /\ (now >= wake[c] \/ CtxDone(c))
    /\ pc' = [pc EXCEPT ![c] = "get"]
    /\ Invoke(c, "get", ZeroRecord)
    /\ UNCHANGED <<inRenew, wake, observedVars, reportedLeader, metric, leading>>
    /\ UNCHANGED <<cancelled, deadline, stops>>

-----------------------------------------------------------------------------
(***************************************************************************)
(* tryAcquireOrRenew returns false: acquire reports the leader it observed *)
(* and sleeps with jitter, renew polls again.                              *)
(***************************************************************************)
TryFails(c) ==
    /\ Return(c)
    /\ \/ /\ inRenew[c]
          /\ pc' = [pc EXCEPT ![c] = "poll"]
          /\ \E t \in NextTick(c) : wake' = [wake EXCEPT ![c] = t]
          /\ UNCHANGED reportedLeader
       \/ /\ ~inRenew[c]
          /\ pc' = [pc EXCEPT ![c] = "wait"]
          /\ \E d \in RetryDelays : wake' = [wake EXCEPT ![c] = now + d]
          /\ MaybeReportTransition(c)
    /\ UNCHANGED <<inRenew, metric, leading, cancelled, deadline, stops>>

\* The Get fails with something other than os.ErrNotExist, or the Create or
\* Update fails.
CallFails(c) ==
    /\ pc[c] \in {"get", "set"}
    /\ UNCHANGED observedVars
    /\ TryFails(c)

\* Mutants: the transitions of the old record are lost, or counted down.
NewRecordWithoutTransitions(c, t, trans) ==
    [holder |-> c, dur |-> LeaseDuration, renew |-> t, trans |-> 0]

NewRecordCountedDown(c, t, trans) ==
    [holder |-> c, dur |-> LeaseDuration, renew |-> t, trans |-> trans - 1]

\* The record this try started at time t proposes.
NewRecord(c, t, trans) ==
    [holder |-> c, dur |-> LeaseDuration, renew |-> t, trans |-> trans]

\* The Get returned os.ErrNotExist: create the record.
CreateRecord(c) ==
    /\ pc[c] = "get" /\ call[c].st = "notexist"
    /\ pc' = [pc EXCEPT ![c] = "set"]
    /\ Invoke(c, "create", NewRecord(c, call[c].at, 0))
    /\ UNCHANGED <<inRenew, wake, observedVars, reportedLeader, metric, leading>>
    /\ UNCHANGED <<cancelled, deadline, stops>>

\* Mutant: observedTime is not set when a record is observed.
ObserveWithoutTime(c, old) ==
    IF observedRawRecord[c] = old
    THEN UNCHANGED observedVars
    ELSE /\ observedRecord' = [observedRecord EXCEPT ![c] = old]
         /\ observedRawRecord' = [observedRawRecord EXCEPT ![c] = old]
         /\ UNCHANGED observedTime

\* A raw record that differs from the last one is observed now.
Observe(c, old) ==
    IF observedRawRecord[c] = old
    THEN UNCHANGED observedVars
    ELSE /\ SetObservedRecord(c, old)
         /\ observedRawRecord' = [observedRawRecord EXCEPT ![c] = old]

\* Mutants: the lease of another client never expires, expires a unit early,
\* or expires with the renew deadline of the one who waits.
HeldForever(c, old, tryNow) ==
    /\ old.holder # NoOne
    /\ observedRecord'[c].holder # c

HeldOneLess(c, old, tryNow) ==
    /\ old.holder # NoOne
    /\ observedTime'[c] + old.dur - 1 > tryNow
    /\ observedRecord'[c].holder # c

HeldForRenewDeadline(c, old, tryNow) ==
    /\ old.holder # NoOne
    /\ observedTime'[c] + RenewDeadline > tryNow
    /\ observedRecord'[c].holder # c

\* After the observation: old is held by another client and has not expired
\* at tryNow.
HeldByOther(c, old, tryNow) ==
    /\ old.holder # NoOne
    /\ observedTime'[c] + old.dur > tryNow
    /\ observedRecord'[c].holder # c

LeaseHeld(c) ==
    /\ pc[c] = "get" /\ call[c].st = "ok"
    /\ Observe(c, call[c].rec)
    /\ HeldByOther(c, call[c].rec, call[c].at)
    /\ TryFails(c)

\* The lease is ours, or free, or expired: update it.
TakeOrRenew(c) ==
    /\ pc[c] = "get" /\ call[c].st = "ok"
    /\ Observe(c, call[c].rec)
    /\ ~HeldByOther(c, call[c].rec, call[c].at)
    /\ pc' = [pc EXCEPT ![c] = "set"]
    /\ Invoke(c, "update",
              NewRecord(c, call[c].at,
                        IF observedRecord'[c].holder = c
                        THEN call[c].rec.trans ELSE call[c].rec.trans + 1))
    /\ UNCHANGED <<inRenew, wake, reportedLeader, metric, leading>>
    /\ UNCHANGED <<cancelled, deadline, stops>>

(***************************************************************************)
(* tryAcquireOrRenew returns true.  From acquire, Run goes on: the metric  *)
(* is switched on, OnStartedLeading gets a context derived from Run's, and *)
(* renew starts its first round at once.  From renew, the round ends and   *)
(* the next one starts after RetryPeriod.                                  *)
(***************************************************************************)
SetSucceeds(c) ==
    /\ pc[c] = "set" /\ call[c].st = "ok"
    /\ SetObservedRecord(c, call[c].rec)
    /\ MaybeReportTransition(c)
    /\ Return(c)
    /\ pc' = [pc EXCEPT ![c] = "wait"]
    /\ inRenew' = [inRenew EXCEPT ![c] = TRUE]
    /\ wake' = [wake EXCEPT ![c] = IF inRenew[c] THEN now + RetryPeriod ELSE now]
    /\ metric' = [metric EXCEPT ![c] = IF inRenew[c] THEN metric[c] ELSE TRUE]
    /\ leading' = [leading EXCEPT ![c] = IF inRenew[c] THEN leading[c] ELSE ~cancelled[c]]
    /\ deadline' = [deadline EXCEPT ![c] = Never]
    /\ UNCHANGED <<observedRawRecord, cancelled, stops>>

-----------------------------------------------------------------------------
\* acquire returns false and so does Run: OnStoppedLeading is not called.
StopAcquiring(c) ==
    /\ pc[c] = "wait" /\ ~inRenew[c] /\ cancelled[c]
    /\ pc' = [pc EXCEPT ![c] = "done"]
    /\ UNCHANGED <<inRenew, wake, observedVars, reportedLeader, metric, leading>>
    /\ UNCHANGED <<call, cancelled, deadline, stops>>

\* The record release writes: a millisecond's lease, the holder left in it.
ReleaseRecord(c) ==
    [holder |-> observedRecord[c].holder, dur |-> 1, renew |-> now,
     trans |-> observedRecord[c].trans]

(***************************************************************************)
(* The end of renew: release, if it is configured and the observed record  *)
(* is ours; then Run cancels the context of OnStartedLeading and returns.  *)
(***************************************************************************)
LeaveRenew(c) ==
    /\ deadline' = [deadline EXCEPT ![c] = Never]
    /\ \/ /\ ReleaseOnCancel /\ IsLeader(c)
          /\ pc' = [pc EXCEPT ![c] = "release"]
          /\ Invoke(c, "release", ReleaseRecord(c))
          /\ UNCHANGED leading
       \/ /\ ~(ReleaseOnCancel /\ IsLeader(c))
          /\ pc' = [pc EXCEPT ![c] = "done"]
          /\ leading' = [leading EXCEPT ![c] = FALSE]
          /\ UNCHANGED call
    /\ UNCHANGED <<inRenew, wake, observedVars, cancelled, stops>>

\* The context is cancelled between two rounds: wait.Until just returns.
StopBetweenRounds(c) ==
    /\ pc[c] = "wait" /\ inRenew[c] /\ cancelled[c]
    /\ LeaveRenew(c)
    /\ UNCHANGED <<reportedLeader, metric>>

\* Mutants: renew ends without reporting the leader it has observed, or without
\* leaderOff.
StopPollingUnreported(c) ==
    /\ pc[c] = "poll" /\ CtxDone(c)
    /\ LeaveRenew(c)
    /\ metric' = [metric EXCEPT ![c] = FALSE]
    /\ UNCHANGED reportedLeader

StopPollingOn(c) ==
    /\ pc[c] = "poll" /\ CtxDone(c)
    /\ LeaveRenew(c)
    /\ MaybeReportTransition(c)
    /\ UNCHANGED metric

\* The context ends within a round: PollImmediateUntil returns an error.
StopPolling(c) ==
    /\ pc[c] = "poll" /\ CtxDone(c)
    /\ LeaveRenew(c)
    /\ metric' = [metric EXCEPT ![c] = FALSE]
    /\ MaybeReportTransition(c)

\* release is over, and with it renew and Run.
ReleaseEnds(c) ==
    /\ pc[c] = "release"
    /\ Return(c)
    /\ pc' = [pc EXCEPT ![c] = "done"]
    /\ leading' = [leading EXCEPT ![c] = FALSE]
    /\ UNCHANGED <<inRenew, wake, reportedLeader, metric, cancelled, deadline, stops>>

ReleaseSucceeds(c) ==
    /\ call[c].st = "ok"
    /\ SetObservedRecord(c, call[c].rec)
    /\ UNCHANGED observedRawRecord
    /\ ReleaseEnds(c)

ReleaseFails(c) == ReleaseEnds(c) /\ UNCHANGED observedVars

-----------------------------------------------------------------------------
\* The application cancels the context it gave to Run.
Cancel(c) ==
    /\ pc[c] \notin {"off", "done"} /\ ~cancelled[c] /\ stops < MaxStops
    /\ stops' = stops + 1
    /\ cancelled' = [cancelled EXCEPT ![c] = TRUE]
    /\ leading' = [leading EXCEPT ![c] = FALSE]
    /\ UNCHANGED <<pc, inRenew, wake, observedVars, reportedLeader, metric>>
    /\ UNCHANGED <<call, deadline>>

\* The process dies, or exits after Run; Run may then start a new one with
\* the same identity.
Crash(c) ==
    /\ pc[c] # "off" /\ stops < MaxStops
    /\ stops' = stops + 1
    /\ pc' = [pc EXCEPT ![c] = "off"]
    /\ inRenew' = [inRenew EXCEPT ![c] = FALSE]
    /\ wake' = [wake EXCEPT ![c] = 0]
    /\ observedRecord' = [observedRecord EXCEPT ![c] = ZeroRecord]
    /\ observedRawRecord' = [observedRawRecord EXCEPT ![c] = ZeroRecord]
    /\ observedTime' = [observedTime EXCEPT ![c] = 0]
    /\ reportedLeader' = [reportedLeader EXCEPT ![c] = NoOne]
    /\ metric' = [metric EXCEPT ![c] = FALSE]
    /\ leading' = [leading EXCEPT ![c] = FALSE]
    /\ call' = [call EXCEPT ![c] = Idle]
    /\ cancelled' = [cancelled EXCEPT ![c] = FALSE]
    /\ deadline' = [deadline EXCEPT ![c] = Never]

\* The steps with which an elector goes on when a call has returned without
\* an error, or with os.ErrNotExist from Get.
Resume(c) ==
    \/ CreateRecord(c) \/ LeaseHeld(c) \/ TakeOrRenew(c)
    \/ SetSucceeds(c) \/ ReleaseSucceeds(c)

\* The steps with which it goes on when the call has failed.
Fail(c) == CallFails(c) \/ ReleaseFails(c)

\* The steps that need no call to return.
Proceed(c) ==
    \/ Run(c) \/ StartTry(c) \/ StartRound(c) \/ PollTick(c)
    \/ StopAcquiring(c) \/ StopBetweenRounds(c) \/ StopPolling(c)
    \/ Cancel(c)

\* No timer of c has fired and no context it waits on is done: the assumption
\* that a goroutine that can run does so before the clock advances.
NoTimerDue(c) ==
    /\ pc[c] \in {"wait", "poll"} => now < wake[c] /\ ~cancelled[c]
    /\ pc[c] = "poll" => now < deadline[c]

-----------------------------------------------------------------------------
(***************************************************************************)
(* What an election over any lock is judged by.                            *)
(***************************************************************************)
\* How long a leader may act on a lease, counted from the RenewTime of its
\* last successful try: the two calls of that try, the pause before the next
\* round, that round, and the release that Run makes before it cancels the
\* context of OnStartedLeading.
LeadTime ==
    2 * RequestTimeout + RetryPeriod + RenewDeadline
      + (IF ReleaseOnCancel THEN RequestTimeout ELSE 0)

\* At most one client has a live OnStartedLeading context: renew gives up, and
\* Run cancels that context, before tryAcquireOrRenew of another client may
\* take the lease.
MutualExclusion ==
    \A c, d \in Client : leading[c] /\ leading[d] => c = d

\* c is a candidate that has seen nothing but the same expired record for the
\* time of n retries.
StuckFor(c, n) ==
    /\ pc[c] \in {"wait", "get", "set"} /\ ~inRenew[c]
    /\ observedRawRecord[c] # ZeroRecord
    /\ now > observedTime[c] + observedRawRecord[c].dur
               + n * ((22 * RetryPeriod) \div 10 + 2 * RequestTimeout)
=============================================================================
