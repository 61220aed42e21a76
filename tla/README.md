# Leader election: models, checks and proofs

This directory holds a TLA+ development of `linka-cloud/leaderelection`, a Go
library in which the processes of a service elect a leader through a shared
record: the elector of `leaderelection.go`, and a `Lock` that stores the record
in a Kubernetes Lease, an S3 object, a git repository or a gossip cluster.

It says what the elector does and guarantees over each of the four, with slow,
lost, refused and late requests, crashes, restarts, cancellation and release. It also
models the key-value store under the gossip lock, on nodes that crash, lose sight of
each other or have different clocks, and the DNS lookups with which its nodes find each
other. Most of what the runs check on small instances is also proved, for any number of
clients, nodes and failures; the section Proofs says what, and under which conditions.

In short: over Kubernetes the election is a lease in the sense of `LeaderLease` if the durations
satisfy `SafeTiming` and the Lease is not deleted; over git, if no client releases and LeaseDuration
exceeds `LeadTime`. Over S3 and gossip, whose writes are
not conditional, two clients may lead at once, but only after a race and for no
longer than `LeadTime`. `LeadTime` counts requests, which over S3 and git are assumed to end in
time (see Time, below). Where the code does otherwise than its comments say, a section below
lists it.

## Inventory

| Part | State | Operations | Interacts with |
| --- | --- | --- | --- |
| LeaderElector (`leaderelection.go`) | `observedRecord`, `observedRawRecord`, `observedTime`, `reportedLeader`, the position of `Run` in its loops, its timers and contexts | `Run`, `acquire`, `renew`, `tryAcquireOrRenew`, `release`, `maybeReportTransition`, `IsLeader`, `GetLeader`, `Check` | calls a Lock; calls back the application (`OnStartedLeading` with a context, `OnStoppedLeading`, `OnNewLeader`); read by the health endpoint |
| Lock interface (`interface.go`) | none | `Get`, `Create`, `Update` of a `Record` | implemented by the four locks |
| Kubernetes LeaseLock (`k8s/k8s.go`) | the last Lease it got, with its resourceVersion | `Get`, `Create`, `Update`, two conversions between `Record` and `LeaseSpec` | API server, with optimistic concurrency |
| S3 lock (`s3/s3.go`) | the etag it got last | `Get`; `Create` and `Update` through `set`: Stat, compare, Put | object store |
| Git lock (`git/lock.go`) | an in-memory clone | `Get` (fetch, checkout, read); `Create` and `Update` through `set` (commit, push) | remote repository |
| Gossip lock and store (`gossip/*.go`) | a last-writer-wins map, its confirmation channels, the broadcast queue | `Get`, `Set`, `Delete`, `NotifyMsg`, `MergeRemoteState`, `LocalState` | memberlist |
| DNS discovery (`gossip/internal/dns`) | a cache of resolved addresses | `Resolve`, `Addresses`, lookups | DNS servers; read once when the store joins |
| Metrics, HealthzAdaptor, signals, logging | a switch; a pointer; a channel | on/off; `Check`; cancel, then exit | the elector |

What is hard in this code, in short (`hazards` in `PROJECT.json` has the list,
each at its line):

* **Time.** A leader and the candidates never talk; what keeps them apart is
  that the leader gives up before the candidates' wait is over. `New` checks
  less than that needs.
* **Requests that outlive their caller.** A request may be carried out although
  its reply was lost, its timeout has passed or its process has died.
* **Stale knowledge.** The elector decides on a record and a time it took
  before the answer, and keeps its own idea of who leads between calls.
* **Ends.** Cancellation may hit between any two steps of two nested wait loops,
  and the release runs under another context before the leader's own context is
  cancelled.
* **Conversions.** The Lease stores whole seconds.
* **Writes in two steps.** The S3 lock compares and then writes; the git lock commits and
  then pushes, and what is left behind when the second step fails decides what the next
  call does; the gossip lock writes without comparing.
* **Waiting without an end.** The gossip store confirms a write when another node has
  it, and waits for as long as its context lives, which may be for ever.

What makes each part correct: for the elector, at most one live leader
(`MutualExclusion`), which is the one the record names (`LeaderHoldsLease`) and
which is healthy (`HealthyWhileLeading`); candidates that get past a dead leader
(`CandidateNotStuck`); reports that keep up (`LeaderReported`). For the Lease:
it changes hands only when it has expired (`TakeoverWaitsLease`), and counts it
(`TransitionsCountHolders`). For the S3 and git locks: an Update based on an old
record does not succeed, or the damage ends (`OneLeaderAfterRace`). For all of them: the
election is a lease with one owner (`ImplementsLease`). For DNS discovery: an answer is one that
was given (`SearchOutcomeSound`), and a failure forgets nothing (`LastGoodAnswer`). For the gossip store: what is confirmed another node has
(`ConfirmedIsShared`) and keeps (`AckedSurvives`), replicas converge (`Converges`), and
a Set is woken (`SetsEnd`).

## Modules

| Module | Models |
| --- | --- |
| `LockInterface` | `Record`, the call a client waits for, contexts, the clock |
| `Elector` | `leaderelection.go`: one action per step of `Run` between two blocking points |
| `LeaderLease` | abstract specification: what an election promises, whatever the lock |
| `K8sLock` | `k8s/k8s.go`, and the API server and network as its client sees them |
| `K8sElection` | electors over a Lease: the composition, and the properties |
| `ElectorInv`, `ElectorProofs` | what holds of an elector over any lock, and its proof step by step |
| `K8sElectionInv`, `K8sSafetyProofs`, `K8sTimingProofs` | the inductive invariants over a Lease; theorems and proofs without and with conditions on the durations |
| `S3Lock`, `S3Election` | `s3/s3.go` and the object store; electors over an object |
| `S3ElectionInv`, `S3Proofs` | their inductive invariants; theorems and proofs |
| `GitLock`, `GitElection` | `git/lock.go`, go-git and the server as it uses them; electors over a file in a repository |
| `GitElectionInv`, `GitProofs` | their inductive invariant; theorems and proofs |
| `GossipLock`, `GossipElection` | `gossip/lock.go` on one key of the store; electors over it |
| `GossipElectionInv`, `GossipElectionProofs` | their inductive invariants; theorems and proofs |
| `MCElector`, `MCK8sElection`, `MCS3Election`, `MCGitElection`, `MCGossipElection` | symmetry and the views for TLC |
| `GossipStore` | `gossip/delegate.go`, `kv.go`, `action.go`, `broadcast.go`, `gossip.go`, and memberlist as they use it; its properties |
| `GossipStoreInv`, `GossipStoreProofs` | its inductive invariants; theorems and proofs |
| `MCGossipStore` | clock offsets, symmetry and views for TLC |
| `DnsLookup` | `dns/resolver.go` and `dns/miekgdns`: the lookups as operators on what the servers reply |
| `DnsProvider` | `dns/provider.go`: the cache, while the replies change; its properties, and those of the lookups |
| `DnsProofs` | the invariant of the cache, and its proof |
| `MCDnsProvider` | servers, search list and zones for TLC |

The modules of an election all extend `Elector` and one lock; both extend `LockInterface`,
whose variable `call` is where they meet: the elector begins a call, the lock answers it,
and `Resume` or `Fail` of the elector is joined with what the lock does when the call returns.

**The elector.** The goroutine of `Run` blocks in a timer (`wait`), in the ticker
of a renew round (`poll`), or in a call (`get`, `set`, `release`); everything
it does from one of these points to the next is one action. `tryAcquireOrRenew` is
`StartTry`/`StartRound`/`PollTick` (up to the Get), then `CreateRecord`,
`LeaseHeld` or `TakeOrRenew` when the Get has returned, then `SetSucceeds`;
`CallFails` is the early return on an error of any call. `SetSucceeds` contains
what follows the `true`: the report, the metric, the context of
`OnStartedLeading`, the next timer. The ways out are `StopAcquiring`,
`StopBetweenRounds` and `StopPolling`, with `LeaveRenew` and the release.
`leading[c]` is true from the call of `OnStartedLeading` for as long as its
context is live: until the context of `Run` is cancelled, or `Run` returns, after the
release. `AcquireTime`, which is copied and never read, is left out of `Record`.

The ticks of `PollImmediateUntil` are those of the library: the first comes
RetryPeriod after the first try of the round has failed, and one that falls into a try
is dropped. `RetryDelays` is what `wait.Jitter` returns with factor 1.2.

**The lock.** `held[c]` is the resourceVersion of the cached Lease (0: none, or the
empty object that a failed Create leaves in `ll.lease`). `GetAnswered` and
`WriteAccepted` are the server's; `Returns` is the reply arriving. A call fails
because the server refuses it (`Refused`), its context ends (`ContextEnds`), or
it is lost or times out (`Lost`); in the last two cases a write that was on its
way joins `late`, from where the server may still carry it out (`LateWrite`). A
write that names a version that is gone can never be accepted and is dropped
from `late`. The conversions cut durations to whole seconds (`Second` clock
units), and zero to one.

**The S3 lock.** `Get` is `GetStat` and `GetObject`, `set` is `SetStat` and `PutObject`; others
may act between the two. The ETag is a hash of the content, so it is modelled by the record
itself. `GetStatFails` is the error that Get does not look at. Requests are lost and
late as for the Lease, but a late PutObject overwrites whatever there is. `raced` is a history
variable: when the object was last deleted, replaced by a PutObject whose StatObject had not
seen it, or released by a client that was not its holder.

**The git lock.** A commit is the sequence of the contents of the lock file up to it, so that
a fast-forward is a proper prefix. `head[c]` and `branch[c]` are HEAD and the local branch of a
clone, which part when a push has failed: `Checkout` of a hash detaches HEAD, and from then on
commits move HEAD and pushes send the branch. `Returns`, `PushFails` and `CloneAfterFailure` say what a call
leaves behind. Whether a forced pull of go-git resets a HEAD that is not behind
the server's branch is not visible here; the model allows both outcomes.

**The gossip lock.** `GossipLock` is the store cut down to the one key of the lock, without
its mutex and its queue, which `GossipStore` models: `entry[c]` is the entry in the map of c,
`sent[c]` the copies of it that may arrive, once, again, late or never. Clocks agree and
no two Sets share a millisecond, so timestamps are a count of the Sets; what happens otherwise
`GossipStore` shows. `on[c]` is the entry whose channel a call waits for. A call ends when the entry
is confirmed or its context is done, and there is no request timeout; when both are the case, the `select` of a Get
that finds an entry, and that of a Set, may end either way. A new process joins with the map of a member, or with none
if it reaches only itself (`Join`). `raced` is a history
variable as for S3; here it is set by a Set whose client had not seen the newest entry, and by
a confirmation that came later than RequestTimeout.

**DNS discovery.** A zone gives every server's reply to every question over UDP and TCP. The
lookups are operators on it: the recursion over CNAMEs is a recursive function on the number of
aliases left. The provider resolves one address per action, and the zone may change in between.
`newKVStore` is the only caller of Resolve in the library, and calls it once on a provider of its own: what the cache
keeps from one call to the next (`LastGoodAnswer`) is a property of the component, which the library as it is does not use.

**The gossip store.** `kv[n][k]` is the map of a node. A Set makes an entry with a
channel of its own (1, 2, ...); an entry that came from another node has the channel 0,
which is closed from the start. `confirmed[ch]` tells who closed a channel: another
node's message (`heard`) or the node itself because it was alone. The calls
under way are in `waiting`, each at the point where it can be interrupted: `set` is
`SetNew` (up to the release of kmu), `QueueSet`, then the loop, `SeesAlone`, `ClosesAlone`,
`Returns`, `GivesUp`; `SetAgain` is its early branch, which waits with kmu held, so that
`Locked(n)` disables everything at n that needs the mutex. `maybeClose` without kmu is two
steps, and the second one panics if the channel was closed in between
(`ClosePanics`). NotifyMsg is `NotifyConfirms` and `NotifyReplaces`, a skipped message no step;
LocalState and MergeRemoteState are separate steps, so that a merged copy can be stale.
Datagrams stay in `packets` and may arrive at any time, any number of times or never;
a broadcast that `Invalidates` drops from the queue may already be among them.
memberlist's view of the cluster is reduced to `alone`, all that `NumNodes() == 1` reads; a node may take the
others for dead rightly (`Deserted`), at no cost, or wrongly, which `MaxUpsets` counts.
`stored` and `acked` are history variables, read by the properties only. The
nodes have joined in the initial state; joining is what a process does that restarts.

**Time** in the election is one integer clock. The elector compares only instants it has read itself,
so offsets between clocks change nothing; different clock rates are left out. The clock
advances only when no timer has fired and no call has reached its timeout
(`NoTimerDue`, `CallMayWait`): a goroutine that can run does so before the next
unit of time. Every call, except over gossip, ends within `RequestTimeout` (`TimedOut`, `CallMayWait`). For Kubernetes this is the
timeout of the client that `NewFromKubeconfig` makes. For S3 and git it is an assumption on the
environment: neither `s3/s3.go` nor `git/lock.go` sets a timeout, the context of acquire has no deadline
(`leaderelection.go:240`) and release has `context.TODO()` (`leaderelection.go:302`), so that only the tries of renew are
bounded by the code, by RenewDeadline. A success that arrives later than that may make a client
lead on a lease that has ended; over gossip the model has such a success, and counts it as a race. A process that is paused for longer is what no lease
without fencing survives, and the package comment says that there is none.

## Runs

The runs of the election have two clients and use `Symmetry`, which permutes them, and `View`.
(`RaceView` and `StuckView` over gossip; all are built in `MCElector`.) Nothing in the model depends on the value of the clock, of a resourceVersion or of
LeaderTransitions: only on differences of instants, on which versions are
current and on which records are equal. The views keep just that, and drop
variables that are dead (the timers of a client that is not running, the age of
a record once it is older than any lease; over gossip, where no RenewTime is compared with the clock, all but the order of the
RenewTimes). Runs with other values of `MaxTime` (30 and 90)
have found the same number of states: the clock bound of 60 cuts nothing off. (With symmetry the number over gossip varies by a few states from run to run,
as the representatives TLC picks differ in what the view drops; without symmetry it does not.)

| Run | Setting | Shows |
| --- | --- | --- |
| `k8s_delays` | requests take up to 1, 1 failure, 1 cancellation or crash, LeaseDuration 6 = LeadTime + 1 | `TypeOK`, `MutualExclusion`, `LeaderHoldsLease`, `HealthyWhileLeading`, `ImplementsLease` |
| `k8s_stops` | release on cancel, 1 cancellation or crash, 1 deletion; a second is 2 units, so that a LeaseDuration of 3, which `New` accepts, is stored as 2, too short for SafeTiming | `CandidateNotStuck`, `LeaderReported`, `MetricOffUnlessCancelled`, `TakeoverWaitsLease`, `TransitionsCountHolders` |
| `s3_faults` | release on cancel, LeaseDuration 4; 1 failure, deletion, cancellation or crash | `TypeOK`, `OneLeaderAfterRace`, `CandidateNotStuckUnlessRaced`, `TakeoverWaitsLease` |
| `s3_release` | the same | violation of `ReleaseOwnLease`: a release replaces a record of another client |
| `git_faults` | release on cancel, 1 failure, 1 cancellation or crash, a repository with or without a commit | `TypeOK`, `CandidateNotStuckUnlessDetached`, `ImplementsLease` |
| `gossip_lock` | copies late or lost, LeaseDuration 4; 1 cancellation, crash with a restart alone or through a member, or node that takes the other for dead | `TypeOK`, `OneLeaderAfterRace` |
| `gossip_release` | release on cancel, copies late or lost | `GivesUpUnlessReleasing`, `CandidateNotStuckUnlessWaiting` |
| `gossip_copies` | 2 nodes with equal clocks, 2 Sets; 1 crash or node that takes the other for dead | `AckedSurvives` |
| `gossip_deletes` | one clock ahead, 2 Sets, 1 Delete, 2 copies of maps at a time, a waiting Get | `TypeOK`, `ConfirmedIsShared` |
| `gossip_converge` | one clock ahead, 2 instants, with fairness; 2 Sets, or 1 Set and 1 crash or node that takes the other for dead | `Converges`, `SetsEnd` |
| `gossip_skew` | one clock ahead, 2 Sets, with fairness | violation of `SkewTolerated`: a Set on the node whose clock is behind is never confirmed |
| `dns_resolve` | all replies of 2 servers to one question, all outcomes of a search list of 2, aliases among 3 names; 2 changes of the zone, 3 lists of addresses of every query type | `TypeOK`, `SearchOutcomeSound`, `AliasesFollowed`, `LastGoodAnswer` |

`ReleaseOwnLease` and `SkewTolerated` state what a comment says, and TLC finds a behaviour of the code
that breaks it; `findings` in `PROJECT.json` quotes the comments.

Bounds: `MaxFaults` calls fail for no reason of their own, `MaxStops` contexts are
cancelled or processes die, `MaxDeletes` deletions happen. One failure is what it takes to leave a
write behind, one stop gives a cancellation at every point, or a crash, with the write it leaves
behind, and a restart under the same identity. Over S3 a deletion counts as a failure, and
`MaxTroubles` bounds failures and stops together.
`LeadTime` is the time a leader may act after the RenewTime of its last successful
try: two requests, RetryPeriod, RenewDeadline, and one more request when it
releases. `SafeTiming` asks for a stored lease that is longer. This is sharp: with
a RenewDeadline of 3, a LeaseDuration of 6 = LeadTime and two failures in `k8s_delays`, TLC finds two leaders. (With the
RenewDeadline of 2 and one failure of the run itself it does so for a LeaseDuration of 4.) With release on cancel `MutualExclusion` is a theorem, see
below; `k8s_stops`, where releases happen, has durations for which it does not hold. The package's
defaults for Kubernetes (15 s, 10 s, 2 s, and the request timeout of 5 s that
`NewFromKubeconfig` derives) do not satisfy `SafeTiming`; the package comment says that it does not
guarantee a single acting leader.

The locks other than Kubernetes run with requests that take no time (the theorems hold for any `RequestTimeout`): their
hazards are in the order of the steps, not in their duration, and a call may still be overtaken, lost or late.
Over gossip the waiting that matters has no bound at all. `MaxSent` copies of a node may be on
their way: 2 in `gossip_release`, an older one and the current one, so that an old copy can arrive after a
newer one; 1 in `gossip_lock`, the current one, which may come late or never (the theorem
holds for any number). A node that takes a live member for dead (`TakenForDead`) counts as a stop; one that is right about it costs nothing. In
`dns_resolve` three aliases stand for the eight of the code (`MaxIterations`): chains below, at and above the limit.

The runs of `GossipStore` have one key, since keys meet only in the mutex, and two values. Two Sets are
what it takes to replace an entry, to race, to tie and to repeat a value; time 0 and
1 (or two offsets) give an order and a tie; `MaxUpsets` bounds crashes and false deaths together. In
`gossip_converge` `MaxEvents` bounds Sets and upsets together, since two Sets and an upset are too many states for a liveness check: it has two
values that race, or one entry that is confirmed alone, lost on one node or waited for when the other node dies. An entry that was confirmed alone and
then meets another value is only in `gossip_copies`. Values are never empty, as the JSON of the lock never is: a
delete action carries the empty value, and with it among the values `ConfirmedIsShared`
fails. The store may have nothing left to do, so deadlock is not checked there. The
views drop the history variable a run does not read and the state of channels nobody
refers to; the runs with fairness have neither view nor symmetry.

`gossip_skew` is about the offset alone: `BegunLast` asks that no other call is under way and
that no other entry has the value or the timestamp. With equal clocks and two instants TLC
finds no counterexample to `SkewTolerated`.

Fairness of `GossipStore`'s `FairSpec`: goroutines that can run do; each pair of members exchanges maps again
and again (memberlist picks a random member at each PushPullInterval, which must not
be 0 as in the example of `gossip/README.md`); whoever waits for kmu gets it, as Go's
mutex hands over to a waiter it has starved, hence strong fairness; a node whose members are all dead notices
(memberlist probes them), and one that has lost sight of live ones finds one again. One assumption is on the callers and not on the code: a Set that waits with
kmu held has a context that ends. Under a context that does not, such a Set blocks its node for good (`delegate.go:170`), and
neither property holds. Nothing is assumed of datagrams.

The runs of the election assume no fairness. `CandidateNotStuck` and its like are a bounded form of progress: it is
the urgency of `Tick` that makes a candidate act, so that it follows from safety
alone. What they grant a candidate after the end of the record it has read is counted in retries (`StuckFor`): one
over gossip, where a call takes no time unless it waits for another node; two and one for each failure over git and
S3; three, and one for each failure or deletion, over Kubernetes. The third is needed: when the
context of a leader's round ends, its write may be left behind without any failure, and may repeat the record that the candidate is waiting
behind, so that the candidate observes no change and its Update conflicts. TLC finds that with a LeaseDuration of 6, requests that take 1 and
one failure.

Each property has a mutant, an operator named beside the definition it
replaces: a bug of the kind the code could have, which the run then finds.

## What the code does otherwise than its comments say

Found while modelling; each was seen in a behaviour that TLC gave. The first two are runs. Of the
others the properties of the passing runs except just what is described, so that they show that
nothing else goes wrong.

* S3: Get takes the ETag before the object, so a client cancelled inside Get may release over
  another client's record (`s3/s3.go:70`; `leaderelection.go:283`: "if we hold the lease, give it up").
* Gossip: timestamps are wall clocks, so a node whose clock is behind cannot write
  (`gossip/delegate.go:73,179`; `leaderelection.go:27-28`: "tolerant to arbitrary clock skew").
* S3: after a deletion the Create of a client that has seen the object is refused
  (`s3/s3.go:117`; `leaderelection.go:323`: "obtain or create the ElectionRecord"). Excepted in
  `CandidateNotStuckUnlessRaced`.
* Git: after a push that failed, HEAD is detached and pushes send the branch: the candidate is stuck for as
  long as it runs, or an Update returns nil having stored the record of an earlier try
  (`git/lock.go:157-158`; `interface.go:52`). Excepted in `CandidateNotStuckUnlessDetached`.
* Git: in a repository without a commit Get fails with an error that is not os.ErrNotExist, and no record
  is ever created (`git/lock.go:78`; `leaderelection.go:323`).
* Gossip: a Set whose entry was replaced before it was confirmed waits for as long as its context lives, and
  acquire gives it no deadline (`gossip/delegate.go:197`, `leaderelection.go:240`; `leaderelection.go:132-133`).
  Excepted in `CandidateNotStuckUnlessWaiting`.
* Gossip: release waits under context.TODO() with the leader's context live, past RenewDeadline
  (`leaderelection.go:302`; `leaderelection.go:127-128`: "before giving up"). Excepted in `GivesUpUnlessReleasing`.
* Release keeps HolderIdentity (`leaderelection.go:296`; `interface.go:31`: "set to empty when a client
  voluntarily steps down").
* Cancelled between two rounds, renew ends without leaderOff (`leaderelection.go:278`; `metrics.go:45`: "if the current process
  is the owner of name lease"). Excepted in `MetricOffUnlessCancelled`.
* The Lease stores whole seconds, and a candidate waits for these (`k8s/k8s.go:187`; `leaderelection.go:118`: "a full
  LeaseDuration"). `TakeoverWaitsLease` speaks of the stored duration.
* When a Create is lost, the Lease deleted and the late Create then carried out, it may bring back the very
  record a client has last seen: that client observes no change, and its takeover does not count (`leaderelection.go:341`).
  `k8s_stops` therefore has a deletion but no lost calls.
* DNS: a name that does not exist is an error, not an empty answer (`miekgdns/lookup.go:73`; its lines 41-42). The
  callers rely on the error.
* DNS: an AAAA lookup that failed is forgotten when A is answered with no records, and the cached addresses are
  dropped (`miekgdns/resolver.go:78`; `miekgdns/lookup.go:36-39`: "keep it that way until we know for sure").

## Proofs

The theorems hold for every set of clients or nodes, every value of the bounds, and all
durations that `New` accepts (`ElectorAssumption`), without view or symmetry. A condition beyond
that is part of the theorem.

| Theorem | Condition | Says |
| --- | --- | --- |
| `K8sSafetyProofs!TypeCorrect` | | `TypeOK` |
| `LeaderIsReported`, `MetricGoesOff` | | `LeaderReported`, `MetricOffUnlessCancelled` |
| `HealthyLeader` | `UnobservedTime <= LeaseDuration` | `HealthyWhileLeading` |
| `SafetyInvariant`, `TakeoverSafe`, `TransitionsSafe` | no deletion | `SafetyInv`, `TakeoverWaitsLease`, `TransitionsCountHolders` |
| `K8sTimingProofs!TimingInvariant`, `LeaderSafe`, `OneLeader` | no deletion, `SafeTiming` | `TimingInv`, `LeaderHoldsLease`, `MutualExclusion` |
| `K8sTimingProofs!LeaseImplemented` | the same | `ImplementsLease` |
| `K8sTimingProofs!CandidatesInvariant`, `CandidateMovesOn` | the same | `CandidatesInv`, `CandidateNotStuck` |
| `GitProofs!TypeCorrect` | | `TypeOK` |
| `GitInvariant`, `OneLeader`, `LeaseImplemented` of `GitProofs` | no release, `LeaseDuration > LeadTime` | `GitInv`, `MutualExclusion`, `ImplementsLease` |
| `GitProofs!CandidatesInvariant`, `CandidateNotStuck` | | its `CandidatesInv`, `CandidateNotStuckUnlessDetached` |
| `S3Proofs!TypeCorrect` | | `TypeOK` |
| `S3Proofs!StoreInvariant`, `TakeoverSafe` | no release | `StoreInv`, `TakeoverWaitsLease` |
| `S3Proofs!CandidatesInvariant`, `CandidateMovesOn` | no release | its `CandidatesInv`, `CandidateNotStuckUnlessRaced` |
| `LeadersInvariant`, `OneLeaderUnlessRaced` | no release, `LeaseDuration > LeadTime` | `LeadersInv`, `OneLeaderAfterRace` |
| `GossipElectionProofs!TypeCorrect`, `LeaderGivesUp` | | `TypeOK`, `GivesUpUnlessReleasing` |
| `CandidatesInvariant`, `CandidateWaitsForNodes` of `GossipElectionProofs` | | its `CandidatesInv`, `CandidateNotStuckUnlessWaiting` |
| `GossipElectionProofs!StoreInvariant` | no release | its `StoreInv` |
| `LeadersInvariant`, `OneLeaderUnlessRaced` of `GossipElectionProofs` | no release, `LeaseDuration > LeadTime` | `LeadersInv`, `OneLeaderAfterRace` |
| `GossipStoreProofs!TypeCorrect` | | `TypeOK` |
| `GossipStoreProofs!StoreInvariant`, `ConfirmedShared` | `DeletesDiffer` | `StoreInv`, `ConfirmedIsShared` |
| `ConfirmedSurvives` | finitely many nodes, `ClocksAgree`, no deletes | `AckedSurvives` |
| `CacheKeepsAnswers` | `NoRepeats` | `LastGoodAnswer` |

The conditions. `UnobservedTime` is a pause, a round and, if it is configured, a release; `SafeTiming`
implies that it fits into LeaseDuration, except for a LeaseDuration below one second, which the Lease
stores as one. "No release" is `ReleaseOnCancel = FALSE`, the default of the configuration. `DeletesDiffer`: no caller
stores the empty value, or none deletes; `gossip/lock.go` stores marshalled records, which are never empty, and
never deletes. `ClocksAgree` and "no deletes" are sharp: `gossip_skew` shows the one, and a delete is meant to lose the
entry. `NoRepeats`: if an address is listed twice, and the second lookup fails where the first succeeded, the provider falls
back to the answer before both (`provider.go` looks into the old map), so the property needs lists without repeats; the
code does not remove them. Of the repository git starts from it is assumed that the lock file does not exist in it
(`GitAssumption`).

**The elector over any lock.** `ElectorInv` is what an elector keeps, whatever the lock answers: its pc agrees with its
call, the leader it has reported is the one it has observed whenever it is outside a try, the metric is on only
while it leads or after a cancellation, no timer is overdue, and a leader has a pause and a round
since it last observed its record. `ElectorProofs` shows that each action of `Elector` preserves it, and that a lock
does which answers a call without changing its kind, time or record. The four elections cite it; `LeaderIsReported`, `MetricGoesOff`,
`HealthyLeader` and `LeaderGivesUp` are direct consequences.

**Kubernetes.** A write changes the Lease only if it names its current version.
`SafetyInv` shows that every such write, waited for or late, is *justified*: its author
is the holder and keeps LeaderTransitions, or the Lease has expired and it adds one.
For that one has to know what a client that takes itself for the leader has seen: either
its raw record is its own, or the Lease has moved on (`ObservedInv`), and if it
holds the current version it really is the holder (`HeldInv`); that the record
a Get returned is the stored one as long as its version is current (`GetInv`); and that an
accepted write is what its version holds (`AcceptedInv`). None of these is implied
by the properties, and none is preserved alone.

`TimingInv` adds that timers, deadlines and calls are never overdue (`ClockInv`), that
a leader's lease began late enough for the round it is in, and so did any write of its
own that is still on its way (`LeadInv`). So the lease of a leader has not expired;
then a justified write can only be the leader's own, and the leader stays the holder.
The same holds from the moment its first write is accepted (`AckInv`), before it knows.

For the refinement, the initial state maps to an initial state, and each action to a step of the
lease or to none: an accepted write, waited for or late, is a `Grant`, for it is
justified; the success of the first write is a `Lead`, for the writer is the holder (`AckInv`) and no one
else can be a leader; every way out of renew, and a crash, is a `Quit` or nothing; and `Wait` is allowed because
the lease of a leader has not expired in the state after it either. Two facts beside `TimingInv` are
needed: a Lease that does not exist is the empty one of the initial state (`Unwritten`), and a leader
holds the Lease, which has not expired (`LeadersSecure`).

**Git.** In the place of the resourceVersion is the fast-forward: the server takes a commit only if it has the
server's as its parent. The difficulty is the clone with a detached HEAD, whose pushes send another commit than the one
set has just made. `GitInv` therefore says of *every* commit that may still be pushed, those of late pushes and the branches of
detached clones (`PoolInv`), that it adds exactly one record if it is a fast-forward at all, and that this record
is justified by the one it replaces (`Sound`). Every record the file has had is followed by what it holds
now, in transitions and then in RenewTime (`Past`): so a record does not come back, a client that sees
the record it saw before knows that the lease began no later (`ObservedInv`), and the argument for Kubernetes
applies, with `taken`, the time the server took the last push, for the start of the lease.

**S3.** PutObject is unconditional, so nothing holds of a write that raced; the proof keeps apart what did and what did not. As long
as each PutObject replaces the object its client knew, the RenewTime of the object only grows, and no record comes back; any other
PutObject, and a deletion, is later than every record there is (`Raced`). So of each ETag and each record a client
has seen, the object is that record, or a newer one, or there was a race since (`Seen`). A PutObject whose ETag
is the object's then renews it or takes over a lease that has ended (`Sound`), however late it comes. For the leaders,
`LeadEnd` is the latest time at which a leader gives up, and it holds the object since `LeadEnd - LeadTime`, or there was a race since
(`HeldSince`); two leaders without a recent race would both be its holder.

**The gossip lock.** A Get that waits does so for an entry of its own node whose Set was given up, and a Set is given up only when
its context is done (`OwnInv`): such a Get fails at once, and every other one takes no time (`GetInv`). So the RenewTime of an entry is the
time of its Set, and of any two entries, in maps or on their way, the one with the later timestamp was renewed later (`RowsInv`). A
client about to Set has read the record of the entry it has seen, and holds it or has waited for its end (`ObservedInv`, `SetInv`); if
this entry is not the newest, its Set is a race. So a client's Set is the newest for as long as its lease lasts, from when it is made and
not only from when it is confirmed (`AckInv`), and the newest entry is a leader's since `LeadEnd - LeadTime`, or there was
a race since (`NewestSince`, `LeadInv`). Two leaders without a recent race would both have the newest entry. `gossip_lock` checks the
property without releases as well: with them a leader may wait in release without bound.

**The candidates.** What is counted is when the try of a candidate started, or will start (`TryStart`), against the end of the record it has
read and the retries since (`Due`, `StartsBy`). A try that starts before the end, and the pause after it, are over one retry later;
a call that fails puts off the next try by one retry, whatever fails; and the clock stands still for a client whose context is cancelled,
so that only the others have to be followed. This much is the elector's (the last part of `ElectorProofs`); what each lock adds is
which failures there are and why they do not repeat without a fault that is counted (`RetryInv`):

* Gossip: no time passes in a Get that does not wait for a node (`PromptInv`), so that one retry is enough.
* Git: a clone all of whose pushes were taken follows the server (`CloneInv`), so a pull fails only if it is lost. A push that is refused
  detaches HEAD, which the property excepts.
* S3: an Update is refused because the object is not the one of its ETag. Then the object has been replaced, and what the candidate has
  read does not come back without a race, so the next Get reads something new; or the StatObject of its Get has failed, and that was counted (`TryInv`, `Blind`).
* Kubernetes: an Update conflicts because the Lease has changed since its Get, and yet the next Get may return the same record, if a late write repeats
  it (`Repeatable`). Only the holder's own writes repeat a record; under `SafeTiming` it stops before the record ends, so
  that no new one can join `late` afterwards, and the one there is is refused once the Lease has another version. `TriesNeeded` tells how many retries this state of the Lease and of `late`
  has used up: one, two when the repeat has happened, three when the Lease has gone on to another record that the candidate has still to read.

**The gossip store.** What is queued, on its way or copied is what its sender has had in its map (`CarriedInv`), and
a channel belongs to one entry, with the calls that wait for it (`ChannelInv`); so whoever closes a channel from outside has
stored its entry (`SharedInv`). For `AckedSurvives`, what a node carries is still in its map or has been replaced by something
newer, unless a process has died (`HeldInv`), and every shared channel stands for an entry with two copies,
less one per crash (`ClaimsKept`).

**DNS.** The outcome of a lookup stays unexpanded. While a list is resolved, the addresses that are done
have their last good answer in the new map, the others have it in the old one (`CacheInv`).

Only model-checked, and why:

* The gossip lock with releases, during which a leader has no deadline (`GivesUpUnlessReleasing` is proved with them).
* Git and S3 with releases. RenewTime has milliseconds, and two records of one client may have the same: a record may be released
  and taken again in one instant, by a process that has restarted, with the content it had before, and the order of records the
  proofs rest on is lost. With two stops and two failures TLC finds a single git client that leads on
  a lease which a late push of its earlier process releases, in this way. It takes a restart within a millisecond, so it is the coarse
  clock of the model that makes this look likely; it is not listed as a finding.
* The takeover properties of the Lease, and `CandidateNotStuck`, when it is deleted.
* `TypeOK`, `SearchOutcomeSound` and `AliasesFollowed` of DNS discovery: what folds and recursive functions compute
  needs induction over data, which is out of the prover's reach.
* `Converges` and `SetsEnd`: liveness under fairness is, too.

## Not modelled

* The callbacks themselves: they run in their own goroutines; what matters of them is
  the context of `OnStartedLeading`. A panic in them is not followed.
* The unlocked read of `observedTime` in `Check`: an invariant is evaluated on whole states.
* The 32-bit width of the seconds and transitions of a Lease: TLC's own integers are no
  wider, and it takes a lease of 24 days or two thousand million takeovers to notice.
* Events, descriptions, logging, and the construction of clients.
* Node metadata of the gossip lock, the number of retransmissions, and a store that goes on
  running after `newKVStore` has returned an error.
* A value that is empty, in the gossip store: the lock never writes one.
* The godns resolver, which hands over to Go's own; calls of `Provider.Resolve` at the same time, which
  the library does not make.
* The provider, factory and no-op variants of the metrics; the pointer of `HealthzAdaptor`.
* Signals: the first cancels the context (`Cancel`), the second ends the process (`Crash`).

## Plan

Done: the elector over the four locks, the gossip store, DNS discovery, the abstract lease and its
refinement, and the proofs above. Left, in this order:

1. Takeovers of a Lease that is deleted, and the candidates of one.
2. An abstract specification of the gossip store: a register that only moves forward in
   timestamp when clocks agree and nothing is deleted, of which `GossipLock` is a part.
