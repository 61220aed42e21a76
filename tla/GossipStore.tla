---------------------------- MODULE GossipStore ----------------------------
(***************************************************************************)
(* The key-value store of src/gossip: on every node a last-writer-wins     *)
(* map, spread by memberlist through broadcasts (datagrams) and through    *)
(* exchanges of the whole map.  Set and Get wait until the entry is        *)
(* confirmed: until another node has sent the value back, or the node is   *)
(* the only member of its cluster.                                         *)
(*                                                                         *)
(* The unit of time is the millisecond to which the timestamps are cut.    *)
(* Wall clocks are a common clock plus a constant offset per node.         *)
(***************************************************************************)
EXTENDS Integers, FiniteSets

CONSTANTS
    Node,       \* the processes, each with one store
    Key,
    Value,      \* what callers store; may contain Empty
    Empty,      \* the empty byte slice, the value a delete action carries
    Skew,       \* Skew[n]: how far the clock of n is ahead
    MaxTime,    \* bound: the common clock stops here
    MaxSets,    \* bound: how many entries are made by Set
    MaxCopies,  \* bound: how many copies of maps are on their way at a time
    MaxReads,   \* bound: how many Gets wait at a time
    MaxDeletes, \* bound: how many entries are removed by Delete
    MaxUpsets,  \* bound: how often a process dies or a node takes the others
                \* for dead
    MaxEvents   \* bound: how many of these and entries made by Set together

ASSUME GossipAssumption ==
    /\ Skew \in [Node -> Nat]
    /\ MaxTime \in Nat /\ MaxSets \in Nat /\ MaxCopies \in Nat /\ MaxReads \in Nat
    /\ MaxDeletes \in Nat /\ MaxUpsets \in Nat /\ MaxEvents \in Nat

VARIABLES
    now,        \* the common clock
    status,     \* status[n]: the process of n is down, joining, or up
    alone,      \* alone[n]: memberlist at n lists n only (NumNodes() = 1)
    kv,         \* kv[n][k]: the entry of key k in the map of n
    confirmed,  \* confirmed[ch]: a channel made by Set, and who closed it
    waiting,    \* the calls under way on all nodes
    queue,      \* queue[n]: the broadcasts waiting to be sent
    packets,    \* the broadcasts that were sent, and by whom
    exchanges,  \* the copies of a node's map on their way to another node
    sets, deletes, crashes, splits,    \* how often, for the bounds
    stored,     \* history: stored[n], what n has ever had in its map
    acked       \* history: acked[k], the newest timestamp that a caller was
                \* told is confirmed by another node

storeVars == <<kv, confirmed, waiting, queue>>
memberVars == <<status, alone, crashes, splits>>
netVars == <<packets, exchanges>>
countVars == <<now, sets, deletes>>
vars == <<storeVars, memberVars, netVars, countVars, stored, acked>>

\* The channel of an entry that came from another node: closed when made.
Heard == 0

Channel == 1..MaxSets

Entry == [value: Value \cup {Empty}, time: Int, ch: 0..MaxSets]

NoEntry == [value |-> Empty, time |-> -1, ch |-> Heard]

Present(e) == e # NoEntry

\* What kv.Encode keeps of an entry and Decode makes of it: the channel is not
\* sent, and the new one is closed as soon as the entry is in the map.
Encoded == [value: Value \cup {Empty}, time: Int]

Encode(e) == [value |-> e.value, time |-> e.time]

Decode(r) == [value |-> r.value, time |-> r.time, ch |-> Heard]

\* The encoding of an action keeps all its fields, the time in milliseconds.
Action == [typ: {"set", "delete"}, key: Key, value: Value \cup {Empty}, time: Int]

(***************************************************************************)
(* A call under way, at the point where it may be interrupted: "queue" and *)
(* "unset" before the broadcast of a set and of a delete is queued, "set"  *)
(* and "get" waiting for a channel, "again" the same with the mutex kmu    *)
(* held, "closing" between the test and the close of maybeClose.           *)
(***************************************************************************)
Wait == [op: {"queue", "set", "again", "closing", "get", "unset"}, node: Node,
         key: Key, value: Value \cup {Empty}, time: Int, ch: 0..MaxSets]

Clock(n) == now + Skew[n]

MoreEvents == sets + crashes + splits < MaxEvents

IsClosed(ch) == ch = Heard \/ confirmed[ch] # "open"

\* Told by another node, not only by being alone.
IsShared(ch) == ch = Heard \/ confirmed[ch] = "heard"

\* maybeClose: closes the channel unless it is closed.
MaybeClose(chs) ==
    confirmed' = [ch \in Channel |->
                    IF ch \in chs /\ confirmed[ch] = "open" THEN "heard" ELSE confirmed[ch]]

\* A Set of n holds kmu while it waits.
Locked(n) == \E w \in waiting : w.op = "again" /\ w.node = n

\* The map of n is free to be read or changed by a member of the cluster.
Ready(n) == status[n] # "down" /\ ~Locked(n)

Replace(w, op) == waiting' = (waiting \ {w}) \cup {[w EXCEPT !.op = op]}

Ack(k, ch, time) ==
    acked' = IF IsShared(ch) /\ time > acked[k] THEN [acked EXCEPT ![k] = time] ELSE acked

Remember(n) ==
    stored' = [stored EXCEPT ![n] =
                 @ \cup {[key |-> k, value |-> kv'[n][k].value, time |-> kv'[n][k].time] :
                           k \in {j \in Key : Present(kv'[n][j])}}]
-----------------------------------------------------------------------------
TypeOK ==
    /\ now \in 0..MaxTime
    /\ status \in [Node -> {"down", "joining", "up"}]
    /\ alone \in [Node -> BOOLEAN]
    /\ kv \in [Node -> [Key -> Entry]]
    /\ confirmed \in [Channel -> {"open", "heard", "alone"}]
    /\ waiting \subseteq Wait
    /\ queue \in [Node -> SUBSET Action]
    /\ packets \subseteq [from: Node, act: Action]
    /\ \A x \in exchanges : \E K \in SUBSET Key :
         x \in [from: Node, to: Node, state: [K -> Encoded]]
    /\ sets \in 0..MaxSets /\ deletes \in 0..MaxDeletes
    /\ crashes \in Nat /\ splits \in Nat /\ crashes + splits <= MaxUpsets
    /\ stored \in [Node -> SUBSET [key: Key, value: Value \cup {Empty}, time: Int]]
    /\ acked \in [Key -> Int]

\* The nodes have joined and nothing is stored.
Init ==
    /\ now = 0
    /\ status = [n \in Node |-> "up"]
    /\ alone = [n \in Node |-> Node = {n}]
    /\ kv = [n \in Node |-> [k \in Key |-> NoEntry]]
    /\ confirmed = [ch \in Channel |-> "open"]
    /\ waiting = {}
    /\ queue = [n \in Node |-> {}]
    /\ packets = {} /\ exchanges = {}
    /\ sets = 0 /\ deletes = 0 /\ crashes = 0 /\ splits = 0
    /\ stored = [n \in Node |-> {}]
    /\ acked = [k \in Key |-> -1]

-----------------------------------------------------------------------------
\* broadcast.Invalidates: a new broadcast drops what is queued for the same key
\* and of the same type.
Invalidates(a, b) == a.key = b.key /\ a.typ = b.typ

(***************************************************************************)
(* A broadcast is queued until memberlist has a member to send it to.  If  *)
(* it has, the broadcast is sent right away: one that is sent later, or    *)
(* dropped from the queue unsent, is a datagram that arrives late or never.*)
(***************************************************************************)
QueueBroadcast(n, a) ==
    /\ queue' = [queue EXCEPT ![n] = {b \in @ : ~Invalidates(a, b)}
                                       \cup (IF alone[n] THEN {a} ELSE {})]
    /\ packets' = IF alone[n] THEN packets ELSE packets \cup {[from |-> n, act |-> a]}

SetAction(w) == [typ |-> "set", key |-> w.key, value |-> w.value, time |-> w.time]

\* Mutant: an action without its type.
DeleteActionUntyped(k, t) == [typ |-> "unknown", key |-> k, value |-> Empty, time |-> t]

DeleteAction(k, t) == [typ |-> "delete", key |-> k, value |-> Empty, time |-> t]

Call(op, n, k, e) ==
    [op |-> op, node |-> n, key |-> k, value |-> e.value, time |-> e.time, ch |-> e.ch]

\* Get finds no entry and returns (no step), or returns the confirmed value, or
\* waits for the channel of the entry it has found.
Get(n, k) ==
    /\ status[n] = "up" /\ Ready(n) /\ Present(kv[n][k])
    /\ IF IsClosed(kv[n][k].ch)
       THEN Ack(k, kv[n][k].ch, kv[n][k].time) /\ UNCHANGED waiting
       ELSE /\ Cardinality({w \in waiting : w.op = "get"}) < MaxReads
            /\ waiting' = waiting \cup {Call("get", n, k, kv[n][k])} /\ UNCHANGED acked
    /\ UNCHANGED <<kv, confirmed, queue, memberVars, netVars, countVars, stored>>

\* Set of the value that is there: returns if it is confirmed, or waits with kmu
\* held.
SetAgain(n, k, v) ==
    /\ status[n] = "up" /\ Ready(n)
    /\ Present(kv[n][k]) /\ kv[n][k].value = v
    /\ IF IsClosed(kv[n][k].ch)
       THEN Ack(k, kv[n][k].ch, kv[n][k].time) /\ UNCHANGED waiting
       ELSE waiting' = waiting \cup {Call("again", n, k, kv[n][k])} /\ UNCHANGED acked
    /\ UNCHANGED <<kv, confirmed, queue, memberVars, netVars, countVars, stored>>

\* Set of another value replaces the entry, whatever its timestamp.
SetNew(n, k, v) ==
    /\ status[n] = "up" /\ Ready(n) /\ sets < MaxSets /\ MoreEvents
    /\ Present(kv[n][k]) => kv[n][k].value # v
    /\ sets' = sets + 1
    /\ kv' = [kv EXCEPT ![n][k] = [value |-> v, time |-> Clock(n), ch |-> sets + 1]]
    /\ waiting' = waiting \cup {Call("queue", n, k, kv'[n][k])}
    /\ Remember(n)
    /\ UNCHANGED <<confirmed, queue, memberVars, netVars, now, deletes, acked>>

Set(n, k, v) == SetAgain(n, k, v) \/ SetNew(n, k, v)

\* The broadcast is queued after kmu has been released.
QueueSet(w) ==
    /\ w.op = "queue"
    /\ QueueBroadcast(w.node, SetAction(w))
    /\ Replace(w, "set")
    /\ UNCHANGED <<kv, confirmed, memberVars, exchanges, countVars, stored, acked>>

\* Mutant: only a node that was alone when it queued the broadcast looks.
SeesAloneAtOnce(w) ==
    /\ w.op = "set" /\ alone[w.node] /\ SetAction(w) \in queue[w.node] /\ ~IsClosed(w.ch)
    /\ Replace(w, "closing")
    /\ UNCHANGED <<kv, confirmed, queue, memberVars, netVars, countVars, stored, acked>>

\* The only member confirms its own entry, at once or at a tick: the test and
\* the close of maybeClose, which is called without kmu, are two steps.
SeesAlone(w) ==
    /\ w.op = "set" /\ alone[w.node] /\ ~IsClosed(w.ch)
    /\ Replace(w, "closing")
    /\ UNCHANGED <<kv, confirmed, queue, memberVars, netVars, countVars, stored, acked>>

ClosesAlone(w) ==
    /\ w.op = "closing" /\ ~IsClosed(w.ch)
    /\ confirmed' = [confirmed EXCEPT ![w.ch] = "alone"]
    /\ Replace(w, "set")
    /\ UNCHANGED <<kv, queue, memberVars, netVars, countVars, stored, acked>>

\* A call returns when the channel it waits for is closed.
Returns(w) ==
    /\ w.op \in {"set", "again", "get"} /\ IsClosed(w.ch)
    /\ waiting' = waiting \ {w}
    /\ Ack(w.key, w.ch, w.time)
    /\ UNCHANGED <<kv, confirmed, queue, memberVars, netVars, countVars, stored>>

\* The context of a call is done.
GivesUp(w) ==
    /\ w.op \in {"set", "again", "get"}
    /\ waiting' = waiting \ {w}
    /\ UNCHANGED <<kv, confirmed, queue, memberVars, netVars, countVars, stored, acked>>

\* Delete of a key that is there; of any other it returns (no step).
Delete(n, k) ==
    /\ status[n] = "up" /\ Ready(n) /\ Present(kv[n][k]) /\ deletes < MaxDeletes
    /\ deletes' = deletes + 1
    /\ kv' = [kv EXCEPT ![n][k] = NoEntry]
    /\ waiting' = waiting \cup {Call("unset", n, k, NoEntry)}
    /\ UNCHANGED <<confirmed, queue, memberVars, netVars, now, sets, stored, acked>>

\* The timestamp of a delete is taken after kmu has been released.
QueueDelete(w) ==
    /\ w.op = "unset"
    /\ QueueBroadcast(w.node, DeleteAction(w.key, Clock(w.node)))
    /\ waiting' = waiting \ {w}
    /\ UNCHANGED <<kv, confirmed, memberVars, exchanges, countVars, stored, acked>>

-----------------------------------------------------------------------------
(***************************************************************************)
(* What a node does with an entry or an action r from another node, when   *)
(* it has entry e: skips it (r is older), takes it for the confirmation of *)
(* e (r has the same value), or replaces e.                                *)
(***************************************************************************)
\* Mutant: nothing is skipped as old.
SkipsNothing(e, r) == FALSE

Skips(e, r) == Present(e) /\ r.time < e.time

\* Mutant: any newer value confirms.
ConfirmsAnyValue(e, r) == Present(e) /\ ~Skips(e, r)

Confirms(e, r) == Present(e) /\ ~Skips(e, r) /\ r.value = e.value

Replaces(e, r) == ~Skips(e, r) /\ ~Confirms(e, r)

(***************************************************************************)
(* memberlist sends what is queued once it has a member to send it to.  A *)
(* datagram may arrive late, again, or never: it stays in packets.  One    *)
(* that is skipped changes nothing (no step).                              *)
(***************************************************************************)
Transmit(n, a) ==
    /\ ~alone[n] /\ a \in queue[n]
    /\ queue' = [queue EXCEPT ![n] = @ \ {a}]
    /\ packets' = packets \cup {[from |-> n, act |-> a]}
    /\ UNCHANGED <<kv, confirmed, waiting, memberVars, exchanges, countVars, stored, acked>>

Arrives(n, a) == Ready(n) /\ \E p \in packets : p.from # n /\ p.act = a

NotifyConfirms(n, a) ==
    /\ Arrives(n, a)
    /\ Confirms(kv[n][a.key], a)
    /\ MaybeClose({kv[n][a.key].ch})
    /\ UNCHANGED <<kv, waiting, queue, memberVars, netVars, countVars, stored, acked>>

NotifyReplaces(n, a) ==
    /\ Arrives(n, a)
    /\ Replaces(kv[n][a.key], a)
    /\ kv' = [kv EXCEPT ![n][a.key] =
                IF a.typ = "set"
                THEN Decode(a)
                ELSE NoEntry]
    /\ QueueBroadcast(n, a)
    /\ Remember(n)
    /\ UNCHANGED <<confirmed, waiting, memberVars, exchanges, countVars, acked>>

LocalState(n) == [k \in {j \in Key : Present(kv[n][j])} |-> Encode(kv[n][k])]

\* n sends its map to m.  A copy of an empty map changes nothing, and one that is
\* lost might as well not have been made (no step).
SendState(n, m) ==
    /\ status[n] = "up" /\ Ready(n) /\ ~alone[n] /\ m # n /\ status[m] = "up"
    /\ \E k \in Key : Present(kv[n][k])
    /\ Cardinality(exchanges) < MaxCopies
    /\ exchanges' = exchanges \cup {[from |-> n, to |-> m, state |-> LocalState(n)]}
    /\ UNCHANGED <<storeVars, memberVars, packets, countVars, stored, acked>>

\* Every entry of a copy is merged; the node has then joined.
MergeRemoteState(x) ==
    LET n == x.to
        Sent == DOMAIN x.state
        Taken == {k \in Sent : Replaces(kv[n][k], x.state[k])}
    IN  /\ Ready(n)
        /\ exchanges' = exchanges \ {x}
        /\ kv' = [kv EXCEPT ![n] = [k \in Key |-> IF k \in Taken THEN Decode(x.state[k]) ELSE @[k]]]
        /\ MaybeClose({kv[n][k].ch : k \in {j \in Sent : Confirms(kv[n][j], x.state[j])}})
        /\ status' = [status EXCEPT ![n] = "up"]
        /\ Remember(n)
        /\ UNCHANGED <<waiting, queue, alone, crashes, splits, packets, countVars, acked>>
-----------------------------------------------------------------------------
\* newKVStore: a new process with an empty map joins through m, or finds only
\* itself at the addresses it was given.
JoinAlone(n) ==
    /\ status[n] = "down"
    /\ status' = [status EXCEPT ![n] = "up"]
    /\ alone' = [alone EXCEPT ![n] = TRUE]
    /\ UNCHANGED <<storeVars, crashes, splits, netVars, countVars, stored, acked>>

Join(n, m) ==
    /\ status[n] = "down" /\ m # n /\ status[m] = "up" /\ Ready(m)
    /\ Cardinality(exchanges) < MaxCopies
    /\ status' = [status EXCEPT ![n] = "joining"]
    /\ alone' = [alone EXCEPT ![n] = FALSE, ![m] = FALSE]
    /\ exchanges' = exchanges \cup {[from |-> m, to |-> n, state |-> LocalState(m)]}
    /\ UNCHANGED <<storeVars, crashes, splits, packets, countVars, stored, acked>>

\* The process of n is gone, with its map, its queue and its calls.
Gone(n) ==
    /\ crashes + splits < MaxUpsets /\ MoreEvents
    /\ crashes' = crashes + 1
    /\ status' = [status EXCEPT ![n] = "down"]
    /\ alone' = [alone EXCEPT ![n] = TRUE]
    /\ kv' = [kv EXCEPT ![n] = [k \in Key |-> NoEntry]]
    /\ waiting' = {w \in waiting : w.node # n}
    /\ queue' = [queue EXCEPT ![n] = {}]
    /\ exchanges' = {x \in exchanges : x.to # n}
    /\ UNCHANGED <<confirmed, splits, packets, countVars, stored, acked>>

\* A process dies, closes its store, or gives up because its exchange failed while
\* it was joining.
Crash(n) == status[n] # "down" /\ Gone(n)

\* The channel was closed between the test and the close: close panics.
ClosePanics(w) == w.op = "closing" /\ IsClosed(w.ch) /\ Gone(w.node)

\* Every other process is gone.
Deserted(n) == \A m \in Node \ {n} : status[m] = "down"

\* memberlist takes the other members for dead, rightly or in a fault that MaxUpsets
\* counts, and finds one again.
Isolated(n) ==
    /\ status[n] # "down" /\ ~alone[n]
    /\ IF Deserted(n) THEN UNCHANGED splits
       ELSE crashes + splits < MaxUpsets /\ MoreEvents /\ splits' = splits + 1
    /\ alone' = [alone EXCEPT ![n] = TRUE]
    /\ UNCHANGED <<storeVars, status, crashes, netVars, countVars, stored, acked>>

Reunited(n, m) ==
    /\ m # n /\ alone[n] /\ status[n] = "up" /\ status[m] = "up"
    /\ alone' = [alone EXCEPT ![n] = FALSE, ![m] = FALSE]
    /\ UNCHANGED <<storeVars, status, crashes, splits, netVars, countVars, stored, acked>>

Tick ==
    /\ now < MaxTime
    /\ now' = now + 1
    /\ UNCHANGED <<storeVars, memberVars, netVars, sets, deletes, stored, acked>>

Next ==
    \/ \E n \in Node, k \in Key :
         \/ Get(n, k)
         \/ \E v \in Value : Set(n, k, v)
         \/ Delete(n, k)
    \/ \E w \in waiting :
         \/ QueueSet(w) \/ SeesAlone(w) \/ ClosesAlone(w) \/ ClosePanics(w)
         \/ Returns(w) \/ GivesUp(w) \/ QueueDelete(w)
    \/ \E n \in Node : \E a \in queue[n] : Transmit(n, a)
    \/ \E n \in Node, p \in packets : NotifyConfirms(n, p.act) \/ NotifyReplaces(n, p.act)
    \/ \E x \in exchanges : MergeRemoteState(x)
    \/ \E n, m \in Node : SendState(n, m) \/ Join(n, m) \/ Reunited(n, m)
    \/ \E n \in Node : JoinAlone(n) \/ Crash(n) \/ Isolated(n)
    \/ Tick

Spec == Init /\ [][Next]_vars

-----------------------------------------------------------------------------
\* Some other node than n has had the value of e, with a timestamp that is not older.
KnownElsewhere(n, k, e) ==
    \E m \in Node \ {n} : \E s \in stored[m] :
        s.key = k /\ s.value = e.value /\ s.time >= e.time

(***************************************************************************)
(* delegate.set and delegate.get: what a caller is told to be confirmed,   *)
(* when the node was not the only member, another node has stored.         *)
(***************************************************************************)
ConfirmedIsShared ==
    /\ \A n \in Node, k \in Key :
         Present(kv[n][k]) /\ IsShared(kv[n][k].ch) => KnownElsewhere(n, k, kv[n][k])
    /\ \A w \in waiting :
         w.op # "unset" /\ IsShared(w.ch) => KnownElsewhere(w.node, w.key, w)

\* The nodes that hold an entry of k as new as t.
Copies(k, t) == {n \in Node : Present(kv[n][k]) /\ kv[n][k].time >= t}

(***************************************************************************)
(* With clocks that agree and without deletes: every crash costs at most   *)
(* one of the two copies that a confirmed write (or read) has, so that the *)
(* confirmed timestamps of a key survive the loss of one node.             *)
(***************************************************************************)
AckedSurvives ==
    \A k \in Key : acked[k] >= 0 => Cardinality(Copies(k, acked[k])) + crashes >= 2

-----------------------------------------------------------------------------
(***************************************************************************)
(* Fairness.  A goroutine that can go on does.  memberlist exchanges maps  *)
(* with a random member at every PushPullInterval, and some exchange gets  *)
(* through; a mutex is granted to whom waits for it, however often others  *)
(* take it.  A node notices that the others are dead, one that has lost    *)
(* sight of live ones finds one again, and a Set that waits with kmu held  *)
(* has a context that ends.                                                *)
(***************************************************************************)
Fairness ==
    /\ \A ch \in Channel : WF_vars(\E w \in waiting : w.ch = ch /\ QueueSet(w))
    /\ \A ch \in Channel : WF_vars(\E w \in waiting : w.ch = ch /\ SeesAlone(w))
    /\ \A ch \in Channel : WF_vars(\E w \in waiting : w.ch = ch /\ ClosesAlone(w))
    /\ \A ch \in Channel : WF_vars(\E w \in waiting : w.ch = ch /\ Returns(w))
    /\ \A n \in Node : WF_vars(\E w \in waiting : w.node = n /\ w.op = "again" /\ GivesUp(w))
    /\ \A n \in Node : \A m \in Node \ {n} : SF_vars(SendState(n, m))
    /\ \A n \in Node : \A m \in Node \ {n} :
         SF_vars(\E x \in exchanges : x.from = n /\ x.to = m /\ MergeRemoteState(x))
    /\ \A n \in Node : \A m \in Node \ {n} : WF_vars(Reunited(n, m))
    /\ \A n \in Node : WF_vars(Deserted(n) /\ Isolated(n))

FairSpec == Spec /\ Fairness

\* All nodes that are up have the same value of k, or none has one.
Agreed(k) ==
    \A n, m \in Node : status[n] = "up" /\ status[m] = "up" =>
        (Present(kv[n][k]) <=> Present(kv[m][k])) /\ kv[n][k].value = kv[m][k].value

\* Two values of k were written in the same millisecond, as far as clocks tell.
Tied(k) ==
    \E n, m \in Node : kv[n][k].time = kv[m][k].time /\ kv[n][k].value # kv[m][k].value

(***************************************************************************)
(* MergeRemoteState: exchanges of maps bring all nodes to the same value,  *)
(* whatever was lost, late or confirmed alone, and whatever the clocks     *)
(* say; only two values with the same timestamp may go on replacing each   *)
(* other.                                                                  *)
(***************************************************************************)
Converges == \A k \in Key : <>[](Agreed(k) \/ Tied(k))

\* Set w waits for an entry that is still in the map.
Pending(w) == w.op = "set" /\ kv[w.node][w.key].ch = w.ch

\* Another node has the value with an older timestamp, which it will keep.
HasOlder(w) ==
    \E m \in Node \ {w.node} :
        /\ Present(kv[m][w.key]) /\ kv[m][w.key].value = w.value
        /\ kv[m][w.key].time < w.time

(***************************************************************************)
(* delegate.set: a Set does not wait for ever for an entry that is still   *)
(* in the map: it returns, or a newer entry takes its place.  Except where *)
(* another node has the same value with an older timestamp: that node      *)
(* takes the newer one for the confirmation of its own, and what it sends  *)
(* back is skipped as old.                                                 *)
(***************************************************************************)
SetsEnd ==
    \A ch \in Channel :
        (\E w \in waiting : w.ch = ch /\ Pending(w))
            ~> ~\E w \in waiting : w.ch = ch /\ Pending(w) /\ ~HasOlder(w)

\* The last Set of all has begun, with nothing else under way, and neither its
\* value nor its timestamp is that of another entry there ever was.
BegunLast(w) ==
    /\ w.op = "queue" /\ w.ch = MaxSets /\ waiting = {w} /\ exchanges = {}
    /\ \A m \in Node : \A s \in stored[m] :
         s.key = w.key => (s.value = w.value <=> s.time = w.time)

(***************************************************************************)
(* leaderelection.go: "the implementation is tolerant to arbitrary clock   *)
(* skew".  For the store: such a Set is confirmed, or its caller gives up  *)
(* in time; it does not wait for ever.                                     *)
(***************************************************************************)
SkewTolerated ==
    (\E w \in waiting : BegunLast(w)) ~> ~\E w \in waiting : w.ch = MaxSets
=============================================================================
