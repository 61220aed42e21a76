--------------------------- MODULE GossipStoreInv ---------------------------
(***************************************************************************)
(* The inductive invariants behind the safety properties of GossipStore.   *)
(* StoreInv is about who knows what; CopiesInv adds how many nodes still   *)
(* have it, for clocks that agree and a store without deletes.             *)
(***************************************************************************)
EXTENDS GossipStore

Row(k, e) == [key |-> k, value |-> e.value, time |-> e.time]

InMap(n) == {Row(k, kv[n][k]) : k \in {j \in Key : Present(kv[n][j])}}

\* What n has in its map, is about to broadcast, or has sent.
Carried(n) ==
    InMap(n)
    \cup {Row(w.key, w) : w \in {v \in waiting : v.node = n /\ v.op = "queue"}}
    \cup {Row(a.key, a) : a \in {b \in queue[n] : b.typ = "set"}}
    \cup {Row(p.act.key, p.act) : p \in {q \in packets : q.from = n /\ q.act.typ = "set"}}
    \cup UNION {{Row(k, x.state[k]) : k \in DOMAIN x.state} : x \in {y \in exchanges : y.from = n}}

\* Whatever a node carries it has had in its map.
CarriedInv ==
    /\ \A n \in Node : Carried(n) \subseteq stored[n]
    /\ \A n \in Node : \A r \in Carried(n) : r.value \in Value /\ r.time >= 0
    /\ \A x \in exchanges : x.from # x.to

\* Whoever has a channel: the entry it was made for, and the calls that wait.
Claim(n, k, e) ==
    [node |-> n, key |-> k, value |-> e.value, time |-> e.time, ch |-> e.ch]

Claims ==
    {Claim(w.node, w.key, w) : w \in {v \in waiting : v.op # "unset"}}
    \cup UNION {{Claim(n, k, kv[n][k]) : k \in {j \in Key : Present(kv[n][j])}} : n \in Node}

\* A channel that Set has made is one entry's; those not yet made are open.
ChannelInv ==
    /\ \A a \in Claims : a.ch <= sets
    /\ \A a, b \in Claims : a.ch = b.ch /\ a.ch # Heard => a = b
    /\ \A ch \in Channel : ch > sets => confirmed[ch] = "open"

\* A delete carries no value.
ActionInv ==
    /\ \A n \in Node : \A a \in queue[n] : a.typ # "set" => a.value = Empty
    /\ \A p \in packets : p.act.typ # "set" => p.act.value = Empty

\* Without deletes nothing tells of one.
DeleteInv ==
    MaxDeletes = 0 =>
        /\ \A w \in waiting : w.op # "unset"
        /\ \A n \in Node : \A a \in queue[n] : a.typ = "set"
        /\ \A p \in packets : p.act.typ = "set"

\* What a channel that was closed by another node stands for, that node has had.
SharedInv ==
    \A a \in Claims : IsShared(a.ch) => KnownElsewhere(a.node, a.key, a)

StoreInv == TypeOK /\ CarriedInv /\ ChannelInv /\ ActionInv /\ DeleteInv /\ SharedInv

-----------------------------------------------------------------------------
ClocksAgree == \A n, m \in Node : Skew[n] = Skew[m]

\* What a node carries is still in its map, in this or a newer version, unless
\* a process has died; and no clock is behind it.
HeldInv ==
    \A n \in Node : \A r \in Carried(n) :
        /\ r.time <= Clock(n)
        /\ crashes = 0 => n \in Copies(r.key, r.time)

\* An entry of k as new as t is on two nodes, but for one of them per crash.
Survives(k, t) ==
    \/ crashes >= 2
    \/ crashes = 1 /\ Copies(k, t) # {}
    \/ \E n, m \in Copies(k, t) : n # m

\* The process that has a claim has the entry of it, or a newer one; and an entry
\* that is shared survives.
ClaimsKept ==
    \A a \in Claims :
        /\ a.node \in Copies(a.key, a.time)
        /\ IsShared(a.ch) => Survives(a.key, a.time)

CopiesInv ==
    /\ HeldInv
    /\ ClaimsKept
    /\ \A k \in Key : acked[k] >= 0 => Survives(k, acked[k])
=============================================================================
