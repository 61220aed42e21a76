----------------------------- MODULE GossipLock -----------------------------
(***************************************************************************)
(* The lock of src/gossip/lock.go on the store of GossipStore, cut down to *)
(* the one key of the lock.  Get reads the entry of the client's own node, *)
(* Create and Update both Set it, and neither compares it with what Get    *)
(* has returned.  A Set and a Get of an entry that is not confirmed wait   *)
(* for as long as the context of the call lives: no timeout of their own.  *)
(*                                                                         *)
(* Clocks agree and no two Sets fall into one millisecond: the timestamp   *)
(* of an entry is the number of its Set, and no two Sets store the same    *)
(* value, which has its author and the millisecond of the try.  (What the  *)
(* store does otherwise GossipStore shows.)                                *)
(***************************************************************************)
EXTENDS LockInterface, FiniteSets

CONSTANT
    MaxSent     \* bound: how many entries of a node are on their way at a time

ASSUME GossipLockAssumption == MaxSent \in Nat

VARIABLES
    sets,       \* how many Sets there were: the newest timestamp
    up,         \* up[c]: the process of c runs and has joined the cluster
    alone,      \* alone[c]: memberlist at c lists c only
    entry,      \* entry[c]: the entry of the key in the map of c
    sent,       \* sent[c]: what has left c, in broadcasts and copies of its map,
                \* and may arrive; of more than MaxSent the oldest are lost
    on,         \* on[c]: the timestamp of the entry c's call waits for, or 0
    seen,       \* history: seen[c], the timestamp of what Get last returned
    raced       \* history: when last a Set was made by a client that had not
                \* seen the newest entry, or confirmed later than RequestTimeout;
                \* or Never

gossipVars == <<sets, up, alone, entry, sent, on, seen, raced>>

Entry == [rec: Record, time: Nat, confirmed: BOOLEAN]

NoEntry == [rec |-> ZeroRecord, time |-> 0, confirmed |-> TRUE]

\* An entry as another node stores it: its channel is closed at once.
Heard(e) == [e EXCEPT !.confirmed = TRUE]

GossipTypeOK ==
    /\ sets \in Nat
    /\ up \in [Client -> BOOLEAN]
    /\ alone \in [Client -> BOOLEAN]
    /\ entry \in [Client -> Entry]
    /\ sent \in [Client -> SUBSET Entry]
    /\ on \in [Client -> 0..sets]
    /\ seen \in [Client -> 0..sets]
    /\ raced \in 0..Never

\* The nodes have joined and nothing is stored.
GossipInit ==
    /\ sets = 0
    /\ up = [c \in Client |-> TRUE]
    /\ alone = [c \in Client |-> Client = {c}]
    /\ entry = [c \in Client |-> NoEntry]
    /\ sent = [c \in Client |-> {}]
    /\ on = [c \in Client |-> 0]
    /\ seen = [c \in Client |-> 0]
    /\ raced = Never

-----------------------------------------------------------------------------
Begins(c) == call[c].st = "pending" /\ on[c] = 0

Waits(c) == call[c].st = "pending" /\ on[c] # 0

\* What may arrive when e is sent as well.
Send(S, e) ==
    {f \in S \cup {Heard(e)} : Cardinality({g \in S \cup {e} : g.time > f.time}) < MaxSent}

Others(c) == {d \in Client \ {c} : up[d]}

\* The Get finds no entry, or one that is confirmed.
GetReturns(c) ==
    /\ call[c].op = "get" /\ Begins(c) /\ entry[c].confirmed
    /\ Answer(c, IF entry[c] = NoEntry THEN "notexist" ELSE "ok", entry[c].rec, 0)
    /\ seen' = [seen EXCEPT ![c] = entry[c].time]
    /\ UNCHANGED <<sets, up, alone, entry, sent, on, raced>>

\* The Get finds an entry of a Set of this node that is not confirmed.
GetWaits(c) ==
    /\ call[c].op = "get" /\ Begins(c) /\ ~entry[c].confirmed
    /\ on' = [on EXCEPT ![c] = entry[c].time]
    /\ UNCHANGED <<call, sets, up, alone, entry, sent, seen, raced>>

\* Create or Update puts its record into the map, whatever is there, and queues a
\* broadcast, which leaves the node when it has a member to send it to.
Set(c) ==
    LET e == [rec |-> call[c].rec, time |-> sets + 1, confirmed |-> FALSE]
    IN  /\ IsWrite(c) /\ Begins(c)
        /\ sets' = sets + 1
        /\ entry' = [entry EXCEPT ![c] = e]
        /\ sent' = [sent EXCEPT ![c] = IF alone[c] THEN @ ELSE Send(@, e)]
        /\ on' = [on EXCEPT ![c] = e.time]
        /\ raced' = IF seen[c] = sets THEN raced ELSE now
        /\ UNCHANGED <<call, up, alone, seen>>

\* The call of c, if it waits for the entry with this timestamp, is answered.
Confirm(c, time) ==
    IF Waits(c) /\ on[c] = time
    THEN Answer(c, "ok", IF IsWrite(c) THEN call[c].rec ELSE entry[c].rec, 0)
    ELSE UNCHANGED call

Belated(c) == now > call[c].at + RequestTimeout

\* The only member confirms its Set, even if the entry is no longer in the map.
ConfirmAlone(c) ==
    /\ IsWrite(c) /\ Waits(c) /\ alone[c]
    /\ Confirm(c, on[c])
    /\ entry' = [entry EXCEPT ![c].confirmed = TRUE]
    /\ raced' = IF Belated(c) THEN now ELSE raced
    /\ UNCHANGED <<sets, up, alone, sent, on, seen>>

(***************************************************************************)
(* An entry arrives in a broadcast or in a copy of a map, at once, late,   *)
(* again or never.  An older one is skipped (no step); the one that is     *)
(* there is confirmed; a newer one replaces it, and a call that waited for *)
(* the old one is left waiting for a channel that no node will close.      *)
(***************************************************************************)
Arrives(c, e) == up[c] /\ \E d \in Client \ {c} : e \in sent[d]

ArrivesSame(c, e) ==
    /\ Arrives(c, e) /\ e.time = entry[c].time /\ ~entry[c].confirmed
    /\ Confirm(c, e.time)
    /\ entry' = [entry EXCEPT ![c] = e]
    /\ IF Waits(c) /\ on[c] = e.time
       THEN /\ seen' = [seen EXCEPT ![c] = IF IsWrite(c) THEN @ ELSE e.time]
            /\ raced' = IF Belated(c) THEN now ELSE raced
       ELSE UNCHANGED <<seen, raced>>
    /\ UNCHANGED <<sets, up, alone, sent, on>>

ArrivesNewer(c, e) ==
    /\ Arrives(c, e) /\ e.time > entry[c].time
    /\ entry' = [entry EXCEPT ![c] = e]
    /\ sent' = [sent EXCEPT ![c] = IF alone[c] THEN @ ELSE Send(@, e)]
    /\ UNCHANGED <<call, sets, up, alone, on, seen, raced>>

-----------------------------------------------------------------------------
CallOver(c) ==
    /\ on' = [on EXCEPT ![c] = 0]
    /\ UNCHANGED <<sets, up, alone, entry, sent, seen, raced>>

\* A call returns without an error, or with os.ErrNotExist from Get.
Returns(c) == call[c].st \in {"ok", "notexist"} /\ CallOver(c)

\* The context of a call is done: the entry of a Set stays.  The select of a Get
\* that finds an entry, and that of a Set, may take this way out although the
\* channel is closed.
Fails(c) ==
    /\ CallCtxDone(c) /\ CallOver(c)
    /\ \/ Waits(c)
       \/ call[c].op = "get" /\ Begins(c) /\ entry[c] # NoEntry
       \/ IsWrite(c) /\ call[c].st = "ok"

\* The store does not wait for the network.
LockMayWait(c) ==
    call[c].op # "none" =>
        Waits(c) /\ ~CallCtxDone(c) /\ ~(IsWrite(c) /\ alone[c])

\* The process is gone, with its map; what it has sent may still arrive.
ClientGone(c) ==
    /\ up' = [up EXCEPT ![c] = FALSE]
    /\ entry' = [entry EXCEPT ![c] = NoEntry]
    /\ on' = [on EXCEPT ![c] = 0]
    /\ seen' = [seen EXCEPT ![c] = 0]
    /\ UNCHANGED <<sets, alone, sent, raced>>

\* New: the process merges the map of a member, or finds only itself at the
\* addresses it was given, whoever else is up.
Join(c) ==
    /\ ~up[c]
    /\ up' = [up EXCEPT ![c] = TRUE]
    /\ \E d \in Others(c) \cup {c} :
         /\ alone' = [alone EXCEPT ![c] = (d = c), ![d] = (d = c)]
         /\ entry' = [entry EXCEPT ![c] = Heard(entry[d])]
         /\ sent' = [sent EXCEPT ![d] = Send(@, entry[d])]
    /\ UNCHANGED <<call, sets, on, seen, raced>>

\* memberlist takes the other members for dead, rightly or not.
Isolated(c) ==
    /\ up[c] /\ ~alone[c]
    /\ alone' = [alone EXCEPT ![c] = TRUE]
    /\ UNCHANGED <<call, sets, up, entry, sent, on, seen, raced>>

\* It finds one of them again, and sends what it has.
Reunited(c) ==
    /\ up[c] /\ alone[c]
    /\ \E d \in Others(c) : alone' = [alone EXCEPT ![c] = FALSE, ![d] = FALSE]
    /\ sent' = [d \in Client |->
                  IF alone[d] /\ ~alone'[d] THEN Send(sent[d], entry[d]) ELSE sent[d]]
    /\ UNCHANGED <<call, sets, up, entry, on, seen, raced>>
=============================================================================
