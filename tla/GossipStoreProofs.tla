------------------------- MODULE GossipStoreProofs --------------------------
(***************************************************************************)
(* GossipStore, for every set of nodes, keys and values, any offsets of    *)
(* the clocks and any bounds: its types, that what is confirmed is shared, *)
(* and that it survives the loss of a node.                                *)
(***************************************************************************)
EXTENDS GossipStoreInv, FiniteSetTheorems, TLAPS

\* What the constants are, for the provers.
LEMMA Numbers ==
    ASSUME TypeOK
    PROVE  /\ now \in Nat /\ \A n \in Node : Clock(n) \in Nat
           /\ NoEntry \in Entry
           /\ \A ch \in 0..MaxSets : ch # Heard => ch \in Channel
BY GossipAssumption DEF TypeOK, Clock, NoEntry, Entry, Heard, Channel

\* What Remember stores.
LEMMA RememberType ==
    ASSUME TypeOK, NEW n \in Node, Remember(n), kv' \in [Node -> [Key -> Entry]]
    PROVE  /\ stored' \in [Node -> SUBSET [key: Key, value: Value \cup {Empty}, time: Int]]
           /\ \A m \in Node : stored[m] \subseteq stored'[m]
           /\ InMap(n)' \subseteq stored'[n]
           /\ \A m \in Node \ {n} : stored'[m] = stored[m]
<1> DEFINE S == {[key |-> k, value |-> kv'[n][k].value, time |-> kv'[n][k].time] :
                   k \in {j \in Key : Present(kv'[n][j])}}
<1>1. stored' = [stored EXCEPT ![n] = @ \cup S]
  BY DEF Remember
<1>2. S \subseteq [key: Key, value: Value \cup {Empty}, time: Int]
  BY DEF Entry
<1>3. InMap(n)' = S
  BY DEF InMap, Row
<1> HIDE DEF S
<1> QED
  BY <1>1, <1>2, <1>3 DEF TypeOK

\* A broadcast that is queued or sent.
LEMMA BroadcastType ==
    ASSUME TypeOK, NEW n \in Node, NEW a \in Action, QueueBroadcast(n, a)
    PROVE  queue' \in [Node -> SUBSET Action] /\ packets' \subseteq [from: Node, act: Action]
BY DEF TypeOK, QueueBroadcast

\* The calls that are left are calls.
LEMMA ReplaceType ==
    ASSUME TypeOK, NEW w \in waiting,
           NEW op \in {"queue", "set", "again", "closing", "get", "unset"}, Replace(w, op)
    PROVE  waiting' \subseteq Wait
<1>1. w \in Wait
  BY DEF TypeOK
<1>2. [w EXCEPT !.op = op] \in Wait
  BY <1>1 DEF Wait
<1> QED
  BY <1>2 DEF TypeOK, Replace

\* Closing channels keeps their types.
LEMMA MaybeCloseType ==
    ASSUME TypeOK, NEW chs, MaybeClose(chs)
    PROVE  confirmed' \in [Channel -> {"open", "heard", "alone"}]
BY DEF TypeOK, MaybeClose

\* A timestamp that a caller is told is one of an entry.
LEMMA AckType ==
    ASSUME TypeOK, NEW k \in Key, NEW ch, NEW t \in Int, Ack(k, ch, t)
    PROVE  acked' \in [Key -> Int]
BY DEF TypeOK, Ack

\* A copy of a map is a copy.
LEMMA LocalStateType ==
    ASSUME TypeOK, NEW n \in Node, NEW m \in Node
    PROVE  \E K \in SUBSET Key :
             [from |-> n, to |-> m, state |-> LocalState(n)]
               \in [from: Node, to: Node, state: [K -> Encoded]]
<1> DEFINE K == {j \in Key : Present(kv[n][j])}
<1>1. \A k \in K : Encode(kv[n][k]) \in Encoded
  BY DEF TypeOK, Entry, Encode, Encoded
<1>2. LocalState(n) \in [K -> Encoded]
  BY <1>1 DEF LocalState
<1>3. K \in SUBSET Key
  OBVIOUS
<1> HIDE DEF K
<1> QED
  BY <1>2, <1>3

\* What a copy that is merged holds.
LEMMA ExchangeType ==
    ASSUME TypeOK, NEW x \in exchanges
    PROVE  /\ x.from \in Node /\ x.to \in Node /\ DOMAIN x.state \subseteq Key
           /\ \A k \in DOMAIN x.state : x.state[k] \in Encoded
<1>1. PICK K \in SUBSET Key : x \in [from: Node, to: Node, state: [K -> Encoded]]
  BY DEF TypeOK
<1> QED
  BY <1>1

\* Every call, local step and message keeps the types.
LEMMA TypeStep == TypeOK /\ [Next]_vars => TypeOK'
<1> SUFFICES ASSUME TypeOK, [Next]_vars PROVE TypeOK'
  OBVIOUS
<1> USE DEF storeVars, memberVars, netVars, countVars
<1>n. /\ now \in Nat /\ \A n \in Node : Clock(n) \in Int
      /\ NoEntry \in Entry
      /\ \A ch \in 0..MaxSets : ch # Heard => ch \in Channel
  BY Numbers
<1>e. ASSUME NEW op \in {"queue", "set", "again", "closing", "get", "unset"},
             NEW n \in Node, NEW k \in Key, NEW e \in Entry
      PROVE  Call(op, n, k, e) \in Wait
  BY DEF Call, Wait, Entry
<1>k. \A n \in Node, k \in Key : kv[n][k] \in Entry /\ kv[n][k].time \in Int
  BY DEF TypeOK, Entry
<1>w. \A w \in waiting : w \in Wait /\ w.node \in Node /\ w.key \in Key /\ w.time \in Int
                         /\ w.ch \in 0..MaxSets
  BY DEF TypeOK, Wait
<1>1. ASSUME NEW n \in Node, NEW k \in Key, Get(n, k) PROVE TypeOK'
  <2>1. waiting' \subseteq Wait /\ acked' \in [Key -> Int]
    BY <1>1, <1>e, <1>k, AckType DEF Get, TypeOK
  <2> QED
    BY <1>1, <2>1 DEF Get, TypeOK
<1>2. ASSUME NEW n \in Node, NEW k \in Key, NEW v \in Value, SetAgain(n, k, v) PROVE TypeOK'
  <2>1. waiting' \subseteq Wait /\ acked' \in [Key -> Int]
    BY <1>2, <1>e, <1>k, AckType DEF SetAgain, TypeOK
  <2> QED
    BY <1>2, <2>1 DEF SetAgain, TypeOK
<1>3. ASSUME NEW n \in Node, NEW k \in Key, NEW v \in Value, SetNew(n, k, v) PROVE TypeOK'
  <2>1. sets' \in 0..MaxSets
    BY <1>3, GossipAssumption DEF SetNew, TypeOK
  <2>2. [value |-> v, time |-> Clock(n), ch |-> sets + 1] \in Entry
    BY <1>3, <1>n, <2>1 DEF SetNew, Entry
  <2>3. kv' \in [Node -> [Key -> Entry]]
    BY <1>3, <2>2 DEF SetNew, TypeOK
  <2>4. waiting' \subseteq Wait
    <3>1. kv'[n][k] \in Entry
      BY <2>3
    <3> QED
      BY <1>3, <1>e, <3>1 DEF SetNew, TypeOK
  <2>5. stored' \in [Node -> SUBSET [key: Key, value: Value \cup {Empty}, time: Int]]
    BY <1>3, <2>3, RememberType DEF SetNew
  <2> QED
    BY <1>3, <2>1, <2>3, <2>4, <2>5 DEF SetNew, TypeOK
<1>4. ASSUME NEW n \in Node, NEW k \in Key, Delete(n, k) PROVE TypeOK'
  <2>1. deletes' \in 0..MaxDeletes
    BY <1>4, GossipAssumption DEF Delete, TypeOK
  <2>2. kv' \in [Node -> [Key -> Entry]] /\ waiting' \subseteq Wait
    BY <1>4, <1>n, <1>e DEF Delete, TypeOK
  <2> QED
    BY <1>4, <2>1, <2>2 DEF Delete, TypeOK
<1>5. ASSUME NEW w \in waiting, QueueSet(w) PROVE TypeOK'
  <2>1. SetAction(w) \in Action
    BY <1>w DEF SetAction, Action, Wait
  <2>2. queue' \in [Node -> SUBSET Action] /\ packets' \subseteq [from: Node, act: Action]
    BY <1>5, <1>w, <2>1, BroadcastType DEF QueueSet
  <2>3. waiting' \subseteq Wait
    BY <1>5, ReplaceType DEF QueueSet
  <2> QED
    BY <1>5, <2>2, <2>3 DEF QueueSet, TypeOK
<1>6. ASSUME NEW w \in waiting, SeesAlone(w) PROVE TypeOK'
  <2>1. waiting' \subseteq Wait
    BY <1>6, ReplaceType DEF SeesAlone
  <2> QED
    BY <1>6, <2>1 DEF SeesAlone, TypeOK
<1>7. ASSUME NEW w \in waiting, ClosesAlone(w) PROVE TypeOK'
  <2>1. waiting' \subseteq Wait
    BY <1>7, ReplaceType DEF ClosesAlone
  <2> QED
    BY <1>7, <2>1 DEF ClosesAlone, TypeOK
<1>8. ASSUME NEW w \in waiting, Returns(w) PROVE TypeOK'
  <2>1. acked' \in [Key -> Int]
    BY <1>8, <1>w, AckType DEF Returns
  <2> QED
    BY <1>8, <2>1 DEF Returns, TypeOK
<1>9. ASSUME NEW w \in waiting, GivesUp(w) PROVE TypeOK'
  BY <1>9 DEF GivesUp, TypeOK
<1>10. ASSUME NEW w \in waiting, QueueDelete(w) PROVE TypeOK'
  <2>1. DeleteAction(w.key, Clock(w.node)) \in Action
    BY <1>n, <1>w DEF DeleteAction, Action
  <2>2. queue' \in [Node -> SUBSET Action] /\ packets' \subseteq [from: Node, act: Action]
    BY <1>10, <1>w, <2>1, BroadcastType DEF QueueDelete
  <2> QED
    BY <1>10, <2>2 DEF QueueDelete, TypeOK
<1>11. ASSUME NEW n \in Node, NEW a \in queue[n], Transmit(n, a) PROVE TypeOK'
  <2>1. a \in Action
    BY DEF TypeOK
  <2> QED
    BY <1>11, <2>1 DEF Transmit, TypeOK
<1>12. ASSUME NEW n \in Node, NEW p \in packets, NotifyConfirms(n, p.act) PROVE TypeOK'
  BY <1>12, MaybeCloseType DEF NotifyConfirms, TypeOK
<1>13. ASSUME NEW n \in Node, NEW p \in packets, NotifyReplaces(n, p.act) PROVE TypeOK'
  <2>1. p.act \in Action /\ p.act.key \in Key
    BY DEF TypeOK, Action
  <2>2. Decode(p.act) \in Entry
    BY <2>1, GossipAssumption DEF Decode, Entry, Action, Heard
  <2>3. kv' \in [Node -> [Key -> Entry]]
    BY <1>13, <1>n, <2>1, <2>2 DEF NotifyReplaces, TypeOK
  <2>4. queue' \in [Node -> SUBSET Action] /\ packets' \subseteq [from: Node, act: Action]
    BY <1>13, <2>1, BroadcastType DEF NotifyReplaces
  <2>5. stored' \in [Node -> SUBSET [key: Key, value: Value \cup {Empty}, time: Int]]
    BY <1>13, <2>3, RememberType DEF NotifyReplaces
  <2> QED
    BY <1>13, <2>3, <2>4, <2>5 DEF NotifyReplaces, TypeOK
<1>14. ASSUME NEW x \in exchanges, MergeRemoteState(x) PROVE TypeOK'
  <2>1. \A k \in DOMAIN x.state : Decode(x.state[k]) \in Entry
    BY ExchangeType, GossipAssumption DEF Decode, Entry, Encoded, Heard
  <2>2. kv' \in [Node -> [Key -> Entry]]
    BY <1>14, <2>1 DEF MergeRemoteState, TypeOK
  <2>3. stored' \in [Node -> SUBSET [key: Key, value: Value \cup {Empty}, time: Int]]
    BY <1>14, <2>2, RememberType, ExchangeType DEF MergeRemoteState
  <2>4. confirmed' \in [Channel -> {"open", "heard", "alone"}]
    BY <1>14, MaybeCloseType DEF MergeRemoteState
  <2>5. status' \in [Node -> {"down", "joining", "up"}]
    BY <1>14 DEF MergeRemoteState, TypeOK
  <2>6. exchanges' \subseteq exchanges
    BY <1>14 DEF MergeRemoteState
  <2> QED
    BY <1>14, <2>2, <2>3, <2>4, <2>5, <2>6 DEF MergeRemoteState, TypeOK
<1>15. ASSUME NEW n \in Node, NEW m \in Node,
              \/ exchanges' = exchanges
              \/ exchanges' = exchanges \cup {[from |-> n, to |-> m, state |-> LocalState(n)]}
       PROVE  \A x \in exchanges' : \E K \in SUBSET Key :
                x \in [from: Node, to: Node, state: [K -> Encoded]]
  BY <1>15, LocalStateType DEF TypeOK
<1>16. ASSUME NEW n \in Node, NEW m \in Node, SendState(n, m) PROVE TypeOK'
  BY <1>16, <1>15 DEF SendState, TypeOK
<1>17. ASSUME NEW n \in Node, NEW m \in Node, Join(n, m) PROVE TypeOK'
  <2>1. \A x \in exchanges' : \E K \in SUBSET Key :
          x \in [from: Node, to: Node, state: [K -> Encoded]]
    BY <1>17, <1>15 DEF Join
  <2>2. status' \in [Node -> {"down", "joining", "up"}] /\ alone' \in [Node -> BOOLEAN]
    BY <1>17 DEF Join, TypeOK
  <2> QED
    BY <1>17, <2>1, <2>2 DEF Join, TypeOK
<1>18. ASSUME NEW n \in Node, NEW m \in Node, Reunited(n, m) PROVE TypeOK'
  BY <1>18 DEF Reunited, TypeOK
<1>19. ASSUME NEW n \in Node, JoinAlone(n) \/ Isolated(n) PROVE TypeOK'
  <2>1. CASE JoinAlone(n)
    BY <2>1 DEF JoinAlone, TypeOK
  <2>2. CASE Isolated(n)
    <3>1. crashes' \in Nat /\ splits' \in Nat /\ crashes' + splits' <= MaxUpsets
      BY <2>2, GossipAssumption DEF Isolated, TypeOK
    <3> QED
      BY <2>2, <3>1 DEF Isolated, TypeOK
  <2> QED
    BY <1>19, <2>1, <2>2
<1>20. ASSUME NEW n \in Node, Gone(n) PROVE TypeOK'
  BY <1>20, <1>n, GossipAssumption DEF Gone, TypeOK
<1>21. CASE Tick
  BY <1>21, GossipAssumption DEF Tick, TypeOK
<1>22. CASE UNCHANGED vars
  BY <1>22 DEF vars, TypeOK
<1> QED
  BY <1>1, <1>2, <1>3, <1>4, <1>5, <1>6, <1>7, <1>8, <1>9, <1>10, <1>11, <1>12, <1>13, <1>14,
     <1>16, <1>17, <1>18, <1>19, <1>20, <1>21, <1>22, <1>w
     DEF Next, Set, ClosePanics, Crash

\* The initial state is well typed.
LEMMA TypeInit == Init => TypeOK
BY GossipAssumption DEF Init, TypeOK, NoEntry, Entry, Heard, Channel

\* Every variable keeps its type, whatever is lost, late or repeated.
THEOREM TypeCorrect == Spec => []TypeOK
BY TypeInit, TypeStep, PTL DEF Spec

-----------------------------------------------------------------------------
(***************************************************************************)
(* What a step may bring about, in three parts: what the nodes carry, who  *)
(* has a channel, and which channels are closed.                           *)
(***************************************************************************)
\* n has made r itself, with its own clock.
MadeBy(n, r) == r \in InMap(n)' /\ r.value \in Value /\ r.time = Clock(n)

\* n has taken r from another node into its map.
TakenBy(n, r) == r \in InMap(n)' /\ \E m \in Node \ {n} : r \in Carried(m)

CarriedFrom(n, r) == r \in Carried(n) \/ MadeBy(n, r) \/ TakenBy(n, r)

\* The members of Carried, kind by kind.
LEMMA CarriedKinds ==
    ASSUME NEW n, NEW r
    PROVE  r \in Carried(n) <=>
             \/ r \in InMap(n)
             \/ \E w \in waiting : w.node = n /\ w.op = "queue" /\ r = Row(w.key, w)
             \/ \E a \in queue[n] : a.typ = "set" /\ r = Row(a.key, a)
             \/ \E q \in packets : q.from = n /\ q.act.typ = "set" /\ r = Row(q.act.key, q.act)
             \/ \E x \in exchanges : \E k \in DOMAIN x.state :
                  x.from = n /\ r = Row(k, x.state[k])
BY DEF Carried

\* The same of the next state.
LEMMA CarriedKindsNext ==
    ASSUME NEW n, NEW r
    PROVE  r \in Carried(n)' <=>
             \/ r \in InMap(n)'
             \/ \E w \in waiting' : w.node = n /\ w.op = "queue" /\ r = Row(w.key, w)
             \/ \E a \in queue'[n] : a.typ = "set" /\ r = Row(a.key, a)
             \/ \E q \in packets' : q.from = n /\ q.act.typ = "set" /\ r = Row(q.act.key, q.act)
             \/ \E x \in exchanges' : \E k \in DOMAIN x.state :
                  x.from = n /\ r = Row(k, x.state[k])
BY DEF Carried

\* A node carries what it did, or what is new in its map.
LEMMA CarriedStep ==
    ASSUME StoreInv, Next, NEW n \in Node, NEW r \in Carried(n)'
    PROVE  CarriedFrom(n, r)
<1> USE DEF storeVars, memberVars, netVars, countVars, CarriedFrom
<1>t. TypeOK
  BY DEF StoreInv
<1>m. kv' = kv => InMap(n)' = InMap(n)
  BY DEF InMap
<1>0. ASSUME InMap(n)' = InMap(n), exchanges' \subseteq exchanges, packets' = packets,
             queue' = queue,
             \A w \in waiting' : w \in waiting \/ w.op # "queue"
      PROVE  r \in Carried(n)
  BY <1>0, CarriedKinds, CarriedKindsNext
<1>1. ASSUME NEW m \in Node, NEW k \in Key, Get(m, k) PROVE r \in Carried(n)
  BY <1>0, <1>1, <1>m DEF Get, Call
<1>2. ASSUME NEW m \in Node, NEW k \in Key, NEW v \in Value, SetAgain(m, k, v)
      PROVE r \in Carried(n)
  BY <1>0, <1>2, <1>m DEF SetAgain, Call
<1>3. ASSUME NEW m \in Node, NEW k \in Key, NEW v \in Value, SetNew(m, k, v)
      PROVE CarriedFrom(n, r)
  <2> DEFINE e == [value |-> v, time |-> Clock(m), ch |-> sets + 1]
  <2>1. e.value = v /\ e.time = Clock(m) /\ e # NoEntry
    BY <1>t, Numbers DEF NoEntry
  <2>2. kv' = [kv EXCEPT ![m][k] = e] /\ kv'[m][k] = e
    BY <1>3, <1>t DEF SetNew, TypeOK
  <2> HIDE DEF e
  <2>3. InMap(n)' \subseteq InMap(n) \cup (IF n = m THEN {Row(k, e)} ELSE {})
    BY <1>t, <2>2 DEF InMap, TypeOK
  <2>4. Row(k, e) \in InMap(m)'
    BY <2>1, <2>2 DEF InMap, Present
  <2>5. ASSUME NEW w \in waiting' PROVE w \in waiting \/ (w.node = m /\ Row(w.key, w) = Row(k, e))
    BY <1>3, <2>2 DEF SetNew, Call, Row
  <2>6. r \in Carried(n) \/ (n = m /\ r = Row(k, e))
    BY <1>3, <2>3, <2>5, CarriedKinds, CarriedKindsNext DEF SetNew
  <2> QED
    BY <2>1, <2>4, <2>6 DEF MadeBy, Row
<1>4. ASSUME NEW m \in Node, NEW k \in Key, Delete(m, k) PROVE r \in Carried(n)
  <2>1. InMap(n)' \subseteq InMap(n)
    BY <1>4, <1>t DEF Delete, InMap, Present, TypeOK
  <2>2. \A w \in waiting' : w \in waiting \/ w.op # "queue"
    BY <1>4 DEF Delete, Call
  <2> QED
    BY <1>4, <2>1, <2>2, CarriedKinds, CarriedKindsNext DEF Delete
<1>5. ASSUME NEW w \in waiting, QueueSet(w) PROVE r \in Carried(n)
  <2>1. \A v \in waiting' : v \in waiting \/ v.op = "set"
    BY <1>5, <1>t DEF QueueSet, Replace, TypeOK, Wait
  <2>2. Row(SetAction(w).key, SetAction(w)) = Row(w.key, w)
    BY DEF SetAction, Row
  <2>3. ASSUME NEW a \in queue'[n] PROVE a \in queue[n] \/ (n = w.node /\ a = SetAction(w))
    BY <1>5, <1>t DEF QueueSet, QueueBroadcast, TypeOK
  <2>4. ASSUME NEW q \in packets' PROVE q \in packets \/ (q.from = w.node /\ q.act = SetAction(w))
    BY <1>5 DEF QueueSet, QueueBroadcast
  <2>5. r = Row(w.key, w) /\ n = w.node => r \in Carried(n)
    BY <1>5, CarriedKinds DEF QueueSet
  <2>6. UNCHANGED exchanges /\ InMap(n)' = InMap(n)
    BY <1>5, <1>m DEF QueueSet
  <2> QED
    BY <2>1, <2>2, <2>3, <2>4, <2>5, <2>6, CarriedKinds, CarriedKindsNext
<1>6. ASSUME NEW w \in waiting, SeesAlone(w) \/ ClosesAlone(w) PROVE r \in Carried(n)
  <2>1. \A v \in waiting' : v \in waiting \/ v.op # "queue"
    BY <1>6, <1>t DEF SeesAlone, ClosesAlone, Replace, TypeOK, Wait
  <2> QED
    BY <1>0, <1>6, <1>m, <2>1 DEF SeesAlone, ClosesAlone
<1>7. ASSUME NEW w \in waiting, Returns(w) \/ GivesUp(w) PROVE r \in Carried(n)
  BY <1>0, <1>7, <1>m DEF Returns, GivesUp
<1>8. ASSUME NEW w \in waiting, QueueDelete(w) PROVE r \in Carried(n)
  <2> DEFINE d == DeleteAction(w.key, Clock(w.node))
  <2>1. d.typ = "delete"
    BY DEF DeleteAction
  <2> HIDE DEF d
  <2>2. ASSUME NEW a \in queue'[n] PROVE a \in queue[n] \/ a = d
    BY <1>8, <1>t DEF QueueDelete, QueueBroadcast, TypeOK, d
  <2>3. ASSUME NEW q \in packets' PROVE q \in packets \/ q.act = d
    BY <1>8 DEF QueueDelete, QueueBroadcast, d
  <2>4. UNCHANGED exchanges /\ InMap(n)' = InMap(n) /\ waiting' \subseteq waiting
    BY <1>8, <1>m DEF QueueDelete
  <2> QED
    BY <2>1, <2>2, <2>3, <2>4, CarriedKinds, CarriedKindsNext
<1>9. ASSUME NEW m \in Node, NEW a \in queue[m], Transmit(m, a) PROVE r \in Carried(n)
  <2>1. queue'[n] \subseteq queue[n]
    BY <1>9, <1>t DEF Transmit, TypeOK
  <2>2. ASSUME NEW q \in packets' PROVE q \in packets \/ (q.from = m /\ q.act = a)
    BY <1>9 DEF Transmit
  <2>3. UNCHANGED <<exchanges, waiting>> /\ InMap(n)' = InMap(n)
    BY <1>9, <1>m DEF Transmit
  <2> QED
    BY <2>1, <2>2, <2>3, CarriedKinds, CarriedKindsNext
<1>10. ASSUME NEW m \in Node, NEW p \in packets, NotifyConfirms(m, p.act) PROVE r \in Carried(n)
  BY <1>0, <1>10, <1>m DEF NotifyConfirms
<1>11. ASSUME NEW m \in Node, NEW p \in packets, NotifyReplaces(m, p.act) PROVE CarriedFrom(n, r)
  <2> DEFINE a == p.act
             e == IF a.typ = "set" THEN Decode(a) ELSE NoEntry
  <2>1. a \in Action /\ a.key \in Key /\ \E f \in Node \ {m} : [from |-> f, act |-> a] \in packets
    <3>1. PICK q \in packets : q.from # m /\ q.act = a
      BY <1>11 DEF NotifyReplaces, Arrives
    <3>2. q \in [from: Node, act: Action]
      BY <1>t DEF TypeOK
    <3>3. q = [from |-> q.from, act |-> a] /\ q.from \in Node \ {m} /\ a \in Action
      BY <3>1, <3>2
    <3> QED
      BY <3>3 DEF Action
  <2>2. kv' = [kv EXCEPT ![m][a.key] = e]
    BY <1>11 DEF NotifyReplaces
  <2>3. PICK f \in Node \ {m} : [from |-> f, act |-> a] \in packets
    BY <2>1
  <2> DEFINE q == [from |-> f, act |-> a]
  <2>4. q \in packets /\ q.from = f /\ q.act = a
    BY <2>3
  <2> HIDE DEF q
  <2>5. a.typ = "set" => Row(a.key, a) \in Carried(f)
    BY <2>4, CarriedKinds
  <2>6. a.typ = "set" => Row(a.key, e) = Row(a.key, a) /\ e.time = a.time /\ e.value = a.value
    BY DEF Decode, Row
  <2>7. a.typ = "set" => Row(a.key, a).time >= 0
    BY <2>5 DEF StoreInv, CarriedInv
  <2>8. a.typ = "set" => Present(e)
    BY <2>6, <2>7 DEF Row, Present, NoEntry
  <2>9. a.typ # "set" => ~Present(e)
    BY DEF Present
  <2> HIDE DEF e
  <2>10. /\ InMap(n)' \subseteq InMap(n) \cup (IF n = m /\ a.typ = "set" THEN {Row(a.key, e)} ELSE {})
         /\ a.typ = "set" => Row(a.key, e) \in InMap(m)'
    BY <1>t, <2>1, <2>2, <2>8, <2>9 DEF InMap, TypeOK
  <2>11. ASSUME NEW b \in queue'[n] PROVE b \in queue[n] \/ (n = m /\ b = a)
    BY <1>11, <1>t DEF NotifyReplaces, QueueBroadcast, TypeOK
  <2>12. ASSUME NEW b \in packets' PROVE b \in packets \/ (b.from = m /\ b.act = a)
    BY <1>11 DEF NotifyReplaces, QueueBroadcast
  <2>13. UNCHANGED <<waiting, exchanges>>
    BY <1>11 DEF NotifyReplaces
  <2> HIDE DEF a
  <2>14. r \in Carried(n) \/ (n = m /\ a.typ = "set" /\ r = Row(a.key, a))
    BY <2>6, <2>10, <2>11, <2>12, <2>13, CarriedKinds, CarriedKindsNext
  <2> QED
    BY <2>5, <2>6, <2>10, <2>14 DEF TakenBy
<1>12. ASSUME NEW x \in exchanges, MergeRemoteState(x) PROVE CarriedFrom(n, r)
  <2>1. /\ x.from \in Node \ {x.to} /\ x.to \in Node /\ DOMAIN x.state \subseteq Key
        /\ \A k \in DOMAIN x.state : x.state[k] \in Encoded
    BY <1>t, ExchangeType DEF StoreInv, CarriedInv
  <2>2. \A k \in DOMAIN x.state : Row(k, x.state[k]) \in Carried(x.from)
    BY CarriedKinds
  <2>3. ASSUME r \in InMap(n)' PROVE r \in Carried(n) \/ TakenBy(n, r)
    <3>1. PICK k \in Key : Present(kv'[n][k]) /\ r = Row(k, kv'[n][k])
      BY <2>3 DEF InMap
    <3>2. \/ kv'[n][k] = kv[n][k]
          \/ n = x.to /\ k \in DOMAIN x.state /\ kv'[n][k] = Decode(x.state[k])
      BY <1>12, <1>t, <2>1 DEF MergeRemoteState, TypeOK
    <3>3. CASE kv'[n][k] = kv[n][k]
      BY <3>1, <3>3, CarriedKinds DEF InMap
    <3>4. CASE n = x.to /\ k \in DOMAIN x.state /\ kv'[n][k] = Decode(x.state[k])
      <4>1. r = Row(k, x.state[k])
        BY <3>1, <3>4 DEF Row, Decode
      <4> QED
        BY <2>1, <2>2, <2>3, <3>4, <4>1 DEF TakenBy
    <3> QED
      BY <3>2, <3>3, <3>4
  <2>4. UNCHANGED <<waiting, queue, packets>> /\ exchanges' \subseteq exchanges
    BY <1>12 DEF MergeRemoteState
  <2> QED
    BY <2>3, <2>4, CarriedKinds, CarriedKindsNext
<1>13. ASSUME NEW m \in Node, NEW l \in Node, UNCHANGED storeVars, packets' = packets,
              exchanges' = exchanges \cup {[from |-> m, to |-> l, state |-> LocalState(m)]}
       PROVE  r \in Carried(n)
  <2> DEFINE y == [from |-> m, to |-> l, state |-> LocalState(m)]
  <2>1. y.from = m /\ y.state = LocalState(m)
    OBVIOUS
  <2>2. exchanges' = exchanges \cup {y}
    BY <1>13
  <2> HIDE DEF y
  <2>3. \A k \in DOMAIN LocalState(m) : Row(k, LocalState(m)[k]) \in InMap(m)
    BY DEF LocalState, InMap, Encode, Row
  <2> QED
    BY <1>13, <1>m, <2>1, <2>2, <2>3, CarriedKinds, CarriedKindsNext
<1>14. ASSUME NEW m \in Node, NEW l \in Node, SendState(m, l) \/ Join(m, l) PROVE r \in Carried(n)
  BY <1>14, <1>13 DEF SendState, Join
<1>15. ASSUME NEW m \in Node, Gone(m) PROVE r \in Carried(n)
  <2>1. InMap(n)' \subseteq InMap(n)
    BY <1>15, <1>t DEF Gone, InMap, Present, TypeOK
  <2>2. queue'[n] \subseteq queue[n]
    BY <1>15, <1>t DEF Gone, TypeOK
  <2>3. waiting' \subseteq waiting /\ exchanges' \subseteq exchanges /\ packets' = packets
    BY <1>15 DEF Gone
  <2> QED
    BY <2>1, <2>2, <2>3, CarriedKinds, CarriedKindsNext
<1>16. ASSUME UNCHANGED <<storeVars, netVars>> PROVE r \in Carried(n)
  BY <1>0, <1>16, <1>m
<1> QED
  <2>1. ASSUME NEW m \in Node, NEW l \in Node, Reunited(m, l) PROVE r \in Carried(n)
    BY <1>16, <2>1 DEF Reunited
  <2>2. ASSUME NEW m \in Node, JoinAlone(m) \/ Isolated(m) PROVE r \in Carried(n)
    BY <1>16, <2>2 DEF JoinAlone, Isolated
  <2>3. ASSUME Tick PROVE r \in Carried(n)
    BY <1>16, <2>3 DEF Tick
  <2>4. \A w \in waiting : w.node \in Node
    BY <1>t DEF TypeOK, Wait
  <2> QED
    BY <1>1, <1>2, <1>3, <1>4, <1>5, <1>6, <1>7, <1>8, <1>9, <1>10, <1>11, <1>12, <1>14, <1>15,
       <2>1, <2>2, <2>3, <2>4
       DEF Next, Set, ClosePanics, Crash

\* The history keeps what it has, and what comes into a map goes into it.
LEMMA StoredStep ==
    ASSUME StoreInv, Next, NEW n \in Node
    PROVE  stored[n] \subseteq stored'[n] /\ InMap(n)' \subseteq stored'[n]
<1> USE DEF storeVars, memberVars, netVars, countVars
<1>t. TypeOK /\ TypeOK' /\ InMap(n) \subseteq stored[n]
  BY TypeStep, CarriedKinds DEF StoreInv, CarriedInv
<1>r. ASSUME NEW m \in Node, Remember(m), n # m => kv'[n] = kv[n]
      PROVE  stored[n] \subseteq stored'[n] /\ InMap(n)' \subseteq stored'[n]
  <2>1. CASE n = m
    BY <1>r, <1>t, <2>1, RememberType DEF TypeOK
  <2>2. CASE n # m
    <3>1. InMap(n)' = InMap(n)
      BY <1>r, <2>2 DEF InMap
    <3> QED
      BY <1>r, <1>t, <2>2, <3>1, RememberType DEF TypeOK
  <2> QED
    BY <2>1, <2>2
<1>1. ASSUME NEW m \in Node, NEW k \in Key, NEW v \in Value, SetNew(m, k, v)
      PROVE  stored[n] \subseteq stored'[n] /\ InMap(n)' \subseteq stored'[n]
  BY <1>1, <1>r, <1>t DEF SetNew, TypeOK
<1>2. ASSUME NEW m \in Node, NEW p \in packets, NotifyReplaces(m, p.act)
      PROVE  stored[n] \subseteq stored'[n] /\ InMap(n)' \subseteq stored'[n]
  BY <1>2, <1>r, <1>t DEF NotifyReplaces, TypeOK
<1>3. ASSUME NEW x \in exchanges, MergeRemoteState(x)
      PROVE  stored[n] \subseteq stored'[n] /\ InMap(n)' \subseteq stored'[n]
  BY <1>3, <1>r, <1>t, ExchangeType DEF MergeRemoteState, TypeOK
<1>4. ASSUME stored' = stored, InMap(n)' \subseteq InMap(n)
      PROVE  stored[n] \subseteq stored'[n] /\ InMap(n)' \subseteq stored'[n]
  BY <1>4, <1>t
<1>5. ASSUME stored' = stored, kv' = kv
      PROVE  stored[n] \subseteq stored'[n] /\ InMap(n)' \subseteq stored'[n]
  <2>1. InMap(n)' = InMap(n)
    BY <1>5 DEF InMap
  <2> QED
    BY <1>4, <1>5, <2>1
<1>6. ASSUME NEW m \in Node, NEW k \in Key, Delete(m, k)
      PROVE  stored[n] \subseteq stored'[n] /\ InMap(n)' \subseteq stored'[n]
  <2>1. InMap(n)' \subseteq InMap(n)
    BY <1>6, <1>t DEF Delete, InMap, Present, TypeOK
  <2> QED
    BY <1>4, <1>6, <2>1 DEF Delete
<1>7. ASSUME NEW m \in Node, Gone(m)
      PROVE  stored[n] \subseteq stored'[n] /\ InMap(n)' \subseteq stored'[n]
  <2>1. InMap(n)' \subseteq InMap(n)
    BY <1>7, <1>t DEF Gone, InMap, Present, TypeOK
  <2> QED
    BY <1>4, <1>7, <2>1 DEF Gone
<1> QED
  <2>1. ASSUME NEW m \in Node, NEW k \in Key, Get(m, k) \/ \E v \in Value : SetAgain(m, k, v)
        PROVE  stored' = stored /\ kv' = kv
    BY <2>1 DEF Get, SetAgain
  <2>2. ASSUME NEW w \in waiting,
               \/ QueueSet(w) \/ SeesAlone(w) \/ ClosesAlone(w)
               \/ Returns(w) \/ GivesUp(w) \/ QueueDelete(w)
        PROVE  stored' = stored /\ kv' = kv
    BY <2>2 DEF QueueSet, SeesAlone, ClosesAlone, Returns, GivesUp, QueueDelete
  <2>3. ASSUME \/ \E m \in Node : \E a \in queue[m] : Transmit(m, a)
               \/ \E m \in Node, p \in packets : NotifyConfirms(m, p.act)
               \/ \E m, l \in Node : SendState(m, l) \/ Join(m, l) \/ Reunited(m, l)
               \/ \E m \in Node : JoinAlone(m) \/ Isolated(m)
               \/ Tick
        PROVE  stored' = stored /\ kv' = kv
    BY <2>3 DEF Transmit, NotifyConfirms, SendState, Join, Reunited, JoinAlone, Isolated, Tick
  <2>4. \A w \in waiting : w.node \in Node
    BY <1>t DEF TypeOK, Wait
  <2> QED
    BY <1>1, <1>2, <1>3, <1>5, <1>6, <1>7, <2>1, <2>2, <2>3, <2>4
       DEF Next, Set, ClosePanics, Crash

\* So what a node carries it has had in its map.
LEMMA CarriedInvStep ==
    ASSUME StoreInv, Next PROVE CarriedInv'
<1>t. TypeOK /\ TypeOK' /\ CarriedInv
  BY TypeStep DEF StoreInv
<1>1. ASSUME NEW n \in Node, NEW r \in Carried(n)'
      PROVE  r \in stored'[n] /\ r.value \in Value /\ r.time >= 0
  <2>1. CarriedFrom(n, r)
    BY <1>1, CarriedStep
  <2>2. CASE r \in Carried(n)
    BY <1>t, <2>2, StoredStep DEF CarriedInv
  <2>3. CASE MadeBy(n, r)
    <3>1. Clock(n) \in Nat
      BY <1>t, Numbers
    <3> QED
      BY <2>3, <3>1, StoredStep DEF MadeBy
  <2>4. CASE TakenBy(n, r)
    BY <1>t, <2>4, StoredStep DEF TakenBy, CarriedInv
  <2> QED
    BY <2>1, <2>2, <2>3, <2>4 DEF CarriedFrom
<1>2. ASSUME NEW x \in exchanges' PROVE x \in exchanges \/ x.from # x.to
  <2>1. CASE exchanges' \subseteq exchanges
    BY <1>2, <2>1
  <2>2. ASSUME NEW m \in Node, NEW l \in Node, SendState(m, l) \/ Join(m, l)
        PROVE  x \in exchanges \/ x.from # x.to
    BY <1>2, <2>2 DEF SendState, Join
  <2>3. \/ exchanges' \subseteq exchanges
        \/ \E m, l \in Node : SendState(m, l) \/ Join(m, l)
    <3> USE DEF storeVars, memberVars, netVars, countVars
    <3>1. ASSUME NEW m \in Node, NEW k \in Key,
                 Get(m, k) \/ Delete(m, k) \/ \E v \in Value : SetAgain(m, k, v) \/ SetNew(m, k, v)
          PROVE  exchanges' \subseteq exchanges
      BY <3>1 DEF Get, Delete, SetAgain, SetNew
    <3>2. ASSUME NEW w \in waiting,
                 \/ QueueSet(w) \/ SeesAlone(w) \/ ClosesAlone(w) \/ Gone(w.node)
                 \/ Returns(w) \/ GivesUp(w) \/ QueueDelete(w)
          PROVE  exchanges' \subseteq exchanges
      BY <3>2 DEF QueueSet, SeesAlone, ClosesAlone, Returns, GivesUp, QueueDelete, Gone
    <3>3. ASSUME \/ \E m \in Node : \E a \in queue[m] : Transmit(m, a)
                 \/ \E m \in Node, p \in packets :
                      NotifyConfirms(m, p.act) \/ NotifyReplaces(m, p.act)
                 \/ \E y \in exchanges : MergeRemoteState(y)
                 \/ \E m, l \in Node : Reunited(m, l)
                 \/ \E m \in Node : JoinAlone(m) \/ Isolated(m) \/ Gone(m)
                 \/ Tick
          PROVE  exchanges' \subseteq exchanges
      BY <3>3 DEF Transmit, NotifyConfirms, NotifyReplaces, MergeRemoteState, Reunited, JoinAlone,
                  Isolated, Gone, Tick
    <3> QED
      BY <3>1, <3>2, <3>3 DEF Next, Set, ClosePanics, Crash
  <2> QED
    BY <2>1, <2>2, <2>3
<1> QED
  BY <1>t, <1>1, <1>2 DEF CarriedInv

-----------------------------------------------------------------------------
\* The members of Claims: entries and calls.
LEMMA ClaimKinds ==
    ASSUME NEW a
    PROVE  a \in Claims <=>
             \/ \E n \in Node, k \in Key : Present(kv[n][k]) /\ a = Claim(n, k, kv[n][k])
             \/ \E w \in waiting : w.op # "unset" /\ a = Claim(w.node, w.key, w)
BY DEF Claims

\* The same of the next state.
LEMMA ClaimKindsNext ==
    ASSUME NEW a
    PROVE  a \in Claims' <=>
             \/ \E n \in Node, k \in Key : Present(kv'[n][k]) /\ a = Claim(n, k, kv'[n][k])
             \/ \E w \in waiting' : w.op # "unset" /\ a = Claim(w.node, w.key, w)
BY DEF Claims

\* The claim to an entry that came from another node.
HeardClaim(a) == a.ch = Heard /\ a.node \in Node /\ TakenBy(a.node, Row(a.key, a))

\* The claim to an entry that Set has made.
FreshClaim(a) ==
    /\ sets < MaxSets /\ sets' = sets + 1 /\ a.ch = sets + 1
    /\ confirmed' = confirmed
    /\ a.node \in Node /\ Row(a.key, a) \in InMap(a.node)'

\* The claims after a step: those there were, heard ones, and at most one that
\* is fresh.
ClaimsFrom(c) ==
    \A a \in Claims' : a \in Claims \/ HeardClaim(a) \/ (a = c /\ FreshClaim(a))

\* Where kv is left alone, or entries only go, claims come from calls.
LEMMA ClaimsFrame ==
    ASSUME \A n \in Node, k \in Key : Present(kv'[n][k]) => kv'[n][k] = kv[n][k],
           \A w \in waiting' : w.op # "unset" => Claim(w.node, w.key, w) \in Claims
    PROVE  Claims' \subseteq Claims
<1> SUFFICES ASSUME NEW a \in Claims' PROVE a \in Claims
  OBVIOUS
<1>1. CASE \E n \in Node, k \in Key : Present(kv'[n][k]) /\ a = Claim(n, k, kv'[n][k])
  BY <1>1, ClaimKinds
<1> QED
  BY <1>1, ClaimKindsNext

\* A step makes no other claims.
LEMMA ClaimStep ==
    ASSUME StoreInv, Next
    PROVE  \E c : ClaimsFrom(c)
<1> USE DEF storeVars, memberVars, netVars, countVars
<1>t. TypeOK /\ TypeOK'
  BY TypeStep DEF StoreInv
<1>0. ASSUME Claims' \subseteq Claims PROVE \E c : ClaimsFrom(c)
  BY <1>0 DEF ClaimsFrom
<1>w. \A w \in waiting : w.op # "unset" => Claim(w.node, w.key, w) \in Claims
  BY ClaimKinds
<1>c. ASSUME NEW op, NEW n \in Node, NEW k \in Key, Present(kv[n][k])
      PROVE  /\ Call(op, n, k, kv[n][k]).op = op
             /\ Claim(Call(op, n, k, kv[n][k]).node, Call(op, n, k, kv[n][k]).key,
                      Call(op, n, k, kv[n][k])) \in Claims
  <2>1. Claim(n, k, kv[n][k]) \in Claims
    BY <1>c, ClaimKinds
  <2> QED
    BY <2>1 DEF Call, Claim
<1>1. ASSUME NEW n \in Node, NEW k \in Key, Get(n, k) PROVE Claims' \subseteq Claims
  <2>1. kv' = kv /\ (waiting' = waiting \/ waiting' = waiting \cup {Call("get", n, k, kv[n][k])})
        /\ Present(kv[n][k])
    BY <1>1 DEF Get
  <2> QED
    BY <1>w, <1>c, <2>1, ClaimsFrame
<1>2. ASSUME NEW n \in Node, NEW k \in Key, NEW v \in Value, SetAgain(n, k, v)
      PROVE Claims' \subseteq Claims
  <2>1. kv' = kv /\ (waiting' = waiting \/ waiting' = waiting \cup {Call("again", n, k, kv[n][k])})
        /\ Present(kv[n][k])
    BY <1>2 DEF SetAgain
  <2> QED
    BY <1>w, <1>c, <2>1, ClaimsFrame
<1>3. ASSUME NEW n \in Node, NEW k \in Key, NEW v \in Value, SetNew(n, k, v)
      PROVE \E c : ClaimsFrom(c)
  <2> DEFINE e == [value |-> v, time |-> Clock(n), ch |-> sets + 1]
             c == Claim(n, k, e)
  <2>1. e.ch = sets + 1 /\ e # NoEntry
    BY <1>t, Numbers DEF NoEntry
  <2>2. kv' = [kv EXCEPT ![n][k] = e] /\ kv'[n][k] = e
    BY <1>3, <1>t DEF SetNew, TypeOK
  <2> HIDE DEF e
  <2>3. waiting' = waiting \cup {Call("queue", n, k, e)}
    BY <1>3, <2>2 DEF SetNew
  <2>4. ASSUME NEW m \in Node, NEW j \in Key, Present(kv'[m][j])
        PROVE  Claim(m, j, kv'[m][j]) \in Claims \/ Claim(m, j, kv'[m][j]) = c
    <3>1. CASE m = n /\ j = k
      BY <2>2, <3>1
    <3>2. CASE ~(m = n /\ j = k)
      <4>1. kv'[m][j] = kv[m][j]
        BY <1>t, <2>2, <3>2 DEF TypeOK
      <4> QED
        BY <2>4, <4>1, ClaimKinds
    <3> QED
      BY <3>1, <3>2
  <2>5. Claim(Call("queue", n, k, e).node, Call("queue", n, k, e).key, Call("queue", n, k, e)) = c
    BY DEF Call, Claim
  <2>6. \A a \in Claims' : a \in Claims \/ a = c
    BY <1>w, <2>3, <2>4, <2>5, ClaimKindsNext
  <2>7. Row(k, e) \in InMap(n)'
    BY <2>1, <2>2 DEF InMap, Present
  <2>8. FreshClaim(c)
    BY <1>3, <2>1, <2>7 DEF SetNew, FreshClaim, Claim, Row
  <2> HIDE DEF c
  <2> QED
    BY <2>6, <2>8 DEF ClaimsFrom
<1>4. ASSUME NEW n \in Node, NEW k \in Key, Delete(n, k) PROVE Claims' \subseteq Claims
  <2>1. \A w \in waiting' : w \in waiting \/ w.op = "unset"
    BY <1>4 DEF Delete, Call
  <2>2. \A m \in Node, j \in Key : Present(kv'[m][j]) => kv'[m][j] = kv[m][j]
    BY <1>4, <1>t DEF Delete, Present, TypeOK
  <2> QED
    BY <1>w, <2>1, <2>2, ClaimsFrame
<1>5. ASSUME NEW w \in waiting, NEW op, w.op # "unset", Replace(w, op), kv' = kv
      PROVE  Claims' \subseteq Claims
  <2> DEFINE u == [w EXCEPT !.op = op]
  <2>1. Claim(u.node, u.key, u) = Claim(w.node, w.key, w)
    BY <1>t DEF TypeOK, Wait, Claim
  <2>2. waiting' = (waiting \ {w}) \cup {u}
    BY <1>5 DEF Replace
  <2> HIDE DEF u
  <2> QED
    BY <1>5, <1>w, <2>1, <2>2, ClaimsFrame
<1>6. ASSUME NEW w \in waiting, QueueSet(w) \/ SeesAlone(w) \/ ClosesAlone(w)
      PROVE  Claims' \subseteq Claims
  BY <1>5, <1>6 DEF QueueSet, SeesAlone, ClosesAlone
<1>7. ASSUME kv' = kv, waiting' \subseteq waiting PROVE Claims' \subseteq Claims
  BY <1>7, <1>w, ClaimsFrame
<1>8. ASSUME NEW n \in Node, Gone(n) PROVE Claims' \subseteq Claims
  <2>1. \A m \in Node, j \in Key : Present(kv'[m][j]) => kv'[m][j] = kv[m][j]
    BY <1>8, <1>t DEF Gone, Present, TypeOK
  <2> QED
    BY <1>8, <1>w, <2>1, ClaimsFrame DEF Gone
<1>9. ASSUME waiting' = waiting,
             \A n \in Node, k \in Key :
               Present(kv'[n][k]) => kv'[n][k] = kv[n][k] \/ kv'[n][k].ch = Heard,
             \A n \in Node, k \in Key :
               Present(kv'[n][k]) => kv'[n][k] = kv[n][k] \/ TakenBy(n, Row(k, kv'[n][k]))
      PROVE  \E c : ClaimsFrom(c)
  <2>1. ASSUME NEW a \in Claims' PROVE a \in Claims \/ HeardClaim(a)
    <3>1. ASSUME NEW n \in Node, NEW k \in Key, Present(kv'[n][k]), a = Claim(n, k, kv'[n][k])
          PROVE  a \in Claims \/ HeardClaim(a)
      <4>1. CASE kv'[n][k] = kv[n][k]
        BY <3>1, <4>1, ClaimKinds
      <4>2. CASE kv'[n][k].ch = Heard /\ TakenBy(n, Row(k, kv'[n][k]))
        <5>1. a.ch = Heard /\ a.node = n /\ Row(a.key, a) = Row(k, kv'[n][k])
          BY <3>1, <4>2 DEF Claim, Row
        <5> QED
          BY <4>2, <5>1 DEF HeardClaim
      <4> QED
        BY <1>9, <3>1, <4>1, <4>2
    <3> QED
      BY <1>9, <1>w, <2>1, <3>1, ClaimKindsNext
  <2> QED
    BY <2>1 DEF ClaimsFrom
<1>10. ASSUME NEW n \in Node, NEW p \in packets, NotifyReplaces(n, p.act)
       PROVE  \E c : ClaimsFrom(c)
  <2> DEFINE a == p.act
  <2>1. a \in Action /\ a.key \in Key
    BY <1>t DEF TypeOK, Action
  <2>2. \E f \in Node \ {n} : \E q \in packets : q.from = f /\ q.act = a
    BY <1>10, <1>t DEF NotifyReplaces, Arrives, TypeOK
  <2>3. ASSUME NEW m \in Node, NEW k \in Key, Present(kv'[m][k])
        PROVE  \/ kv'[m][k] = kv[m][k]
               \/ a.typ = "set" /\ m = n /\ k = a.key /\ kv'[m][k] = Decode(a)
    BY <1>10, <1>t, <2>1, <2>3 DEF NotifyReplaces, TypeOK, Present
  <2> HIDE DEF a
  <2>4. ASSUME a.typ = "set", Present(kv'[n][a.key]), kv'[n][a.key] = Decode(a)
        PROVE  kv'[n][a.key].ch = Heard /\ TakenBy(n, Row(a.key, kv'[n][a.key]))
    <3>1. Row(a.key, kv'[n][a.key]) = Row(a.key, a) /\ kv'[n][a.key].ch = Heard
      BY <2>4 DEF Decode, Row
    <3>2. Row(a.key, kv'[n][a.key]) \in InMap(n)'
      BY <2>1, <2>4 DEF InMap
    <3>3. \E f \in Node \ {n} : Row(a.key, a) \in Carried(f)
      BY <2>2, <2>4, CarriedKinds
    <3> QED
      BY <3>1, <3>2, <3>3 DEF TakenBy
  <2>5. waiting' = waiting
    BY <1>10 DEF NotifyReplaces
  <2> QED
    BY <1>9, <2>3, <2>4, <2>5
<1>11. ASSUME NEW x \in exchanges, MergeRemoteState(x) PROVE \E c : ClaimsFrom(c)
  <2>1. /\ x.from \in Node \ {x.to} /\ x.to \in Node /\ DOMAIN x.state \subseteq Key
        /\ \A k \in DOMAIN x.state : x.state[k] \in Encoded
    BY <1>t, ExchangeType DEF StoreInv, CarriedInv
  <2>2. ASSUME NEW m \in Node, NEW k \in Key
        PROVE  \/ kv'[m][k] = kv[m][k]
               \/ m = x.to /\ k \in DOMAIN x.state /\ kv'[m][k] = Decode(x.state[k])
    BY <1>11, <1>t, <2>1 DEF MergeRemoteState, TypeOK
  <2>3. ASSUME NEW m \in Node, NEW k \in DOMAIN x.state, Present(kv'[m][k]),
               m = x.to, kv'[m][k] = Decode(x.state[k])
        PROVE  kv'[m][k].ch = Heard /\ TakenBy(m, Row(k, kv'[m][k]))
    <3>1. Row(k, kv'[m][k]) = Row(k, x.state[k]) /\ kv'[m][k].ch = Heard
      BY <2>3 DEF Decode, Row
    <3>2. Row(k, kv'[m][k]) \in InMap(m)'
      BY <2>1, <2>3 DEF InMap
    <3>3. Row(k, x.state[k]) \in Carried(x.from)
      BY CarriedKinds
    <3> QED
      BY <2>1, <2>3, <3>1, <3>2, <3>3 DEF TakenBy
  <2>4. waiting' = waiting
    BY <1>11 DEF MergeRemoteState
  <2> QED
    BY <1>9, <2>2, <2>3, <2>4
<1> QED
  <2>1. ASSUME NEW w \in waiting, Returns(w) \/ GivesUp(w) \/ QueueDelete(w)
        PROVE  Claims' \subseteq Claims
    BY <1>7, <2>1 DEF Returns, GivesUp, QueueDelete
  <2>2. ASSUME \/ \E m \in Node : \E a \in queue[m] : Transmit(m, a)
               \/ \E m \in Node, p \in packets : NotifyConfirms(m, p.act)
               \/ \E m, l \in Node : SendState(m, l) \/ Join(m, l) \/ Reunited(m, l)
               \/ \E m \in Node : JoinAlone(m) \/ Isolated(m)
               \/ Tick
        PROVE  Claims' \subseteq Claims
    <3>1. kv' = kv /\ waiting' = waiting
      BY <2>2 DEF Transmit, NotifyConfirms, SendState, Join, Reunited, JoinAlone, Isolated, Tick
    <3> QED
      BY <1>7, <3>1
  <2>3. \A w \in waiting : w.node \in Node
    BY <1>t DEF TypeOK, Wait
  <2>4. \/ Claims' \subseteq Claims
        \/ \E c : ClaimsFrom(c)
    BY <1>1, <1>2, <1>3, <1>4, <1>6, <1>8, <1>10, <1>11, <2>1, <2>2, <2>3
       DEF Next, Set, ClosePanics, Crash
  <2> QED
    BY <1>0, <2>4

-----------------------------------------------------------------------------
\* A delete cannot be taken for the confirmation of an entry.
DeletesDiffer == Empty \notin Value \/ MaxDeletes = 0

\* Another node carries the value of a, with a timestamp that is not older.
Witnessed(a) ==
    \E m \in Node \ {a.node} : \E r \in Carried(m) :
        r.key = a.key /\ r.value = a.value /\ r.time >= a.time

\* Why the state of a channel changes: its Set sees itself alone, or another
\* node has sent the value of its entry.
ChannelFrom(ch) ==
    \/ confirmed'[ch] = confirmed[ch]
    \/ confirmed'[ch] = "alone" /\ \E a \in Claims : a.ch = ch
    \/ /\ confirmed'[ch] = "heard"
       /\ \E a \in Claims :
            /\ a.ch = ch /\ a.node \in Node /\ Row(a.key, a) \in InMap(a.node)
            /\ Witnessed(a)

\* What confirms an entry is a row of another node, not a delete.
LEMMA ConfirmsWitnessed ==
    ASSUME StoreInv, NEW n \in Node, NEW k \in Key, NEW m \in Node \ {n}, NEW r,
           Row(k, r) \in Carried(m), Confirms(kv[n][k], r)
    PROVE  \E a \in Claims :
             /\ a.ch = kv[n][k].ch /\ a.node \in Node /\ Row(a.key, a) \in InMap(a.node)
             /\ Witnessed(a)
<1> DEFINE a == Claim(n, k, kv[n][k])
<1>1. a \in Claims
  BY ClaimKinds DEF Confirms
<1>2. /\ a.ch = kv[n][k].ch /\ a.node = n /\ a.key = k
      /\ a.value = kv[n][k].value /\ a.time = kv[n][k].time
      /\ Row(k, a) = Row(k, kv[n][k])
  BY DEF Claim, Row
<1> HIDE DEF a
<1>3. Row(a.key, a) \in InMap(a.node)
  BY <1>2 DEF InMap, Confirms
<1>4. Row(k, r).key = k /\ Row(k, r).value = r.value /\ Row(k, r).time = r.time
  BY DEF Row
<1>5. kv[n][k].time \in Int
  BY DEF StoreInv, TypeOK, Entry
<1>6. Row(k, r) \in stored[m] /\ r.time \in Int
  <2>1. Row(k, r) \in stored[m]
    BY DEF StoreInv, CarriedInv
  <2> QED
    BY <1>4, <2>1 DEF StoreInv, TypeOK
<1>7. r.value = a.value /\ r.time >= a.time
  BY <1>2, <1>5, <1>6 DEF Confirms, Skips
<1>8. Witnessed(a)
  BY <1>2, <1>4, <1>7 DEF Witnessed
<1> QED
  BY <1>1, <1>2, <1>3, <1>8

\* A channel changes for no other reason.
LEMMA ChannelStep ==
    ASSUME StoreInv, DeletesDiffer, Next, NEW ch \in Channel
    PROVE  ChannelFrom(ch)
<1> USE DEF storeVars, memberVars, netVars, countVars
<1>t. TypeOK
  BY DEF StoreInv
<1>0. ASSUME confirmed' = confirmed PROVE ChannelFrom(ch)
  BY <1>0 DEF ChannelFrom
<1>1. ASSUME NEW w \in waiting, ClosesAlone(w) PROVE ChannelFrom(ch)
  <2>1. Claim(w.node, w.key, w) \in Claims /\ Claim(w.node, w.key, w).ch = w.ch
    <3>1. w.op # "unset"
      BY <1>1 DEF ClosesAlone
    <3> QED
      BY <3>1, ClaimKinds DEF Claim
  <2>2. confirmed'[ch] = confirmed[ch] \/ (ch = w.ch /\ confirmed'[ch] = "alone")
    BY <1>1, <1>t DEF ClosesAlone, TypeOK
  <2> QED
    BY <2>1, <2>2 DEF ChannelFrom
<1>2. ASSUME NEW n \in Node, NEW p \in packets, NotifyConfirms(n, p.act) PROVE ChannelFrom(ch)
  <2> DEFINE a == p.act
             k == a.key
  <2>1. a \in Action /\ k \in Key
    BY <1>t DEF TypeOK, Action
  <2>2. PICK q \in packets : q.from # n /\ q.act = a
    BY <1>2 DEF NotifyConfirms, Arrives
  <2>3. q.from \in Node \ {n}
    BY <1>t, <2>2 DEF TypeOK
  <2>4. Confirms(kv[n][k], a)
    BY <1>2 DEF NotifyConfirms
  <2>5. a.typ = "set"
    <3>1. CASE MaxDeletes = 0
      BY <3>1 DEF StoreInv, DeleteInv
    <3>2. CASE Empty \notin Value
      <4>1. Row(k, kv[n][k]) \in InMap(n)
        BY <2>1, <2>4 DEF Confirms, InMap
      <4>2. Row(k, kv[n][k]) \in Carried(n) /\ Row(k, kv[n][k]).value = kv[n][k].value
        BY <4>1, CarriedKinds DEF Row
      <4>3. a.value \in Value
        BY <2>4, <4>2 DEF Confirms, StoreInv, CarriedInv
      <4>4. a.typ # "set" => a.value = Empty
        BY DEF StoreInv, ActionInv
      <4> QED
        BY <3>2, <4>3, <4>4
    <3> QED
      BY <3>1, <3>2 DEF DeletesDiffer
  <2> HIDE DEF a
  <2>6. Row(k, a) \in Carried(q.from)
    BY <2>2, <2>5, CarriedKinds
  <2>7. confirmed'[ch] = confirmed[ch] \/ (confirmed'[ch] = "heard" /\ ch = kv[n][k].ch)
    BY <1>2 DEF NotifyConfirms, MaybeClose, a
  <2> HIDE DEF k
  <2> QED
    BY <2>1, <2>3, <2>4, <2>6, <2>7, ConfirmsWitnessed DEF ChannelFrom
<1>3. ASSUME NEW x \in exchanges, MergeRemoteState(x) PROVE ChannelFrom(ch)
  <2>1. x.from \in Node \ {x.to} /\ x.to \in Node /\ DOMAIN x.state \subseteq Key
    BY <1>t, ExchangeType DEF StoreInv, CarriedInv
  <2> DEFINE Heeded == {kv[x.to][k].ch : k \in {j \in DOMAIN x.state : Confirms(kv[x.to][j], x.state[j])}}
  <2>2. confirmed'[ch] = confirmed[ch] \/ (confirmed'[ch] = "heard" /\ ch \in Heeded)
    BY <1>3 DEF MergeRemoteState, MaybeClose
  <2>3. ASSUME ch \in Heeded
        PROVE  \E k \in DOMAIN x.state : ch = kv[x.to][k].ch /\ Confirms(kv[x.to][k], x.state[k])
    BY <2>3
  <2>4. \A k \in DOMAIN x.state : Row(k, x.state[k]) \in Carried(x.from)
    BY CarriedKinds
  <2> HIDE DEF Heeded
  <2> QED
    BY <2>1, <2>2, <2>3, <2>4, ConfirmsWitnessed DEF ChannelFrom
<1> QED
  <2>1. ASSUME NEW m \in Node, NEW k \in Key,
               Get(m, k) \/ Delete(m, k) \/ \E v \in Value : SetAgain(m, k, v) \/ SetNew(m, k, v)
        PROVE  confirmed' = confirmed
    BY <2>1 DEF Get, Delete, SetAgain, SetNew
  <2>2. ASSUME NEW w \in waiting,
               \/ QueueSet(w) \/ SeesAlone(w) \/ Gone(w.node)
               \/ Returns(w) \/ GivesUp(w) \/ QueueDelete(w)
        PROVE  confirmed' = confirmed
    BY <2>2 DEF QueueSet, SeesAlone, Returns, GivesUp, QueueDelete, Gone
  <2>3. ASSUME \/ \E m \in Node : \E a \in queue[m] : Transmit(m, a)
               \/ \E m \in Node, p \in packets : NotifyReplaces(m, p.act)
               \/ \E m, l \in Node : SendState(m, l) \/ Join(m, l) \/ Reunited(m, l)
               \/ \E m \in Node : JoinAlone(m) \/ Isolated(m) \/ Gone(m)
               \/ Tick
        PROVE  confirmed' = confirmed
    BY <2>3 DEF Transmit, NotifyReplaces, SendState, Join, Reunited, JoinAlone, Isolated, Gone, Tick
  <2> QED
    BY <1>0, <1>1, <1>2, <1>3, <2>1, <2>2, <2>3 DEF Next, Set, ClosePanics, Crash

\* Nothing but a Set counts in sets.
LEMMA SetsStep ==
    ASSUME StoreInv, Next
    PROVE  sets \in Nat /\ sets' \in Nat /\ sets <= sets' /\ sets' <= MaxSets /\ MaxSets \in Nat
<1> USE DEF storeVars, memberVars, netVars, countVars
<1>t. TypeOK /\ TypeOK'
  BY TypeStep DEF StoreInv
<1>1. ASSUME NEW m \in Node, NEW k \in Key,
             Get(m, k) \/ Delete(m, k) \/ \E v \in Value : SetAgain(m, k, v) \/ SetNew(m, k, v)
      PROVE  sets' = sets \/ sets' = sets + 1
  BY <1>1 DEF Get, Delete, SetAgain, SetNew
<1>2. ASSUME NEW w \in waiting,
             \/ QueueSet(w) \/ SeesAlone(w) \/ ClosesAlone(w) \/ Gone(w.node)
             \/ Returns(w) \/ GivesUp(w) \/ QueueDelete(w)
      PROVE  sets' = sets
  BY <1>2 DEF QueueSet, SeesAlone, ClosesAlone, Returns, GivesUp, QueueDelete, Gone
<1>3. ASSUME \/ \E m \in Node : \E a \in queue[m] : Transmit(m, a)
             \/ \E m \in Node, p \in packets :
                  NotifyConfirms(m, p.act) \/ NotifyReplaces(m, p.act)
             \/ \E y \in exchanges : MergeRemoteState(y)
             \/ \E m, l \in Node : SendState(m, l) \/ Join(m, l) \/ Reunited(m, l)
             \/ \E m \in Node : JoinAlone(m) \/ Isolated(m) \/ Gone(m)
             \/ Tick
      PROVE  sets' = sets
  BY <1>3 DEF Transmit, NotifyConfirms, NotifyReplaces, MergeRemoteState, SendState, Join,
              Reunited, JoinAlone, Isolated, Gone, Tick
<1>4. sets' = sets \/ sets' = sets + 1
  BY <1>1, <1>2, <1>3 DEF Next, Set, ClosePanics, Crash
<1> QED
  BY <1>t, <1>4, GossipAssumption DEF TypeOK

\* An action that is queued or on its way was so before, or is a set, or a
\* delete of a call of Delete.
ActionFrom(b) ==
    \/ \E n \in Node : b \in queue[n]
    \/ \E q \in packets : q.act = b
    \/ b.typ = "set"
    \/ b.value = Empty /\ \E w \in waiting : w.op = "unset"

\* That is so of every step, and a call of Delete starts only while there may
\* be one.
LEMMA ActionStep ==
    ASSUME StoreInv, Next
    PROVE  /\ \A n \in Node : \A b \in queue'[n] : ActionFrom(b)
           /\ \A q \in packets' : ActionFrom(q.act)
           /\ \A w \in waiting' : w.op = "unset" =>
                (\E v \in waiting : v.op = "unset") \/ deletes < MaxDeletes
<1> USE DEF storeVars, memberVars, netVars, countVars
<1>t. TypeOK
  BY DEF StoreInv
<1> DEFINE Goal == /\ \A n \in Node : \A b \in queue'[n] : ActionFrom(b)
                   /\ \A q \in packets' : ActionFrom(q.act)
                   /\ \A w \in waiting' : w.op = "unset" =>
                        (\E v \in waiting : v.op = "unset") \/ deletes < MaxDeletes
<1>0. ASSUME \A n \in Node : queue'[n] \subseteq queue[n],
             packets' = packets,
             \A w \in waiting' : w \in waiting \/ w.op # "unset"
      PROVE  Goal
  BY <1>0 DEF ActionFrom
<1>1. ASSUME NEW m \in Node, NEW k \in Key,
             Get(m, k) \/ \E v \in Value : SetAgain(m, k, v) \/ SetNew(m, k, v)
      PROVE  Goal
  <2>1. queue' = queue /\ packets' = packets
    BY <1>1 DEF Get, SetAgain, SetNew
  <2>2. \A w \in waiting' : w \in waiting \/ w.op # "unset"
    BY <1>1 DEF Get, SetAgain, SetNew, Call
  <2> QED
    BY <1>0, <2>1, <2>2
<1>2. ASSUME NEW m \in Node, NEW k \in Key, Delete(m, k) PROVE Goal
  BY <1>2 DEF Delete, ActionFrom
<1>3. ASSUME NEW n \in Node, NEW b, ActionFrom(b), QueueBroadcast(n, b),
             \A w \in waiting' : w \in waiting \/ w.op # "unset"
      PROVE  Goal
  <2>1. ASSUME NEW m \in Node, NEW c \in queue'[m] PROVE c \in queue[m] \/ c = b
    BY <1>3, <1>t DEF QueueBroadcast, TypeOK
  <2>2. ASSUME NEW q \in packets' PROVE q \in packets \/ q.act = b
    BY <1>3 DEF QueueBroadcast
  <2>3. \A m \in Node : \A c \in queue'[m] : ActionFrom(c)
    BY <1>3, <2>1 DEF ActionFrom
  <2>4. \A q \in packets' : ActionFrom(q.act)
    BY <1>3, <2>2 DEF ActionFrom
  <2> QED
    BY <1>3, <2>3, <2>4
<1>w. ASSUME NEW w \in waiting, NEW op, op # "unset", Replace(w, op)
      PROVE  \A v \in waiting' : v \in waiting \/ v.op # "unset"
  BY <1>w, <1>t DEF Replace, TypeOK, Wait
<1>4. ASSUME NEW w \in waiting, QueueSet(w) PROVE Goal
  <2>1. ActionFrom(SetAction(w)) /\ w.node \in Node
    BY <1>t DEF ActionFrom, SetAction, TypeOK, Wait
  <2> QED
    BY <1>3, <1>4, <1>w, <2>1 DEF QueueSet
<1>5. ASSUME NEW w \in waiting, QueueDelete(w) PROVE Goal
  <2>1. ActionFrom(DeleteAction(w.key, Clock(w.node))) /\ w.node \in Node
    BY <1>5, <1>t DEF ActionFrom, QueueDelete, DeleteAction, TypeOK, Wait
  <2> QED
    BY <1>3, <1>5, <2>1 DEF QueueDelete
<1>6. ASSUME NEW w \in waiting, SeesAlone(w) \/ ClosesAlone(w) PROVE Goal
  BY <1>0, <1>6, <1>w DEF SeesAlone, ClosesAlone
<1>7. ASSUME NEW w \in waiting, Returns(w) \/ GivesUp(w) PROVE Goal
  BY <1>0, <1>7 DEF Returns, GivesUp
<1>8. ASSUME NEW n \in Node, NEW p \in packets, NotifyReplaces(n, p.act) PROVE Goal
  <2>1. ActionFrom(p.act)
    BY DEF ActionFrom
  <2> QED
    BY <1>3, <1>8, <2>1 DEF NotifyReplaces
<1>9. ASSUME NEW n \in Node, NEW a \in queue[n], Transmit(n, a) PROVE Goal
  <2>1. \A m \in Node : queue'[m] \subseteq queue[m]
    BY <1>9, <1>t DEF Transmit, TypeOK
  <2>2. \A q \in packets' : q \in packets \/ q.act = a
    BY <1>9 DEF Transmit
  <2>3. waiting' = waiting
    BY <1>9 DEF Transmit
  <2> QED
    BY <2>1, <2>2, <2>3 DEF ActionFrom
<1>10. ASSUME NEW n \in Node, Gone(n) PROVE Goal
  <2>1. \A m \in Node : queue'[m] \subseteq queue[m]
    BY <1>10, <1>t DEF Gone, TypeOK
  <2> QED
    BY <1>0, <1>10, <2>1 DEF Gone
<1>11. ASSUME \/ \E m \in Node, p \in packets : NotifyConfirms(m, p.act)
              \/ \E x \in exchanges : MergeRemoteState(x)
              \/ \E m, l \in Node : SendState(m, l) \/ Join(m, l) \/ Reunited(m, l)
              \/ \E m \in Node : JoinAlone(m) \/ Isolated(m)
              \/ Tick
       PROVE  Goal
  <2>1. queue' = queue /\ packets' = packets /\ waiting' = waiting
    BY <1>11 DEF NotifyConfirms, MergeRemoteState, SendState, Join, Reunited, JoinAlone, Isolated,
                 Tick
  <2> QED
    BY <1>0, <2>1
<1>12. \A w \in waiting : w.node \in Node
  BY <1>t DEF TypeOK, Wait
<1> HIDE DEF Goal
<1>13. Goal
  BY <1>1, <1>2, <1>4, <1>5, <1>6, <1>7, <1>8, <1>9, <1>10, <1>11, <1>12
     DEF Next, Set, ClosePanics, Crash
<1> QED
  BY <1>13 DEF Goal

\* Every step preserves StoreInv.
LEMMA StoreStep == DeletesDiffer /\ StoreInv /\ [Next]_vars => StoreInv'
<1> SUFFICES ASSUME DeletesDiffer, StoreInv, [Next]_vars PROVE StoreInv'
  OBVIOUS
<1>t. TypeOK'
  BY TypeStep DEF StoreInv
<1>1. CASE UNCHANGED vars
  <2>1. \A n \in Node : Carried(n)' = Carried(n)
    BY <1>1 DEF vars, storeVars, netVars, Carried, InMap
  <2>2. Claims' = Claims
    BY <1>1 DEF vars, storeVars, Claims
  <2>3. CarriedInv' /\ ChannelInv'
    BY <1>1, <2>1, <2>2
       DEF vars, storeVars, netVars, countVars, StoreInv, CarriedInv, ChannelInv
  <2>4. SharedInv'
    BY <1>1, <2>2 DEF vars, storeVars, StoreInv, SharedInv, IsShared, KnownElsewhere
  <2>5. ActionInv' /\ DeleteInv'
    BY <1>1 DEF vars, storeVars, netVars, StoreInv, ActionInv, DeleteInv
  <2> QED
    BY <1>t, <2>3, <2>4, <2>5 DEF StoreInv
<1>2. CASE Next
  <2>0. TypeOK /\ CarriedInv /\ ChannelInv /\ ActionInv /\ DeleteInv /\ SharedInv
    BY DEF StoreInv
  <2>1. CarriedInv'
    BY <1>2, CarriedInvStep
  <2>2. PICK c : ClaimsFrom(c)
    BY <1>2, ClaimStep
  <2>3. sets \in Nat /\ sets' \in Nat /\ sets <= sets' /\ sets' <= MaxSets /\ MaxSets \in Nat
    BY <1>2, SetsStep
  <2>4. \A a \in Claims : a.ch \in 0..MaxSets
    <3>1. \A n \in Node, k \in Key : Claim(n, k, kv[n][k]).ch \in 0..MaxSets
      BY <2>0 DEF TypeOK, Entry, Claim
    <3>2. \A w \in waiting : Claim(w.node, w.key, w).ch \in 0..MaxSets
      BY <2>0 DEF TypeOK, Wait, Claim
    <3> QED
      BY <3>1, <3>2, ClaimKinds
  <2>5. ChannelInv'
    <3>1. \A a \in Claims' : a.ch <= sets'
      BY <2>0, <2>2, <2>3, <2>4 DEF ClaimsFrom, HeardClaim, FreshClaim, ChannelInv, Heard
    <3>2. ASSUME NEW a \in Claims', NEW b \in Claims', a.ch = b.ch, a.ch # Heard PROVE a = b
      BY <2>0, <2>2, <2>3, <2>4, <3>2 DEF ClaimsFrom, HeardClaim, FreshClaim, ChannelInv
    <3>3. ASSUME NEW ch \in Channel, ch > sets' PROVE confirmed'[ch] = "open"
      <4>1. ch > sets /\ ch \in Nat
        BY <2>3, <3>3 DEF Channel
      <4>2. ~\E a \in Claims : a.ch = ch
        BY <2>0, <2>3, <2>4, <4>1 DEF ChannelInv
      <4> QED
        BY <1>2, <2>0, <4>1, <4>2, ChannelStep DEF ChannelFrom, ChannelInv
    <3> QED
      BY <3>1, <3>2, <3>3 DEF ChannelInv
  <2>6. \A n \in Node : stored[n] \subseteq stored'[n]
    BY <1>2, StoredStep
  <2>7. ASSUME NEW a \in Claims', IsShared(a.ch)' PROVE KnownElsewhere(a.node, a.key, a)'
    <3>1. ASSUME Witnessed(a) PROVE KnownElsewhere(a.node, a.key, a)'
      <4>1. PICK m \in Node \ {a.node} :
              \E r \in Carried(m) : r.key = a.key /\ r.value = a.value /\ r.time >= a.time
        BY <3>1 DEF Witnessed
      <4>2. PICK r \in Carried(m) : r.key = a.key /\ r.value = a.value /\ r.time >= a.time
        BY <4>1
      <4>3. r \in stored'[m]
        BY <2>0, <2>6, <4>1, <4>2 DEF CarriedInv
      <4> QED
        BY <4>1, <4>2, <4>3 DEF KnownElsewhere
    <3>2. ASSUME KnownElsewhere(a.node, a.key, a) PROVE KnownElsewhere(a.node, a.key, a)'
      BY <2>6, <3>2 DEF KnownElsewhere
    <3>3. CASE a \in Claims
      <4>1. CASE a.ch = Heard
        BY <2>0, <3>2, <3>3, <4>1 DEF SharedInv, IsShared
      <4>2. CASE a.ch # Heard
        <5>1. a.ch \in Channel /\ confirmed'[a.ch] = "heard"
          BY <2>0, <2>4, <2>7, <3>3, <4>2, Numbers DEF IsShared
        <5>2. CASE confirmed'[a.ch] = confirmed[a.ch]
          BY <2>0, <3>2, <3>3, <5>1, <5>2 DEF SharedInv, IsShared
        <5>3. CASE \E b \in Claims : b.ch = a.ch /\ Witnessed(b)
          BY <2>0, <3>1, <3>3, <4>2, <5>3 DEF ChannelInv
        <5> QED
          BY <1>2, <5>1, <5>2, <5>3, ChannelStep DEF ChannelFrom
      <4> QED
        BY <4>1, <4>2
    <3>4. CASE HeardClaim(a)
      <4>1. PICK m \in Node \ {a.node} : Row(a.key, a) \in Carried(m)
        BY <3>4 DEF HeardClaim, TakenBy
      <4>2. /\ Row(a.key, a).key = a.key /\ Row(a.key, a).value = a.value
            /\ Row(a.key, a).time = a.time
        BY DEF Row
      <4>3. a.time \in Int
        <5>1. Row(a.key, a) \in stored[m]
          BY <2>0, <4>1 DEF CarriedInv
        <5> QED
          BY <2>0, <4>2, <5>1 DEF TypeOK
      <4>4. a.time >= a.time
        BY <4>3
      <4> QED
        BY <3>1, <4>1, <4>2, <4>4 DEF Witnessed
    <3>5. CASE FreshClaim(a)
      <4>1. a.ch \in Channel /\ a.ch > sets
        BY <2>3, <3>5 DEF FreshClaim, Channel
      <4>2. a.ch # Heard /\ confirmed'[a.ch] = "open"
        BY <2>0, <2>3, <3>5, <4>1 DEF FreshClaim, ChannelInv, Heard
      <4> QED
        BY <2>7, <4>2 DEF IsShared
    <3> QED
      BY <2>2, <2>7, <3>3, <3>4, <3>5 DEF ClaimsFrom
  <2>8. SharedInv'
    BY <2>7 DEF SharedInv
  <2>9. ASSUME NEW b, ActionFrom(b) PROVE b.typ # "set" => b.value = Empty
    BY <2>0, <2>9 DEF ActionFrom, ActionInv
  <2>10. ActionInv'
    BY <1>2, <2>9, ActionStep DEF ActionInv
  <2>11. ASSUME MaxDeletes = 0
         PROVE  /\ ~(deletes < MaxDeletes) /\ \A w \in waiting : w.op # "unset"
                /\ \A b : ActionFrom(b) => b.typ = "set"
    BY <2>0, <2>11 DEF TypeOK, DeleteInv, ActionFrom
  <2>12. DeleteInv'
    <3> SUFFICES ASSUME MaxDeletes = 0
                 PROVE  /\ \A w \in waiting' : w.op # "unset"
                        /\ \A n \in Node : \A a \in queue'[n] : a.typ = "set"
                        /\ \A p \in packets' : p.act.typ = "set"
      BY DEF DeleteInv
    <3> QED
      BY <1>2, <2>11, ActionStep
  <2> QED
    BY <1>t, <2>1, <2>5, <2>8, <2>10, <2>12 DEF StoreInv
<1> QED
  BY <1>1, <1>2

\* The initial state satisfies it: no node has anything.
LEMMA StoreInit == Init => StoreInv
<1> SUFFICES ASSUME Init PROVE StoreInv
  OBVIOUS
<1>1. TypeOK
  BY TypeInit
<1>2. \A n \in Node, k \in Key : ~Present(kv[n][k])
  BY DEF Init, Present
<1>3. \A n \in Node : InMap(n) = {}
  BY <1>2 DEF InMap
<1>4. \A n \in Node : Carried(n) = {}
  BY <1>3, CarriedKinds DEF Init
<1>5. Claims = {}
  BY <1>2, ClaimKinds DEF Init
<1> QED
  BY <1>1, <1>4, <1>5
     DEF Init, StoreInv, CarriedInv, ChannelInv, ActionInv, DeleteInv, SharedInv

\* StoreInv holds whenever a delete cannot be taken for an entry: callers store
\* no empty value, or delete nothing.
THEOREM StoreInvariant == DeletesDiffer => (Spec => []StoreInv)
<1> SUFFICES ASSUME DeletesDiffer PROVE Spec => []StoreInv
  OBVIOUS
<1>1. StoreInv /\ [Next]_vars => StoreInv'
  BY StoreStep
<1> QED
  BY <1>1, StoreInit, PTL DEF Spec

\* What a caller is told to be confirmed by another node, another node has
\* stored, however the clocks run and whatever is lost, late or repeated.
THEOREM ConfirmedShared == DeletesDiffer => (Spec => []ConfirmedIsShared)
<1> SUFFICES ASSUME DeletesDiffer PROVE Spec => []ConfirmedIsShared
  OBVIOUS
<1>1. ASSUME StoreInv PROVE ConfirmedIsShared
  <2>1. ASSUME NEW n \in Node, NEW k \in Key, NEW e, Claim(n, k, e) \in Claims, IsShared(e.ch)
        PROVE  KnownElsewhere(n, k, e)
    <3> DEFINE a == Claim(n, k, e)
    <3>1. /\ a.node = n /\ a.key = k /\ a.value = e.value /\ a.time = e.time /\ a.ch = e.ch
      BY DEF Claim
    <3> HIDE DEF a
    <3>2. a \in Claims
      BY <2>1 DEF a
    <3>3. KnownElsewhere(a.node, a.key, a)
      BY <1>1, <2>1, <3>1, <3>2 DEF StoreInv, SharedInv
    <3> QED
      BY <3>1, <3>3 DEF KnownElsewhere
  <2>2. \A w \in waiting : w.node \in Node /\ w.key \in Key
    BY <1>1 DEF StoreInv, TypeOK, Wait
  <2> QED
    BY <2>1, <2>2, ClaimKinds DEF ConfirmedIsShared
<1> QED
  BY <1>1, StoreInvariant, PTL

-----------------------------------------------------------------------------
\* The entry that n has of every key stays, or makes way for one that is not
\* older.
Keeps(n) ==
    \A k \in Key : Present(kv[n][k]) => Present(kv'[n][k]) /\ kv'[n][k].time >= kv[n][k].time

\* An entry of a map is no older than itself.
LEMMA InMapCopiesNext ==
    ASSUME TypeOK', NEW n \in Node, NEW r \in InMap(n)'
    PROVE  n \in Copies(r.key, r.time)'
<1>1. PICK j \in Key : Present(kv'[n][j]) /\ r = Row(j, kv'[n][j])
  BY DEF InMap
<1>2. r.key = j /\ r.time = kv'[n][j].time
  BY <1>1 DEF Row
<1>3. kv'[n][j].time \in Int
  BY DEF TypeOK, Entry
<1> QED
  BY <1>1, <1>2, <1>3 DEF Copies

\* What is replaced is not newer than what replaces it.
LEMMA ReplacesKeeps ==
    ASSUME TypeOK, NEW n \in Node, NEW k \in Key, NEW r, r.time \in Int, r.time >= 0,
           Replaces(kv[n][k], r)
    PROVE  /\ Present(Decode(r)) /\ Decode(r).time = r.time
           /\ Present(kv[n][k]) => r.time >= kv[n][k].time
<1>1. kv[n][k].time \in Int
  BY DEF TypeOK, Entry
<1>2. Decode(r).time = r.time /\ NoEntry.time = -1
  BY DEF Decode, NoEntry
<1>3. Decode(r) # NoEntry
  BY <1>2
<1> QED
  BY <1>1, <1>2, <1>3 DEF Present, Replaces, Skips

\* Without deletes, and while no clock is behind what its node carries, only a
\* crash takes entries from a map.
LEMMA KeepsStep ==
    ASSUME StoreInv, HeldInv, MaxDeletes = 0, Next
    PROVE  \/ crashes' = crashes /\ \A n \in Node : Keeps(n)
           \/ \E m \in Node : Gone(m)
<1> USE DEF storeVars, memberVars, netVars, countVars
<1> DEFINE Goal == crashes' = crashes /\ \A n \in Node : Keeps(n)
<1>t. TypeOK /\ TypeOK'
  BY TypeStep DEF StoreInv
<1>0. ASSUME crashes' = crashes, kv' = kv PROVE Goal
  <2>1. \A n \in Node, k \in Key : kv[n][k].time \in Int
    BY <1>t DEF TypeOK, Entry
  <2> QED
    BY <1>0, <2>1 DEF Keeps
<1>1. ASSUME NEW n \in Node, NEW k \in Key, NEW v \in Value, SetNew(n, k, v) PROVE Goal
  <2>1. Clock(n) \in Nat
    BY <1>t, Numbers
  <2>2. /\ kv'[n][k] = [value |-> v, time |-> Clock(n), ch |-> sets + 1]
        /\ \A m \in Node, j \in Key : (m = n /\ j = k) \/ kv'[m][j] = kv[m][j]
    BY <1>1, <1>t DEF SetNew, TypeOK
  <2>3. kv'[n][k].time = Clock(n) /\ Present(kv'[n][k])
    BY <2>1, <2>2 DEF Present, NoEntry
  <2>4. ASSUME Present(kv[n][k]) PROVE kv[n][k].time <= Clock(n)
    <3>1. Row(k, kv[n][k]) \in Carried(n)
      <4>1. Row(k, kv[n][k]) \in InMap(n)
        BY <2>4 DEF InMap
      <4> QED
        BY <4>1, CarriedKinds
    <3>2. Row(k, kv[n][k]).time = kv[n][k].time
      BY DEF Row
    <3> QED
      BY <3>1, <3>2 DEF HeldInv
  <2>5. \A m \in Node, j \in Key : kv[m][j].time \in Int
    BY <1>t DEF TypeOK, Entry
  <2> QED
    BY <1>1, <2>1, <2>2, <2>3, <2>4, <2>5 DEF Keeps, SetNew
<1>2. ASSUME NEW n \in Node, NEW p \in packets, NotifyReplaces(n, p.act) PROVE Goal
  <2> DEFINE a == p.act
             k == a.key
  <2>1. p.from \in Node /\ a \in Action /\ k \in Key /\ a.time \in Int /\ a.typ = "set"
    BY <1>t DEF StoreInv, DeleteInv, TypeOK, Action
  <2>2. a.time >= 0
    <3>1. Row(k, a) \in Carried(p.from)
      BY <2>1, CarriedKinds
    <3>2. Row(k, a).time = a.time
      BY DEF Row
    <3> QED
      BY <2>1, <3>1, <3>2 DEF StoreInv, CarriedInv
  <2>3. Replaces(kv[n][k], a) /\ crashes' = crashes
    BY <1>2 DEF NotifyReplaces
  <2>4. /\ kv'[n][k] = Decode(a)
        /\ \A m \in Node, j \in Key : (m = n /\ j = k) \/ kv'[m][j] = kv[m][j]
    BY <1>2, <1>t, <2>1 DEF NotifyReplaces, TypeOK
  <2>5. \A m \in Node, j \in Key : kv[m][j].time \in Int
    BY <1>t DEF TypeOK, Entry
  <2> HIDE DEF k, a
  <2>6. /\ Present(Decode(a)) /\ Decode(a).time = a.time
        /\ Present(kv[n][k]) => a.time >= kv[n][k].time
    BY <1>t, <2>1, <2>2, <2>3, ReplacesKeeps
  <2> QED
    BY <2>3, <2>4, <2>5, <2>6 DEF Keeps
<1>3. ASSUME NEW x \in exchanges, MergeRemoteState(x) PROVE Goal
  <2> DEFINE n == x.to
  <2>1. x.from \in Node /\ n \in Node /\ DOMAIN x.state \subseteq Key
    BY <1>t, ExchangeType
  <2>2. \A j \in DOMAIN x.state : x.state[j].time \in Int
    BY <1>t DEF TypeOK, Encoded
  <2>3. \A j \in DOMAIN x.state : x.state[j].time >= 0
    <3>1. \A j \in DOMAIN x.state : Row(j, x.state[j]) \in Carried(x.from)
      BY CarriedKinds
    <3>2. \A j \in DOMAIN x.state : Row(j, x.state[j]).time = x.state[j].time
      BY DEF Row
    <3> QED
      BY <2>1, <3>1, <3>2 DEF StoreInv, CarriedInv
  <2>4. \A m \in Node, j \in Key :
          \/ kv'[m][j] = kv[m][j]
          \/ /\ m = n /\ j \in DOMAIN x.state /\ Replaces(kv[n][j], x.state[j])
             /\ kv'[m][j] = Decode(x.state[j])
    BY <1>3, <1>t, <2>1 DEF MergeRemoteState, TypeOK
  <2>5. \A m \in Node, j \in Key : kv[m][j].time \in Int
    BY <1>t DEF TypeOK, Entry
  <2>6. crashes' = crashes
    BY <1>3 DEF MergeRemoteState
  <2> HIDE DEF n
  <2>7. \A j \in Key : j \in DOMAIN x.state /\ Replaces(kv[n][j], x.state[j]) =>
          /\ Present(Decode(x.state[j]))
          /\ Present(kv[n][j]) => Decode(x.state[j]).time >= kv[n][j].time
    BY <1>t, <2>1, <2>2, <2>3, ReplacesKeeps
  <2> QED
    BY <2>4, <2>5, <2>6, <2>7 DEF Keeps
<1>4. ASSUME NEW m \in Node, NEW k \in Key,
             Get(m, k) \/ \E v \in Value : SetAgain(m, k, v)
      PROVE  crashes' = crashes /\ kv' = kv
  BY <1>4 DEF Get, SetAgain
<1>5. ASSUME NEW w \in waiting,
             \/ QueueSet(w) \/ SeesAlone(w) \/ ClosesAlone(w)
             \/ Returns(w) \/ GivesUp(w) \/ QueueDelete(w)
      PROVE  crashes' = crashes /\ kv' = kv
  BY <1>5 DEF QueueSet, SeesAlone, ClosesAlone, Returns, GivesUp, QueueDelete
<1>6. ASSUME \/ \E m \in Node : \E a \in queue[m] : Transmit(m, a)
             \/ \E m \in Node, p \in packets : NotifyConfirms(m, p.act)
             \/ \E m, l \in Node : SendState(m, l) \/ Join(m, l) \/ Reunited(m, l)
             \/ \E m \in Node : JoinAlone(m) \/ Isolated(m)
             \/ Tick
      PROVE  crashes' = crashes /\ kv' = kv
  BY <1>6 DEF Transmit, NotifyConfirms, SendState, Join, Reunited, JoinAlone, Isolated, Tick
<1>7. ~\E m \in Node, k \in Key : Delete(m, k)
  BY <1>t DEF Delete, TypeOK
<1>8. \A w \in waiting : w.node \in Node
  BY <1>t DEF TypeOK, Wait
<1> HIDE DEF Goal
<1>9. Goal \/ \E m \in Node : Gone(m)
  BY <1>0, <1>1, <1>2, <1>3, <1>4, <1>5, <1>6, <1>7, <1>8 DEF Next, Set, ClosePanics, Crash
<1> QED
  BY <1>9 DEF Goal

\* What a node that keeps its entries has copies of, it goes on having.
LEMMA CopiesKept ==
    ASSUME TypeOK, TypeOK', NEW k \in Key, NEW t \in Int, NEW n \in Copies(k, t), Keeps(n)
    PROVE  n \in Copies(k, t)'
<1>1. kv[n][k].time \in Int /\ kv'[n][k].time \in Int
  BY DEF TypeOK, Entry, Copies
<1> QED
  BY <1>1 DEF Copies, Keeps

\* A step that is no crash costs no copy.
LEMMA SurvivesStep ==
    ASSUME TypeOK, TypeOK', crashes' = crashes, \A n \in Node : Keeps(n),
           NEW k \in Key, NEW t \in Int, Survives(k, t)
    PROVE  Survives(k, t)'
<1>1. \A n \in Copies(k, t) : n \in Copies(k, t)'
  BY CopiesKept DEF Copies
<1> QED
  BY <1>1 DEF Survives

\* A crash costs the copy of one node.
LEMMA SurvivesGone ==
    ASSUME TypeOK, TypeOK', NEW m \in Node, Gone(m), NEW k \in Key, NEW t \in Int, Survives(k, t)
    PROVE  Survives(k, t)'
<1>1. crashes \in Nat /\ crashes' = crashes + 1
  BY DEF Gone, TypeOK
<1>2. \A n \in Copies(k, t) : n # m => n \in Copies(k, t)'
  BY DEF Gone, Copies, TypeOK
<1>3. CASE crashes >= 1
  BY <1>1, <1>3 DEF Survives
<1>4. CASE crashes = 0
  <2>1. PICK n \in Copies(k, t) : n # m
    BY <1>4 DEF Survives
  <2> QED
    BY <1>1, <1>2, <1>4, <2>1 DEF Survives
<1> QED
  BY <1>1, <1>3, <1>4

\* Clocks run forward.
LEMMA ClockStep ==
    ASSUME StoreInv, Next, NEW n \in Node
    PROVE  Clock(n) \in Nat /\ Clock(n)' \in Nat /\ Clock(n) <= Clock(n)'
<1> USE DEF storeVars, memberVars, netVars, countVars
<1>t. TypeOK /\ TypeOK'
  BY TypeStep DEF StoreInv
<1>1. ASSUME NEW m \in Node, NEW k \in Key,
             Get(m, k) \/ Delete(m, k) \/ \E v \in Value : SetAgain(m, k, v) \/ SetNew(m, k, v)
      PROVE  now' = now
  BY <1>1 DEF Get, Delete, SetAgain, SetNew
<1>2. ASSUME NEW w \in waiting,
             \/ QueueSet(w) \/ SeesAlone(w) \/ ClosesAlone(w) \/ Gone(w.node)
             \/ Returns(w) \/ GivesUp(w) \/ QueueDelete(w)
      PROVE  now' = now
  BY <1>2 DEF QueueSet, SeesAlone, ClosesAlone, Returns, GivesUp, QueueDelete, Gone
<1>3. ASSUME \/ \E m \in Node : \E a \in queue[m] : Transmit(m, a)
             \/ \E m \in Node, p \in packets :
                  NotifyConfirms(m, p.act) \/ NotifyReplaces(m, p.act)
             \/ \E y \in exchanges : MergeRemoteState(y)
             \/ \E m, l \in Node : SendState(m, l) \/ Join(m, l) \/ Reunited(m, l)
             \/ \E m \in Node : JoinAlone(m) \/ Isolated(m) \/ Gone(m)
      PROVE  now' = now
  BY <1>3 DEF Transmit, NotifyConfirms, NotifyReplaces, MergeRemoteState, SendState, Join,
              Reunited, JoinAlone, Isolated, Gone
<1>4. now' = now \/ now' = now + 1
  BY <1>1, <1>2, <1>3 DEF Next, Set, ClosePanics, Crash, Tick
<1> QED
  BY <1>t, <1>4, GossipAssumption DEF TypeOK, Clock

\* What a caller is told is confirmed is the timestamp of a claim.
LEMMA AckStep ==
    ASSUME StoreInv, Next, NEW k \in Key
    PROVE  \/ acked'[k] = acked[k]
           \/ \E a \in Claims : IsShared(a.ch) /\ a.key = k /\ a.time = acked'[k]
<1> USE DEF storeVars, memberVars, netVars, countVars
<1> DEFINE Goal == \/ acked'[k] = acked[k]
                   \/ \E a \in Claims : IsShared(a.ch) /\ a.key = k /\ a.time = acked'[k]
<1>t. TypeOK
  BY DEF StoreInv
<1>0. ASSUME NEW a \in Claims, a.key \in Key, Ack(a.key, a.ch, a.time) PROVE Goal
  BY <1>0, <1>t DEF Ack, TypeOK
<1>1. ASSUME NEW n \in Node, NEW j \in Key, Get(n, j) \/ \E v \in Value : SetAgain(n, j, v)
      PROVE  Goal
  <2>1. CASE acked' = acked
    BY <2>1
  <2>2. CASE Present(kv[n][j]) /\ Ack(j, kv[n][j].ch, kv[n][j].time)
    <3>1. Claim(n, j, kv[n][j]) \in Claims
      BY <2>2, ClaimKinds
    <3>2. /\ Claim(n, j, kv[n][j]).key = j /\ Claim(n, j, kv[n][j]).ch = kv[n][j].ch
          /\ Claim(n, j, kv[n][j]).time = kv[n][j].time
      BY DEF Claim
    <3> HIDE DEF Goal
    <3> QED
      BY <1>0, <2>2, <3>1, <3>2
  <2> QED
    BY <1>1, <2>1, <2>2 DEF Get, SetAgain
<1>2. ASSUME NEW w \in waiting, Returns(w) PROVE Goal
  <2>1. w.op # "unset" /\ w.key \in Key /\ Ack(w.key, w.ch, w.time)
    BY <1>2, <1>t DEF Returns, TypeOK, Wait
  <2>2. Claim(w.node, w.key, w) \in Claims
    BY <2>1, ClaimKinds
  <2>3. /\ Claim(w.node, w.key, w).key = w.key /\ Claim(w.node, w.key, w).ch = w.ch
        /\ Claim(w.node, w.key, w).time = w.time
    BY DEF Claim
  <2> HIDE DEF Goal
  <2> QED
    BY <1>0, <2>1, <2>2, <2>3
<1>3. ASSUME NEW m \in Node, NEW j \in Key, Delete(m, j) \/ \E v \in Value : SetNew(m, j, v)
      PROVE  acked' = acked
  BY <1>3 DEF Delete, SetNew
<1>4. ASSUME NEW w \in waiting,
             \/ QueueSet(w) \/ SeesAlone(w) \/ ClosesAlone(w) \/ Gone(w.node)
             \/ GivesUp(w) \/ QueueDelete(w)
      PROVE  acked' = acked
  BY <1>4 DEF QueueSet, SeesAlone, ClosesAlone, GivesUp, QueueDelete, Gone
<1>5. ASSUME \/ \E m \in Node : \E a \in queue[m] : Transmit(m, a)
             \/ \E m \in Node, p \in packets :
                  NotifyConfirms(m, p.act) \/ NotifyReplaces(m, p.act)
             \/ \E y \in exchanges : MergeRemoteState(y)
             \/ \E m, l \in Node : SendState(m, l) \/ Join(m, l) \/ Reunited(m, l)
             \/ \E m \in Node : JoinAlone(m) \/ Isolated(m) \/ Gone(m)
             \/ Tick
      PROVE  acked' = acked
  BY <1>5 DEF Transmit, NotifyConfirms, NotifyReplaces, MergeRemoteState, SendState, Join,
              Reunited, JoinAlone, Isolated, Gone, Tick
<1>6. acked' = acked => Goal
  OBVIOUS
<1> HIDE DEF Goal
<1>7. Goal
  BY <1>1, <1>2, <1>3, <1>4, <1>5, <1>6 DEF Next, Set, ClosePanics, Crash
<1> QED
  BY <1>7 DEF Goal

\* The numbers of a claim, for the provers.
LEMMA ClaimTypesNext ==
    ASSUME TypeOK', NEW a \in Claims'
    PROVE  a.node \in Node /\ a.key \in Key /\ a.time \in Int /\ a.ch \in 0..MaxSets
<1>1. \A n \in Node, k \in Key :
        /\ Claim(n, k, kv'[n][k]).node = n /\ Claim(n, k, kv'[n][k]).key = k
        /\ Claim(n, k, kv'[n][k]).time \in Int /\ Claim(n, k, kv'[n][k]).ch \in 0..MaxSets
  BY DEF TypeOK, Entry, Claim
<1>2. \A w \in waiting' :
        /\ Claim(w.node, w.key, w).node \in Node /\ Claim(w.node, w.key, w).key \in Key
        /\ Claim(w.node, w.key, w).time \in Int /\ Claim(w.node, w.key, w).ch \in 0..MaxSets
  BY DEF TypeOK, Wait, Claim
<1> QED
  BY <1>1, <1>2, ClaimKindsNext

\* A crash leaves the claims of the other nodes, and no other.
LEMMA ClaimsGone ==
    ASSUME TypeOK, NEW m \in Node, Gone(m)
    PROVE  \A a \in Claims' : a \in Claims /\ a.node # m
<1>1. \A n \in Node, k \in Key : Present(kv'[n][k]) => n # m /\ kv'[n][k] = kv[n][k]
  BY DEF Gone, Present, TypeOK
<1>2. \A w \in waiting' : w \in waiting /\ w.node # m
  BY DEF Gone
<1>3. Claims' \subseteq Claims
  BY <1>1, <1>2, ClaimKinds, ClaimsFrame
<1>4. ASSUME NEW a \in Claims' PROVE a.node # m
  <2>1. \A n, k, e : Claim(n, k, e).node = n
    BY DEF Claim
  <2> QED
    BY <1>1, <1>2, <1>4, <2>1, ClaimKindsNext
<1> QED
  BY <1>3, <1>4

\* No clock falls behind what its node carries, and what is carried is held.
LEMMA HeldStep ==
    ASSUME StoreInv, HeldInv, ClocksAgree, MaxDeletes = 0, Next
    PROVE  HeldInv'
<1>t. TypeOK /\ TypeOK' /\ CarriedInv
  BY TypeStep DEF StoreInv
<1>c. \A n, m \in Node : Clock(n) = Clock(m)
  BY DEF ClocksAgree, Clock
<1>k. \A m \in Node : \A r \in Carried(m) : r.key \in Key /\ r.time \in Int
  BY <1>t DEF CarriedInv, TypeOK
<1> SUFFICES ASSUME NEW n \in Node, NEW r \in Carried(n)'
             PROVE  /\ r.time <= Clock(n)'
                    /\ crashes' = 0 => n \in Copies(r.key, r.time)'
  BY DEF HeldInv
<1>1. CarriedFrom(n, r)
  BY CarriedStep
<1>2. Clock(n) \in Nat /\ Clock(n)' \in Nat /\ Clock(n) <= Clock(n)'
  BY ClockStep
<1>3. ASSUME crashes' = 0 PROVE crashes = 0 /\ Keeps(n)
  <2>1. ASSUME NEW m \in Node, Gone(m) PROVE FALSE
    BY <1>3, <1>t, <2>1 DEF Gone, TypeOK
  <2> QED
    BY <1>3, <2>1, KeepsStep
<1>4. CASE r \in Carried(n)
  <2>1. r.time <= Clock(n) /\ (crashes = 0 => n \in Copies(r.key, r.time))
    BY <1>4 DEF HeldInv
  <2> QED
    BY <1>t, <1>k, <1>2, <1>3, <1>4, <2>1, CopiesKept
<1>5. CASE MadeBy(n, r)
  BY <1>t, <1>2, <1>5, InMapCopiesNext DEF MadeBy
<1>6. CASE TakenBy(n, r)
  <2>1. PICK m \in Node \ {n} : r \in Carried(m)
    BY <1>6 DEF TakenBy
  <2>2. r.time <= Clock(n) /\ r.time \in Int
    BY <1>c, <1>k, <2>1 DEF HeldInv
  <2> QED
    BY <1>t, <1>2, <1>6, <2>2, InMapCopiesNext DEF TakenBy
<1> QED
  BY <1>1, <1>4, <1>5, <1>6 DEF CarriedFrom

\* What another node carries and the claim's own node has, survives.
LEMMA WitnessedSurvives ==
    ASSUME StoreInv, HeldInv, NEW a, a.key \in Key, a.time \in Int,
           a.node \in Copies(a.key, a.time), Witnessed(a)
    PROVE  Survives(a.key, a.time)
<1>1. PICK m \in Node \ {a.node} :
        \E r \in Carried(m) : r.key = a.key /\ r.value = a.value /\ r.time >= a.time
  BY DEF Witnessed
<1>2. PICK r \in Carried(m) : r.key = a.key /\ r.value = a.value /\ r.time >= a.time
  BY <1>1
<1>3. crashes \in Nat /\ kv[m][a.key].time \in Int /\ r.time \in Int
  BY <1>1, <1>2 DEF StoreInv, CarriedInv, TypeOK, Entry
<1>4. CASE crashes = 0
  <2>1. m \in Copies(a.key, r.time)
    BY <1>1, <1>2, <1>4 DEF HeldInv
  <2>2. m \in Copies(a.key, a.time)
    BY <1>2, <1>3, <2>1 DEF Copies
  <2> QED
    BY <1>1, <2>2 DEF Survives
<1>5. CASE crashes >= 1
  BY <1>3, <1>5 DEF Survives
<1> QED
  BY <1>3, <1>4, <1>5

\* A claim goes on being kept by its node, and once it is shared it survives.
LEMMA ClaimsKeptStep ==
    ASSUME StoreInv, CopiesInv, MaxDeletes = 0, Next
    PROVE  ClaimsKept'
<1>t. TypeOK /\ TypeOK' /\ HeldInv /\ ClaimsKept /\ DeletesDiffer
  BY TypeStep DEF StoreInv, CopiesInv, DeletesDiffer
<1> SUFFICES ASSUME NEW a \in Claims'
             PROVE  /\ a.node \in Copies(a.key, a.time)'
                    /\ IsShared(a.ch)' => Survives(a.key, a.time)'
  BY DEF ClaimsKept
<1>a. a.node \in Node /\ a.key \in Key /\ a.time \in Int /\ a.ch \in 0..MaxSets
  BY <1>t, ClaimTypesNext
<1>1. ASSUME NEW m \in Node, Gone(m)
      PROVE  /\ a.node \in Copies(a.key, a.time)'
             /\ IsShared(a.ch)' => Survives(a.key, a.time)'
  <2>1. a \in Claims /\ a.node # m
    BY <1>t, <1>1, ClaimsGone
  <2>2. confirmed' = confirmed /\ kv'[a.node] = kv[a.node]
    BY <1>t, <1>1, <1>a, <2>1 DEF Gone, TypeOK
  <2>3. a.node \in Copies(a.key, a.time)'
    BY <1>t, <2>1, <2>2 DEF ClaimsKept, Copies
  <2>4. IsShared(a.ch)' => IsShared(a.ch)
    BY <2>2 DEF IsShared
  <2> QED
    BY <1>t, <1>1, <1>a, <2>1, <2>3, <2>4, SurvivesGone DEF ClaimsKept
<1>2. ASSUME crashes' = crashes, \A n \in Node : Keeps(n)
      PROVE  /\ a.node \in Copies(a.key, a.time)'
             /\ IsShared(a.ch)' => Survives(a.key, a.time)'
  <2>1. CASE a \in Claims
    <3>1. a.node \in Copies(a.key, a.time) /\ a.node \in Copies(a.key, a.time)'
      BY <1>t, <1>2, <1>a, <2>1, CopiesKept DEF ClaimsKept
    <3>2. ASSUME IsShared(a.ch)' PROVE IsShared(a.ch) \/ Witnessed(a)
      <4>1. CASE a.ch = Heard
        BY <4>1 DEF IsShared
      <4>2. CASE a.ch # Heard
        <5>1. a.ch \in Channel /\ confirmed'[a.ch] = "heard"
          BY <1>t, <1>a, <3>2, <4>2, Numbers DEF IsShared
        <5>2. ChannelFrom(a.ch)
          BY <1>t, <5>1, ChannelStep
        <5>3. CASE \E b \in Claims : b.ch = a.ch /\ Witnessed(b)
          BY <2>1, <4>2, <5>3 DEF StoreInv, ChannelInv
        <5> QED
          BY <5>1, <5>2, <5>3 DEF ChannelFrom, IsShared
      <4> QED
        BY <4>1, <4>2
    <3>3. ASSUME IsShared(a.ch)' PROVE Survives(a.key, a.time)
      BY <1>t, <1>a, <2>1, <3>1, <3>2, <3>3, WitnessedSurvives DEF ClaimsKept
    <3> QED
      BY <1>t, <1>2, <1>a, <3>1, <3>3, SurvivesStep
  <2>2. CASE HeardClaim(a)
    <3>1. PICK m \in Node \ {a.node} : Row(a.key, a) \in Carried(m)
      BY <2>2 DEF HeardClaim, TakenBy
    <3>2. Row(a.key, a).key = a.key /\ Row(a.key, a).time = a.time
      BY DEF Row
    <3>3. a.node \in Copies(a.key, a.time)'
      BY <1>t, <1>a, <2>2, <3>2, InMapCopiesNext DEF HeardClaim, TakenBy
    <3>4. crashes = 0 => m \in Copies(a.key, a.time)'
      <4>1. crashes = 0 => m \in Copies(a.key, a.time)
        BY <1>t, <3>1, <3>2 DEF HeldInv
      <4> QED
        BY <1>t, <1>2, <1>a, <4>1, CopiesKept
    <3>5. crashes \in Nat
      BY <1>t DEF TypeOK
    <3> QED
      BY <1>2, <3>1, <3>3, <3>4, <3>5 DEF Survives
  <2>3. CASE FreshClaim(a)
    <3>1. a.ch \in Channel /\ a.ch # Heard /\ a.ch > sets
      BY <1>t, <1>a, <2>3, Numbers DEF FreshClaim, Heard, TypeOK
    <3>2. ~IsShared(a.ch)'
      BY <2>3, <3>1 DEF FreshClaim, StoreInv, ChannelInv, IsShared
    <3>3. Row(a.key, a).key = a.key /\ Row(a.key, a).time = a.time
      BY DEF Row
    <3>4. a.node \in Copies(a.key, a.time)'
      BY <1>t, <1>a, <2>3, <3>3, InMapCopiesNext DEF FreshClaim
    <3> QED
      BY <3>2, <3>4
  <2> QED
    BY <2>1, <2>2, <2>3, ClaimStep DEF ClaimsFrom
<1> QED
  BY <1>t, <1>1, <1>2, KeepsStep

\* Every step preserves CopiesInv.
LEMMA CopiesStep ==
    ClocksAgree /\ MaxDeletes = 0 /\ StoreInv /\ CopiesInv /\ [Next]_vars => CopiesInv'
<1> SUFFICES ASSUME ClocksAgree, MaxDeletes = 0, StoreInv, CopiesInv, [Next]_vars
             PROVE  CopiesInv'
  OBVIOUS
<1>t. TypeOK /\ TypeOK'
  BY TypeStep DEF StoreInv
<1>1. CASE UNCHANGED vars
  <2> USE DEF vars, storeVars, memberVars, netVars, countVars
  <2>1. \A n \in Node : Carried(n)' = Carried(n) /\ Clock(n)' = Clock(n)
    BY <1>1 DEF Carried, InMap, Clock
  <2>2. Claims' = Claims
    BY <1>1 DEF Claims
  <2>3. \A k, t : Copies(k, t)' = Copies(k, t)
    BY <1>1 DEF Copies
  <2>4. \A k, t : Survives(k, t)' = Survives(k, t)
    BY <1>1, <2>3 DEF Survives
  <2>5. HeldInv'
    BY <1>1, <2>1, <2>3 DEF CopiesInv, HeldInv
  <2>6. ClaimsKept'
    BY <1>1, <2>2, <2>3, <2>4 DEF CopiesInv, ClaimsKept, IsShared
  <2> QED
    BY <1>1, <2>4, <2>5, <2>6 DEF CopiesInv
<1>2. CASE Next
  <2>1. HeldInv'
    BY <1>2, HeldStep DEF CopiesInv
  <2>2. ClaimsKept'
    BY <1>2, ClaimsKeptStep
  <2>3. ASSUME NEW k \in Key, NEW t \in Int, t = acked'[k], t >= 0 PROVE Survives(k, t)'
    <3>1. Survives(k, t)
      <4>1. CASE t = acked[k]
        BY <2>3, <4>1 DEF CopiesInv
      <4>2. CASE \E a \in Claims : IsShared(a.ch) /\ a.key = k /\ a.time = t
        BY <4>2 DEF CopiesInv, ClaimsKept
      <4> QED
        BY <1>2, <2>3, <4>1, <4>2, AckStep
    <3> QED
      BY <1>t, <1>2, <3>1, KeepsStep, SurvivesStep, SurvivesGone DEF CopiesInv
  <2>4. \A k \in Key : (acked[k] >= 0 => Survives(k, acked[k]))'
    <3>1. \A k \in Key : acked'[k] \in Int
      BY <1>t DEF TypeOK
    <3> QED
      BY <2>3, <3>1 DEF Survives, Copies
  <2> QED
    BY <2>1, <2>2, <2>4 DEF CopiesInv
<1> QED
  BY <1>1, <1>2

\* The initial state satisfies it: there is nothing to keep.
LEMMA CopiesInit == Init => CopiesInv
<1> SUFFICES ASSUME Init PROVE CopiesInv
  OBVIOUS
<1>1. \A n \in Node, k \in Key : ~Present(kv[n][k])
  BY DEF Init, Present
<1>2. \A n \in Node : InMap(n) = {}
  BY <1>1 DEF InMap
<1>3. \A n \in Node : Carried(n) = {}
  BY <1>2, CarriedKinds DEF Init
<1>4. Claims = {}
  BY <1>1, ClaimKinds DEF Init
<1>5. \A k \in Key : ~(acked[k] >= 0)
  BY DEF Init
<1> QED
  BY <1>3, <1>4, <1>5 DEF CopiesInv, HeldInv, ClaimsKept

\* Two nodes, or one and a crash, or two crashes.
LEMMA SurvivesCounted ==
    ASSUME IsFiniteSet(Node), TypeOK, NEW k \in Key, NEW t \in Int, Survives(k, t)
    PROVE  Cardinality(Copies(k, t)) + crashes >= 2
<1> DEFINE C == Copies(k, t)
<1>1. C \in SUBSET Node /\ crashes \in Nat
  BY DEF Copies, TypeOK
<1> HIDE DEF C
<1>2. IsFiniteSet(C) /\ Cardinality(C) \in Nat
  BY <1>1, FS_Subset, FS_CardinalityType
<1>3. \A x : IsFiniteSet({x}) /\ Cardinality({x}) = 1
  BY FS_Singleton
<1>4. CASE crashes >= 2
  BY <1>1, <1>2, <1>4 DEF C
<1>5. CASE crashes = 1 /\ C # {}
  <2>1. PICK n : n \in C
    BY <1>5
  <2>2. {n} \in SUBSET C
    BY <2>1
  <2>3. Cardinality({n}) <= Cardinality(C)
    BY <1>2, <2>2, FS_Subset
  <2>4. 1 <= Cardinality(C)
    BY <1>3, <2>3
  <2> QED
    BY <1>2, <1>5, <2>4 DEF C
<1>6. CASE \E n, m \in C : n # m
  <2>1. PICK n \in C, m \in C : n # m
    BY <1>6
  <2>2. {n} \cup {m} \in SUBSET C
    BY <2>1
  <2>3. Cardinality({n} \cup {m}) = 2
    <3>1. Cardinality({n} \cup {m}) = IF m \in {n} THEN Cardinality({n}) ELSE Cardinality({n}) + 1
      BY <1>3, FS_AddElement
    <3>2. Cardinality({n}) = 1 /\ m \notin {n}
      BY <1>3, <2>1
    <3>3. Cardinality({n} \cup {m}) = Cardinality({n}) + 1
      BY <3>1, <3>2
    <3> QED
      BY <3>2, <3>3
  <2>4. 2 <= Cardinality(C)
    BY <1>2, <2>2, <2>3, FS_Subset
  <2> QED
    BY <1>1, <1>2, <2>4 DEF C
<1> QED
  BY <1>4, <1>5, <1>6 DEF Survives, C

\* With clocks that agree and without deletes, an entry that a caller was told
\* is confirmed by another node, or a newer one, is on two nodes, less one for
\* every process that has died since the start.
THEOREM ConfirmedSurvives ==
    IsFiniteSet(Node) /\ ClocksAgree /\ MaxDeletes = 0 => (Spec => []AckedSurvives)
<1> SUFFICES ASSUME IsFiniteSet(Node), ClocksAgree, MaxDeletes = 0
             PROVE  Spec => []AckedSurvives
  OBVIOUS
<1>1. Init => StoreInv /\ CopiesInv
  BY StoreInit, CopiesInit
<1>2. StoreInv /\ CopiesInv /\ [Next]_vars => StoreInv' /\ CopiesInv'
  BY StoreStep, CopiesStep DEF DeletesDiffer
<1>3. ASSUME StoreInv, CopiesInv PROVE AckedSurvives
  <2>1. \A k \in Key : acked[k] \in Int
    BY <1>3 DEF StoreInv, TypeOK
  <2> QED
    BY <1>3, <2>1, SurvivesCounted DEF AckedSurvives, CopiesInv, StoreInv
<1> QED
  BY <1>1, <1>2, <1>3, PTL DEF Spec
=============================================================================
