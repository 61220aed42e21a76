---------------------------- MODULE MCGossipStore ----------------------------
(***************************************************************************)
(* Instances of GossipStore for TLC: the offsets of the clocks, symmetry   *)
(* and the views.                                                          *)
(***************************************************************************)
EXTENDS GossipStore, TLC

CONSTANTS n1, n2

NoSkew == [n \in Node |-> 0]

\* The clock of n1 is ahead of all the others by more than a run lasts.
Ahead == [n \in Node |-> IF n = n1 THEN MaxTime + 1 ELSE 0]

NodesAndValues == Permutations(Node) \cup Permutations(Value)

Values == Permutations(Value)

\* Whether a channel is closed matters as long as an entry or a call has it.
InUse == {kv[n][k].ch : n \in Node, k \in Key} \cup {w.ch : w \in waiting}

State ==
    <<kv, waiting, queue, [ch \in Channel |-> IF ch \in InUse THEN confirmed[ch] ELSE "open"],
      memberVars, netVars, countVars>>

\* Each view keeps the one history variable that the property of its run reads.
AckedView == <<State, acked>>

StoredView == <<State, stored>>
=============================================================================
