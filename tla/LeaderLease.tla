---------------------------- MODULE LeaderLease ----------------------------
(***************************************************************************)
(* What an election promises the code that OnStartedLeading runs, whatever *)
(* lock is behind it: a lease with one owner and an end, granted to        *)
(* another client only once it has ended, and a leader that is its owner   *)
(* and has stopped before its end.                                         *)
(***************************************************************************)
EXTENDS Naturals

CONSTANTS Client, NoOne

VARIABLES
    now,        \* the time
    owner,      \* who has the lease, or NoOne
    until,      \* when it ends
    leaders     \* the clients whose OnStartedLeading context is live

vars == <<now, owner, until, leaders>>

Init == now = 0 /\ owner = NoOne /\ until = 0 /\ leaders = {}

\* Time passes; no leader is left when the lease ends.
Wait ==
    /\ now' = now + 1
    /\ leaders # {} => now' < until
    /\ UNCHANGED <<owner, until, leaders>>

\* c gets the lease, renews it, or shortens it to release it.
Grant(c) ==
    /\ owner \in {NoOne, c} \/ now >= until
    /\ owner' = c
    /\ until' \in Nat
    /\ leaders # {} => leaders = {c} /\ now < until'
    /\ UNCHANGED <<now, leaders>>

Lead(c) ==
    /\ leaders = {} /\ owner = c /\ now < until
    /\ leaders' = {c}
    /\ UNCHANGED <<now, owner, until>>

Quit(c) ==
    /\ leaders = {c}
    /\ leaders' = {}
    /\ UNCHANGED <<now, owner, until>>

Next == Wait \/ \E c \in Client : Grant(c) \/ Lead(c) \/ Quit(c)

Spec == Init /\ [][Next]_vars
=============================================================================
