--------------------------- MODULE LockInterface ---------------------------
(***************************************************************************)
(* The interface between a LeaderElector and the Lock it is configured     *)
(* with (src/interface.go): the election record and the three calls Get,   *)
(* Create and Update.  A call is asynchronous: the elector invokes it, the *)
(* backend acts on it at some later instant, and the elector goes on when  *)
(* the call returns.  Both sides share the variables of this module.       *)
(*                                                                         *)
(* Time is a global integer clock.  The elector compares only instants it  *)
(* read from its own clock (observedTime, now), so clocks that are offset  *)
(* from each other change nothing it does; clocks that run at different    *)
(* rates are outside the model, as the package comment of                  *)
(* leaderelection.go says they are outside the algorithm.                  *)
(***************************************************************************)
EXTENDS Integers

CONSTANTS
    Client,     \* the processes that take part in the election
    NoOne,      \* the empty HolderIdentity
    RequestTimeout, \* how long a call may take before it fails: the client's timeout
                \* for Kubernetes, an assumption on the environment for S3 and git
    MaxTime     \* bound: the clock stops here

ASSUME LockAssumption ==
    /\ NoOne \notin Client
    /\ RequestTimeout \in Nat /\ MaxTime \in Nat

VARIABLES
    now,        \* the current time
    call,       \* call[c]: the Lock call client c is waiting for, or Idle
    cancelled,  \* cancelled[c]: the context given to Run is cancelled
    deadline    \* deadline[c]: the deadline of the context tries run under

interfaceVars == <<now, call, cancelled, deadline>>

(***************************************************************************)
(* Record, without AcquireTime, which is copied and never read.            *)
(***************************************************************************)
Record == [holder: Client \cup {NoOne}, dur: Nat, renew: Nat, trans: Nat]

\* The zero Record; as a raw record it stands for the nil slice.
ZeroRecord == [holder |-> NoOne, dur |-> 0, renew |-> 0, trans |-> 0]

(***************************************************************************)
(* A call.  "release" is the Update that release makes: the only call that *)
(* runs under context.TODO().  A call is pending until the backend acts on *)
(* it; its st is then the result on its way back.  A call that fails       *)
(* returns with the step in which it fails.  ver is the version of the     *)
(* stored object that came with the result.                                *)
(***************************************************************************)
Call == [op: {"none", "get", "create", "update", "release"},
         st: {"none", "pending", "ok", "notexist"},
         rec: Record, ver: Nat, at: Nat]

Idle == [op |-> "none", st |-> "none", rec |-> ZeroRecord, ver |-> 0, at |-> 0]

\* A deadline that is never reached: a context without one.
Never == MaxTime + 1

CtxDone(c) == cancelled[c] \/ now >= deadline[c]

CallCtxDone(c) == call[c].op # "release" /\ CtxDone(c)

Invoke(c, op, rec) ==
    call' = [call EXCEPT ![c] =
               [op |-> op, st |-> "pending", rec |-> rec, ver |-> 0, at |-> now]]

Return(c) == call' = [call EXCEPT ![c] = Idle]

\* The backend acts on the call c waits for.
Answer(c, st, rec, ver) ==
    call' = [call EXCEPT ![c] = [op |-> call[c].op, st |-> st, rec |-> rec,
                                 ver |-> ver, at |-> call[c].at]]

IsWrite(c) == call[c].op \in {"create", "update", "release"}

TimedOut(c) == now >= call[c].at + RequestTimeout

\* A call in flight has time left.
CallMayWait(c) ==
    call[c].op # "none" => ~CallCtxDone(c) /\ ~TimedOut(c)

InterfaceTypeOK ==
    /\ now \in 0..MaxTime
    /\ call \in [Client -> Call]
    /\ cancelled \in [Client -> BOOLEAN]
    /\ deadline \in [Client -> Nat]

InterfaceInit ==
    /\ now = 0
    /\ call = [c \in Client |-> Idle]
    /\ cancelled = [c \in Client |-> FALSE]
    /\ deadline = [c \in Client |-> Never]
=============================================================================
