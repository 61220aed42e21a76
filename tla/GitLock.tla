------------------------------ MODULE GitLock ------------------------------
(***************************************************************************)
(* The lock of src/git/lock.go: Get, Create and Update on one file of a    *)
(* git repository, each client working in a clone of its own.  Get pulls;  *)
(* set commits on HEAD and pushes the local branch, and when the push      *)
(* fails checks out the commit it started from: HEAD is then detached, the *)
(* branch keeps the commit that was not pushed, and later commits no       *)
(* longer move the branch that later pushes send.                          *)
(*                                                                         *)
(* A commit is the sequence of the lock file's contents up to it, with     *)
(* ZeroRecord where the file does not exist; the empty sequence is a       *)
(* repository without a commit.  The server takes a push that              *)
(* fast-forwards its branch.                                               *)
(***************************************************************************)
EXTENDS LockInterface, Sequences, SequencesExt

CONSTANTS
    InitialCommits, \* what the repository may hold at first: {<<>>}, {<<ZeroRecord>>}
    MaxFaults       \* bound: how many requests fail for no reason of their own

ASSUME GitAssumption ==
    /\ InitialCommits \subseteq Seq({ZeroRecord})
    /\ MaxFaults \in Nat

VARIABLES
    remote,     \* the commit of the server's branch
    taken,      \* history: when the server took the last push
    head,       \* head[c]: the commit HEAD of c's clone names
    branch,     \* branch[c]: the commit of c's local branch
    detached,   \* detached[c]: HEAD is not the branch
    late,       \* pushes whose caller has gone and that may still be taken
    faults

gitVars == <<remote, taken, head, branch, detached, late, faults>>

Commit == Seq(Record)

GitTypeOK ==
    /\ remote \in Commit
    /\ taken \in Nat
    /\ head \in [Client -> Commit]
    /\ branch \in [Client -> Commit]
    /\ detached \in [Client -> BOOLEAN]
    /\ late \subseteq Commit
    /\ faults \in 0..MaxFaults

GitInit ==
    /\ remote \in InitialCommits
    /\ taken = 0
    /\ head = [c \in Client |-> <<>>]
    /\ branch = [c \in Client |-> <<>>]
    /\ detached = [c \in Client |-> FALSE]
    /\ late = {}
    /\ faults = 0

-----------------------------------------------------------------------------
Content(commit) == IF commit = <<>> THEN ZeroRecord ELSE Last(commit)

FastForward(old, new) == IsPrefix(old, new) /\ old # new

\* New: a clone, or an empty repository with the remote configured.
New(c) ==
    /\ head' = [head EXCEPT ![c] = remote]
    /\ branch' = [branch EXCEPT ![c] = remote]
    /\ detached' = [detached EXCEPT ![c] = FALSE]
    /\ UNCHANGED <<remote, taken, late, faults>>

\* set leaves a worktree without changes alone, and commits on HEAD otherwise.
Clean(c) == Content(head[c]) = call[c].rec

Committed(c) == IF Clean(c) THEN head[c] ELSE Append(head[c], call[c].rec)

\* The local branch after the commit: what the push sends.
Pushed(c) == IF detached[c] THEN branch[c] ELSE Committed(c)

\* The call has to ask the server.
Asks(c) == call[c].op = "get" \/ (IsWrite(c) /\ ~Clean(c))

\* The server takes a push; those that no longer fast-forward are forgotten.
Take(commit) ==
    /\ remote' = commit
    /\ taken' = now
    /\ late' = {w \in late : FastForward(commit, w)}

\* Pull meets a commit HEAD is not behind of.  Whether its Force resets HEAD
\* then is up to the library: the pull may succeed or fail.
Diverged(c) == ~IsPrefix(head[c], remote)

\* The server answers a pull with its commit, which has the file or not.
Pull(c) ==
    /\ call[c].op = "get" /\ call[c].st = "pending" /\ remote # <<>>
    /\ IF Content(remote) = ZeroRecord
       THEN Answer(c, "notexist", ZeroRecord, Len(remote))
       ELSE Answer(c, "ok", Content(remote), Len(remote))
    /\ UNCHANGED gitVars

PendingPush(c) == IsWrite(c) /\ ~Clean(c) /\ call[c].st = "pending"

\* Mutant: the push is forced.
CanPushForced(c) == head[c] # <<>>

\* There is a HEAD to commit on, and the server would take the push.
CanPush(c) == head[c] # <<>> /\ FastForward(remote, Pushed(c))

\* Nothing to commit: set returns without a push.
SetNothing(c) ==
    /\ IsWrite(c) /\ Clean(c) /\ call[c].st = "pending"
    /\ Answer(c, "ok", call[c].rec, 0)
    /\ UNCHANGED gitVars

Push(c) ==
    /\ PendingPush(c) /\ CanPush(c)
    /\ Take(Pushed(c))
    /\ Answer(c, "ok", call[c].rec, 0)
    /\ UNCHANGED <<head, branch, detached, faults>>

-----------------------------------------------------------------------------
\* A call returns without an error, or with os.ErrNotExist from Get.
Returns(c) ==
    /\ call[c].st \in {"ok", "notexist"} /\ ~(CallCtxDone(c) /\ Asks(c))
    /\ LET fetched == SubSeq(remote, 1, call[c].ver) IN
       /\ head' = [head EXCEPT ![c] = IF IsWrite(c) THEN Committed(c) ELSE fetched]
       /\ branch' = [branch EXCEPT ![c] = IF IsWrite(c) THEN Pushed(c)
                                          ELSE IF detached[c] THEN branch[c] ELSE fetched]
    /\ UNCHANGED <<remote, taken, detached, late, faults>>

\* The clone after a push that failed: HEAD is back, detached; the branch is not.
PushFails(c) ==
    /\ branch' = [branch EXCEPT ![c] = Pushed(c)]
    /\ detached' = [detached EXCEPT ![c] = TRUE]
    /\ UNCHANGED head

\* The clone after a call that failed.
CloneAfterFailure(c) ==
    IF IsWrite(c) /\ head[c] # <<>>
    THEN PushFails(c)
    ELSE UNCHANGED <<head, branch, detached>>

\* The remote is empty, which is not os.ErrNotExist; the pull does not
\* fast-forward; there is no HEAD to commit on; the push is refused.
Refused(c) ==
    /\ \/ call[c].op = "get" /\ call[c].st = "pending" /\ (remote = <<>> \/ Diverged(c))
       \/ PendingPush(c) /\ ~CanPush(c)
    /\ CloneAfterFailure(c)
    /\ UNCHANGED <<remote, taken, late, faults>>

\* A call ends without an answer: what it pushed may still be taken.
Abandoned(c) ==
    late' = IF PendingPush(c) /\ CanPush(c) THEN late \cup {Pushed(c)} ELSE late

ContextEnds(c) ==
    /\ Asks(c) /\ CallCtxDone(c)
    /\ CloneAfterFailure(c)
    /\ Abandoned(c)
    /\ UNCHANGED <<remote, taken, faults>>

\* A request or its answer is lost, or times out.
Lost(c) ==
    /\ Asks(c) /\ faults < MaxFaults
    /\ faults' = faults + 1
    /\ CloneAfterFailure(c)
    /\ Abandoned(c)
    /\ UNCHANGED <<remote, taken>>

Fails(c) == Refused(c) \/ ContextEnds(c) \/ Lost(c)

LatePush(commit) ==
    /\ FastForward(remote, commit)
    /\ Take(commit)
    /\ UNCHANGED <<call, head, branch, detached, faults>>

\* The process is gone, and its clone, which was in memory.
ClientGone(c) ==
    /\ Abandoned(c)
    /\ head' = [head EXCEPT ![c] = <<>>]
    /\ branch' = [branch EXCEPT ![c] = <<>>]
    /\ detached' = [detached EXCEPT ![c] = FALSE]
    /\ UNCHANGED <<remote, taken, faults>>
=============================================================================
