--------------------------- MODULE MCGitElection ---------------------------
(***************************************************************************)
(* GitElection for TLC.  Of a commit only matters how it lies to the       *)
(* server's, and what it adds to it.                                       *)
(***************************************************************************)
EXTENDS GitElection, MCElector

EmptyOrNot == {<<>>, <<ZeroRecord>>}

Renews ==
    {Content(k).renew : k \in {remote} \cup Range(head) \cup Range(branch) \cup late}

Seen(r) == RecordView(r, Stored.trans, Renews, Cap)

CommitView(k) ==
    CASE k = remote -> <<"current">>
      [] FastForward(remote, k) ->
           <<"ahead", [i \in 1 .. Len(k) - Len(remote) |-> Seen(k[Len(remote) + i])]>>
      [] OTHER -> <<IsPrefix(k, remote), Seen(Content(k))>>

LockView(c) ==
    <<detached[c], CommitView(head[c]),
      IF detached[c] THEN CommitView(branch[c]) ELSE <<>>,
      call[c].ver = Len(remote)>>

View ==
    <<[c \in Client |-> ClientView(c, Stored.trans, Renews, Cap, LockView(c), 4)],
      stops, faults, remote = <<>>, Min({now - taken, Cap}), Seen(Stored), {CommitView(w) : w \in late}>>
=============================================================================
