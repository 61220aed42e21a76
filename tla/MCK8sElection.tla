--------------------------- MODULE MCK8sElection ---------------------------
(***************************************************************************)
(* K8sElection for TLC.  Of a resourceVersion only matters whether it is   *)
(* the current one.                                                        *)
(***************************************************************************)
EXTENDS K8sElection, MCElector

Renews == {lease.spec.renew} \cup {w.spec.renew : w \in late}

SpecView(s, ver) ==
    <<s.holder, s.secs, Age(s.renew, Renews, Cap), IF ver = 0 THEN 0 ELSE lease.spec.trans - s.trans>>

LockView(c) ==
    <<held[c] = 0, held[c] = lease.rv, call[c].st = "ok" /\ call[c].ver = lease.rv>>

View ==
    <<[c \in Client |-> ClientView(c, lease.spec.trans, Renews, Cap, LockView(c), 6)],
      stops, faults, deletes,
      IF lease.exists THEN SpecView(lease.spec, lease.rv) ELSE <<>>,
      {<<w.client, SpecView(w.spec, w.ver)>> : w \in late}>>
=============================================================================
