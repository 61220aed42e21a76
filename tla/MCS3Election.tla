---------------------------- MODULE MCS3Election ----------------------------
(***************************************************************************)
(* S3Election for TLC.                                                     *)
(***************************************************************************)
EXTENDS S3Election, MCElector

Renews ==
    {object.renew} \cup {etag[c].renew : c \in Client}
      \cup UNION {{p.tag.renew, p.rec.renew} : p \in late}
      \cup ({raced} \cap 0..now)

Seen(r) == RecordView(r, object.trans, Renews, Cap)

View ==
    <<[c \in Client |-> ClientView(c, object.trans, Renews, Cap, <<stated[c], Seen(etag[c])>>, 2 + MaxFaults)],
      stops, faults, Seen(object),
      {<<Seen(p.tag), Seen(p.rec), p.release>> : p \in late},
      IF raced > now THEN <<>> ELSE <<Age(raced, Renews, Cap)>>>>
=============================================================================
