----------------------------- MODULE DnsLookup -----------------------------
(***************************************************************************)
(* The lookups of src/gossip/internal/dns: what the resolver of miekgdns   *)
(* makes of the replies of the servers in resolv.conf, and what dnsSD      *)
(* makes of that.  A zone z is what resolv.conf and the servers say at one *)
(* instant: z.conf, whether the file can be read, and z.reply[q] for every *)
(* question q = <<server, name, qtype, net>>.                              *)
(***************************************************************************)
EXTENDS Integers, Sequences, SequencesExt

CONSTANTS
    Servers,        \* conf.Servers, a sequence
    SearchList,     \* SearchList[name]: conf.NameList(name)
    MaxIterations   \* how many CNAMEs are followed; 8 in the code

ASSUME DnsAssumption == MaxIterations \in Nat \ {0}

Name == DOMAIN SearchList
Question == Range(Servers) \X Name \X {"A", "AAAA", "SRV"} \X {"udp", "tcp"}

\* A resource record: an address, an alias, a service or something else.
RR(type, to, port) == [type |-> type, to |-> to, port |-> port]

\* A reply: an exchange that failed, a truncated message, or an Rcode.
Reply(kind, answer) == [kind |-> kind, answer |-> answer]

NoReply == Reply("fail", <<>>)

Viable(msg) == msg.kind \in {"success", "nxdomain"}

\* What a lookup returns: an error (ErrNoSuchHost is "notfound") or an answer.
Found(answer) == [err |-> "none", answer |-> answer]
NotFound == [err |-> "notfound", answer |-> <<>>]
Failed == [err |-> "failed", answer |-> <<>>]

-----------------------------------------------------------------------------
\* One server is asked over net, and once more over TCP if the reply is
\* truncated; the client stays with TCP.
AskServerForName(z, server, name, qtype, net) ==
    LET over(n) == z.reply[server, name, qtype, n]
        last == IF over(net).kind = "truncated" THEN "tcp" ELSE net
    IN  [msg |-> IF over(last).kind = "truncated" THEN NoReply ELSE over(last), net |-> last]

\* The first viable reply of the servers, in their order.
LookupFromAnyServer(z, name, qtype) ==
    FoldLeft(LAMBDA client, server :
               IF Viable(client.msg) THEN client
               ELSE AskServerForName(z, server, name, qtype, client.net),
             [msg |-> NoReply, net |-> "udp"], Servers).msg

\* Mutant: a name that no server answers for does not count.
LookupWithSearchPathLenient(z, name, qtype) ==
    LET msgs == [i \in DOMAIN SearchList[name] |->
                   LookupFromAnyServer(z, SearchList[name][i], qtype)]
        first == SelectInSeq(msgs, LAMBDA m : m.kind = "success")
    IN  IF ~z.conf THEN Failed
        ELSE IF first # 0 THEN Found(msgs[first].answer)
        ELSE NotFound

\* The first of the names of the search list that exists.
LookupWithSearchPath(z, name, qtype) ==
    LET msgs == [i \in DOMAIN SearchList[name] |->
                   LookupFromAnyServer(z, SearchList[name][i], qtype)]
        first == SelectInSeq(msgs, LAMBDA m : m.kind = "success")
    IN  IF ~z.conf THEN Failed
        ELSE IF first # 0 THEN Found(msgs[first].answer)
        ELSE IF \A i \in DOMAIN msgs : Viable(msgs[i]) THEN NotFound ELSE Failed

\* The AAAA records of a host or, for want of them, its A records.
HostRecords(z, host) ==
    LET aaaa == LookupWithSearchPath(z, host, "AAAA")
    IN  IF aaaa.err # "none" \/ aaaa.answer = <<>>
        THEN LookupWithSearchPath(z, host, "A") ELSE aaaa

\* Go on with a result that is not an error.
Then(result, op(_)) == IF result.err # "none" THEN result ELSE op(result.answer)

\* op of every element of a sequence, one after the other, until one fails.
Gather(seq, op(_)) ==
    FoldLeft(LAMBDA acc, x :
               Then(acc, LAMBDA before :
                      Then(op(x), LAMBDA new : Found(before \o new))),
             Found(<<>>), seq)

\* Records of the type that was asked for are taken, aliases are followed.
Follow(records, type, alias) ==
    Gather(records, LAMBDA r : CASE r.type = type -> Found(<<r>>)
                                 [] r.type = "cname" -> alias[r.to]
                                 [] OTHER -> Failed)

\* Mutant: one alias less is followed.
LookupIPAddrOneLess(z, host) ==
    LET lookup[n \in 0..MaxIterations] ==
          [h \in Name |->
             IF n <= 1 THEN Failed
             ELSE Then(HostRecords(z, h), LAMBDA rs : Follow(rs, "addr", lookup[n - 1]))]
    IN  lookup[MaxIterations][host]

LookupIPAddr(z, host) ==
    LET lookup[n \in 0..MaxIterations] ==
          [h \in Name |->
             IF n = 0 THEN Failed
             ELSE Then(HostRecords(z, h), LAMBDA rs : Follow(rs, "addr", lookup[n - 1]))]
    IN  lookup[MaxIterations][host]

LookupSRV(z, host) ==
    LET lookup[n \in 0..MaxIterations] ==
          [h \in Name |->
             IF n = 0 THEN Failed
             ELSE Then(LookupWithSearchPath(z, h, "SRV"),
                       LAMBDA rs : Follow(rs, "srv", lookup[n - 1]))]
    IN  lookup[MaxIterations][host]

-----------------------------------------------------------------------------
\* dnsSD takes a name that does not exist for one without records.
OrNone(result) == IF result.err = "notfound" THEN Found(<<>>) ELSE result

Endpoint(to, port) == [to |-> to, port |-> port]

Endpoints(records, port) ==
    [i \in DOMAIN records |-> Endpoint(records[i].to, port)]

\* dnsSD.Resolve, of an address [qtype, host, port] whose port may be NoPort.
NoPort == 0

Resolve(z, addr) ==
    LET portOf(rec) == IF addr.port = NoPort THEN rec.port ELSE addr.port
        ips(host, port) ==
            Then(OrNone(LookupIPAddr(z, host)), LAMBDA rs : Found(Endpoints(rs, port)))
        recs == OrNone(LookupSRV(z, addr.host))
    IN  CASE addr.qtype = "dns" ->
               IF addr.port = NoPort THEN Failed ELSE ips(addr.host, addr.port)
          [] addr.qtype = "dnssrv" ->
               Then(recs, LAMBDA rs : Gather(rs, LAMBDA r : ips(r.to, portOf(r))))
          [] addr.qtype = "dnssrvnoa" ->
               Then(recs, LAMBDA rs :
                      Gather(rs, LAMBDA r : Found(<<Endpoint(r.to, portOf(r))>>)))
          [] OTHER -> Failed
=============================================================================
