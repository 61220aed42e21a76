--------------------------- MODULE MCDnsProvider ---------------------------
(***************************************************************************)
(* DnsProvider for TLC: two servers; a host h that the search list also    *)
(* tries as h.d, and two names x and y that aliases and services lead to.  *)
(***************************************************************************)
EXTENDS DnsProvider

TwoServers == <<"s1", "s2">>

WithDomain ==
    [n \in {"h", "h.d", "x", "y"} |-> IF n = "h" THEN <<"h.d", "h">> ELSE <<n>>]

Ip(i) == RR("addr", i, 0)
Alias(n) == RR("cname", n, 0)
Success(answer) == Reply("success", answer)
NxDomain == Reply("nxdomain", <<>>)

\* Questions that are not in over get an NXDOMAIN.
ZoneOf(over) ==
    [conf |-> TRUE,
     reply |-> [q \in Question |-> IF q \in DOMAIN over THEN over[q] ELSE NxDomain]]

\* Both servers, over both transports, reply alike: r[name, qtype].
Alike(r) ==
    ZoneOf([q \in {q \in Question : <<q[2], q[3]>> \in DOMAIN r} |-> r[q[2], q[3]]])

NoConf == [ZoneOf(<<>>) EXCEPT !.conf = FALSE]

\* What two servers may do with a question, over UDP and TCP.
TransportZones ==
    {ZoneOf(r) : r \in [{"s1", "s2"} \X {"h"} \X {"A"} \X {"udp", "tcp"} ->
        {NoReply, Reply("truncated", <<Ip("1")>>), Reply("servfail", <<>>), NxDomain,
         Success(<<Ip("1")>>)}]}

\* What may be known of the names of the search list.
SearchZones ==
    {Alike(r) : r \in [{"h", "h.d"} \X {"A", "AAAA"} ->
        {NoReply, NxDomain, Success(<<>>), Success(<<Ip("1")>>)}]}

\* Where aliases may lead; x and y have A records only, h only what it has.
AliasZones ==
    {Alike(r) : r \in [{"h", "x", "y"} \X {"A"} ->
        {NoReply, NxDomain, Success(<<Ip("1")>>), Success(<<Alias("x")>>),
         Success(<<Ip("2"), Alias("y")>>), Success(<<Alias("x"), Alias("y")>>),
         Success(<<RR("other", "", 0)>>)}]}

AllZones == {NoConf} \cup TransportZones \cup SearchZones \cup AliasZones

Host == [qtype |-> "dns", host |-> "h", port |-> 80]

\* h has addresses, none, or cannot be resolved, and has services at x and y.
FewZones ==
    {NoConf} \cup
    {Alike((<<"h", "AAAA">> :> aaaa) @@ (<<"h", "A">> :> a) @@ (<<"h", "SRV">> :> srv)
           @@ (<<"x", "A">> :> Success(<<Ip("1")>>)) @@ (<<"y", "A">> :> y)) :
       aaaa \in {NoReply, Success(<<Ip("6")>>)},
       a \in {Success(<<>>), Success(<<Ip("1"), Ip("2")>>)},
       srv \in {NxDomain, Success(<<RR("srv", "x", 1), RR("srv", "y", 2)>>)},
       y \in {NoReply, NxDomain}}

Service == [qtype |-> "dnssrv", host |-> "h", port |-> NoPort]
ServiceAt == [qtype |-> "dnssrvnoa", host |-> "h", port |-> 80]
Static == [qtype |-> "", host |-> "10.0.0.1", port |-> 80]
Portless == [qtype |-> "dns", host |-> "h", port |-> NoPort]

SomeLists == {<<Host, Static, Service>>, <<Host, Portless>>, <<ServiceAt, Host>>}
=============================================================================
