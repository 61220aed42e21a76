---------------------------- MODULE DnsProvider ----------------------------
(***************************************************************************)
(* The Provider of src/gossip/internal/dns/provider.go: a cache of what    *)
(* the addresses of the other nodes resolve to, filled by Resolve while    *)
(* the answers of the DNS change.  Resolve works on a map of its own,      *)
(* address by address, and replaces the cache when it is done: Addresses   *)
(* reads resolved at any time.                                             *)
(***************************************************************************)
EXTENDS DnsLookup

CONSTANTS
    FirstZones, \* what the DNS may say at first
    Zones,      \* what it may say later
    Lists,      \* the sequences of addresses Resolve may be called with
    MaxChanges  \* bound: how often the zone changes

VARIABLES
    zone,       \* what the DNS says
    changes,    \* how often it has changed
    resolved,   \* p.resolved, a function on the addresses it has
    job,        \* Resolve: the addresses to do, resolvedAddrs and errs
    good        \* history: the last answer without an error, of each address

vars == <<zone, changes, resolved, job, good>>

Addr == UNION {Range(l) : l \in Lists}

ASSUME ListsAssumption == \A l \in Lists : l \in Seq(Addr)

NoJob == [on |-> FALSE, todo |-> <<>>, acc |-> <<>>, errs |-> FALSE]

Init ==
    /\ zone \in FirstZones
    /\ changes = 0
    /\ resolved = <<>>
    /\ job = NoJob
    /\ good = [addr \in Addr |-> <<>>]

ZoneChanges ==
    /\ changes < MaxChanges
    /\ changes' = changes + 1
    /\ zone' \in Zones \ {zone}
    /\ UNCHANGED <<resolved, job, good>>

StartResolve(addrs) ==
    /\ ~job.on
    /\ job' = [NoJob EXCEPT !.on = TRUE, !.todo = addrs]
    /\ UNCHANGED <<zone, changes, resolved, good>>

\* The map's value, nil where it has none.
Cached(addr) == IF addr \in DOMAIN resolved THEN resolved[addr] ELSE <<>>

\* An address without a qtype stands for itself.
ResultOf(addr) ==
    IF addr.qtype = "" THEN Found(<<Endpoint(addr.host, addr.port)>>)
    ELSE Resolve(zone, addr)

\* An address is done: its answer is known, or what is cached instead.
Done(addr, key, answer, result) ==
    /\ job' = [job EXCEPT !.todo = Tail(@),
                          !.acc = [k \in DOMAIN @ \cup {key} |-> IF k = key THEN answer ELSE @[k]],
                          !.errs = @ \/ result.err # "none"]
    /\ good' = [good EXCEPT ![addr] = IF result.err = "none" THEN result.answer ELSE @]
    /\ UNCHANGED <<zone, changes, resolved>>

\* Mutants: an error leaves the address without an answer; the answer is kept
\* under the name without its qtype.
ResolveAddrForgets ==
    /\ job.on /\ job.todo # <<>>
    /\ LET addr == Head(job.todo)
           result == ResultOf(addr)
       IN  Done(addr, addr, result.answer, result)

ResolveAddrByName ==
    /\ job.on /\ job.todo # <<>>
    /\ LET addr == Head(job.todo)
           result == ResultOf(addr)
       IN  Done(addr, [addr EXCEPT !.qtype = ""], result.answer, result)

\* One address: its answer or, on an error, what is cached.
ResolveAddr ==
    /\ job.on /\ job.todo # <<>>
    /\ LET addr == Head(job.todo)
           result == ResultOf(addr)
       IN  Done(addr, addr, IF result.err = "none" THEN result.answer ELSE Cached(addr), result)

\* The cache is replaced; addresses that were not asked for are forgotten.
ReplaceResolved ==
    /\ job.on /\ job.todo = <<>>
    /\ resolved' = job.acc
    /\ job' = NoJob
    /\ good' = [addr \in Addr |-> IF addr \in DOMAIN job.acc THEN good[addr] ELSE <<>>]
    /\ UNCHANGED <<zone, changes>>

Next ==
    \/ ZoneChanges
    \/ \E addrs \in Lists : StartResolve(addrs)
    \/ ResolveAddr
    \/ ReplaceResolved

Spec == Init /\ [][Next]_vars

-----------------------------------------------------------------------------
(***************************************************************************)
(* Properties.                                                             *)
(***************************************************************************)
TypeOK ==
    /\ changes \in 0..MaxChanges
    /\ DOMAIN resolved \subseteq Addr
    /\ \A addr \in DOMAIN resolved : resolved[addr] \in Seq([to: STRING, port: Nat])
    /\ Range(job.todo) \cup DOMAIN job.acc \subseteq Addr
    /\ job.on \in BOOLEAN /\ job.errs \in BOOLEAN

\* An address that could not be resolved keeps the answer of the last lookup of
\* it that succeeded, through any number of failures and whatever became of the
\* other addresses of the list, for as long as every Resolve asks for it.
LastGoodAnswer ==
    ~job.on => \A addr \in DOMAIN resolved : resolved[addr] = good[addr]

Replies(name, qtype, net) ==
    {zone.reply[s, name, qtype, net] : s \in Range(Servers)}

\* lookupWithSearchPath against the replies themselves: an answer is one that a
\* server gave, complete, to a name of the list; a name is said not to exist
\* only if for each of the names of the list a server said so; and a lookup
\* fails only if for one of them every server failed it over UDP or TCP.
SearchOutcomeSound ==
    \A host \in Name, qtype \in {"A", "AAAA", "SRV"} :
        LET result == LookupWithSearchPath(zone, host, qtype)
            list == Range(SearchList[host])
            heard(name) == Replies(name, qtype, "udp") \cup Replies(name, qtype, "tcp")
        IN  CASE result.err = "none" ->
                   \E name \in list : Reply("success", result.answer) \in heard(name)
              [] result.err = "notfound" ->
                   \A name \in list : \E m \in heard(name) : m.kind = "nxdomain"
              [] OTHER ->
                   \/ ~zone.conf
                   \/ \E name \in list : \A s \in Range(Servers) :
                        \E net \in {"udp", "tcp"} : ~Viable(zone.reply[s, name, qtype, net])

\* The names that n - 1 aliases lead to from host.
Aliases(host) ==
    LET targets(h) == {r.to : r \in {x \in Range(HostRecords(zone, h).answer) : x.type = "cname"}}
        layer[n \in 1..MaxIterations + 1] ==
          IF n = 1 THEN {host} ELSE UNION {targets(h) : h \in layer[n - 1]}
    IN  layer

\* lookupIPAddr against the graph of the aliases: it ends on loops, fails if
\* they lead too far or a name on the way fails, and otherwise has the addresses
\* of all names the aliases lead to.
AliasesFollowed ==
    \A host \in Name :
        LET result == LookupIPAddr(zone, host)
            layer == Aliases(host)
            names == UNION {layer[n] : n \in 1..MaxIterations}
            records(h) == Range(HostRecords(zone, h).answer)
            broken(h) == \/ HostRecords(zone, h).err # "none"
                         \/ \E r \in records(h) : r.type \notin {"addr", "cname"}
        IN  IF layer[MaxIterations + 1] # {} \/ \E h \in names : broken(h)
            THEN result.err # "none"
            ELSE result.err = "none"
                 /\ Range(result.answer) =
                      UNION {{r \in records(h) : r.type = "addr"} : h \in names}
=============================================================================
