----------------------------- MODULE DnsProofs ------------------------------
(***************************************************************************)
(* DnsProvider, for all zones, servers, search lists and lists of          *)
(* addresses: the cache keeps the last good answer.  What a lookup makes   *)
(* of the replies does not matter here, and stays unexpanded.              *)
(***************************************************************************)
EXTENDS DnsProvider, TLAPS

\* No list has an address twice.
NoRepeats == \A l \in Lists : IsInjective(l)

\* The addresses still to do are distinct and have not been done; those that are
\* done have their last good answer in acc, the others have it in the cache, or
\* never had one.
TodoInv ==
    /\ IsInjective(job.todo)
    /\ \A i \in 1..Len(job.todo) : job.todo[i] \notin DOMAIN job.acc

CacheInv ==
    /\ job \in [on: BOOLEAN, todo: Seq(Addr), acc: {job.acc}, errs: BOOLEAN]
    /\ ~job.on => job = NoJob
    /\ TodoInv
    /\ DOMAIN good = Addr /\ DOMAIN resolved \subseteq Addr /\ DOMAIN job.acc \subseteq Addr
    /\ \A addr \in Addr :
         good[addr] = IF addr \in DOMAIN job.acc THEN job.acc[addr] ELSE Cached(addr)

\* The initial state satisfies it.
LEMMA CacheInit == Init => CacheInv
<1> SUFFICES ASSUME Init PROVE CacheInv
  OBVIOUS
<1>1. job = [on |-> FALSE, todo |-> <<>>, acc |-> <<>>, errs |-> FALSE]
  BY DEF Init, NoJob
<1>2. DOMAIN job.acc = {} /\ Len(job.todo) = 0 /\ job.todo \in Seq(Addr)
  BY <1>1
<1>3. TodoInv
  BY <1>2 DEF TodoInv, IsInjective
<1>4. DOMAIN good = Addr /\ DOMAIN resolved = {} /\ \A addr \in Addr : good[addr] = Cached(addr)
  BY DEF Init, Cached
<1> QED
  BY <1>1, <1>2, <1>3, <1>4 DEF CacheInv, NoJob

\* Every step preserves it.
LEMMA CacheStep == NoRepeats /\ CacheInv /\ [Next]_vars => CacheInv'
<1> SUFFICES ASSUME NoRepeats, CacheInv, [Next]_vars PROVE CacheInv'
  OBVIOUS
<1>1. CASE UNCHANGED vars
  BY <1>1 DEF vars, CacheInv, TodoInv, Cached
<1>2. CASE ZoneChanges
  BY <1>2 DEF ZoneChanges, CacheInv, TodoInv, Cached
<1>3. ASSUME NEW addrs \in Lists, StartResolve(addrs) PROVE CacheInv'
  <2>1. job' = [on |-> TRUE, todo |-> addrs, acc |-> <<>>, errs |-> FALSE]
    BY <1>3 DEF StartResolve, NoJob
  <2>2. job.acc = <<>>
    BY <1>3 DEF StartResolve, CacheInv, NoJob
  <2>3. addrs \in Seq(Addr)
    BY ListsAssumption
  <2>4. TodoInv'
    BY <2>1, <2>3 DEF TodoInv, NoRepeats
  <2> QED
    BY <1>3, <2>1, <2>2, <2>3, <2>4 DEF CacheInv, StartResolve, Cached
<1>4. CASE ResolveAddr
  <2> DEFINE addr == Head(job.todo)
             result == ResultOf(addr)
             answer == IF result.err = "none" THEN result.answer ELSE Cached(addr)
  <2>1. /\ job.todo \in Seq(Addr) /\ job.todo # <<>> /\ job.on /\ job.on \in BOOLEAN
        /\ job.errs \in BOOLEAN
    BY <1>4 DEF ResolveAddr, CacheInv
  <2>2. Done(addr, addr, answer, result)
    BY <1>4 DEF ResolveAddr
  <2>3. addr \in Addr /\ addr = job.todo[1] /\ addr \notin DOMAIN job.acc
    BY <2>1 DEF CacheInv, TodoInv
  <2> HIDE DEF answer, result, addr
  <2>4. /\ job'.todo = Tail(job.todo)
        /\ job'.acc = [k \in DOMAIN job.acc \cup {addr} |-> IF k = addr THEN answer ELSE job.acc[k]]
        /\ job'.on = TRUE /\ job'.errs \in BOOLEAN
        /\ job' = [on |-> TRUE, todo |-> job'.todo, acc |-> job'.acc, errs |-> job'.errs]
    BY <2>1, <2>2 DEF Done, CacheInv
  <2>5. /\ DOMAIN job'.acc = {addr} \cup DOMAIN job.acc
        /\ job'.acc[addr] = answer
        /\ \A a \in DOMAIN job.acc : a # addr => job'.acc[a] = job.acc[a]
    BY <2>4
  <2>6. TodoInv'
    <3>1. job'.todo \in Seq(Addr) /\ Len(job'.todo) = Len(job.todo) - 1
      BY <2>1, <2>4
    <3>2. \A i \in 1..Len(job'.todo) : job'.todo[i] = job.todo[i + 1] /\ i + 1 \in 1..Len(job.todo)
      BY <2>1, <2>4, <3>1
    <3>3. 1 \in 1..Len(job.todo)
      BY <2>1
    <3>4. DOMAIN job.todo = 1..Len(job.todo) /\ DOMAIN job'.todo = 1..Len(job'.todo)
      BY <2>1, <3>1
    <3>5. ASSUME NEW i \in 1..Len(job'.todo), NEW j \in 1..Len(job'.todo), job'.todo[i] = job'.todo[j]
          PROVE  i = j
      <4>1. i + 1 = j + 1
        BY <3>2, <3>4, <3>5 DEF TodoInv, IsInjective, CacheInv
      <4> QED
        BY <4>1
    <3>6. ASSUME NEW i \in 1..Len(job'.todo) PROVE job'.todo[i] \notin DOMAIN job'.acc
      <4>1. job.todo[i + 1] # job.todo[1]
        BY <3>2, <3>3, <3>4 DEF TodoInv, IsInjective, CacheInv
      <4> QED
        BY <2>3, <2>5, <3>2, <4>1 DEF TodoInv, CacheInv
    <3> QED
      BY <3>4, <3>5, <3>6 DEF TodoInv, IsInjective
  <2>7. /\ good' = [good EXCEPT ![addr] = IF result.err = "none" THEN result.answer ELSE @]
        /\ resolved' = resolved
    BY <2>2 DEF Done
  <2>8. DOMAIN good' = Addr /\ good'[addr] = answer
    BY <2>3, <2>7 DEF CacheInv, answer
  <2>9. \A a \in Addr : a # addr => good'[a] = good[a]
    BY <2>7 DEF CacheInv
  <2>10. \A a \in Addr :
           good'[a] = IF a \in DOMAIN job'.acc THEN job'.acc[a] ELSE Cached(a)'
    BY <2>5, <2>7, <2>8, <2>9 DEF CacheInv, Cached
  <2>11. Tail(job.todo) \in Seq(Addr)
    BY <2>1
  <2> QED
    BY <2>3, <2>4, <2>5, <2>6, <2>7, <2>8, <2>10, <2>11 DEF CacheInv
<1>5. CASE ReplaceResolved
  <2>1. job' = [on |-> FALSE, todo |-> <<>>, acc |-> <<>>, errs |-> FALSE]
    BY <1>5 DEF ReplaceResolved, NoJob
  <2>2. TodoInv'
    BY <2>1 DEF TodoInv, IsInjective
  <2>3. /\ resolved' = job.acc
        /\ good' = [addr \in Addr |-> IF addr \in DOMAIN job.acc THEN good[addr] ELSE <<>>]
    BY <1>5 DEF ReplaceResolved
  <2>4. \A addr \in Addr : good'[addr] = Cached(addr)'
    BY <2>3 DEF CacheInv, Cached
  <2> QED
    BY <2>1, <2>2, <2>3, <2>4 DEF CacheInv, NoJob
<1> QED
  BY <1>1, <1>2, <1>3, <1>4, <1>5 DEF Next

\* However the DNS changes and whichever lookups fail, the cache has of every
\* address the answer of its last lookup that succeeded.
THEOREM CacheKeepsAnswers == NoRepeats => (Spec => []LastGoodAnswer)
<1> SUFFICES ASSUME NoRepeats PROVE Spec => []LastGoodAnswer
  OBVIOUS
<1>1. CacheInv /\ [Next]_vars => CacheInv'
  BY CacheStep
<1>2. ASSUME CacheInv PROVE LastGoodAnswer
  BY <1>2 DEF CacheInv, LastGoodAnswer, NoJob, Cached
<1> QED
  BY <1>1, <1>2, CacheInit, PTL DEF Spec
=============================================================================
