------------------------ MODULE TenantThrottle_proofs ------------------------
(***************************************************************************)
(* What the quotas of a tenant promise, for every number of requests,      *)
(* tenants and instances, all quotas, and all lengths of the window and of *)
(* the lease: what the limits may be passed by, that nobody is refused for *)
(* a slot nobody uses, and that lease timers go away.                      *)
(*                                                                         *)
(* BaseInv types the state and says where a request stands; it is          *)
(* inductive by itself.  On top of it stand four invariants that count:    *)
(* LeaseInv the users of a lease, SlotInv the keepers of a slot, LimitInv  *)
(* its holders, and RateInv the hits of a window.                          *)
(***************************************************************************)
EXTENDS TenantThrottle, FiniteSetTheorems, TLAPS

-----------------------------------------------------------------------------
(* The invariants.                                                         *)

\* What a request has given back and will give back.  A request whose release()
\* has run is over, unless its client went away in the middle of the check.
RequestInv ==
    \A r \in Req :
        /\ r \notin released => releasing[r] = 0 /\ gave[r] = 0
        /\ gave[r] + releasing[r] <= (IF pc[r] = "over" THEN 2 ELSE 1)
        /\ r \in released => r \in closed \/ pc[r] = "over"
        /\ pc[r] = "over" => r \in released \/ r \in closed
        /\ pc[r] = "new" => r \notin released
        /\ pc[r] \in {"new", "rate", "acquire"} => took[r] = 0
        /\ pc[r] = "backout" => Redis
        /\ Redis /\ pc[r] \in {"acquired", "backout"} => took[r] = 1
        /\ r \in released /\ pc[r] # "over" /\ r \notin failed => gave[r] + releasing[r] = 1
        /\ pc[r] = "rate" => Rate(T(r)) > 0

\* The in-memory store knows neither leases nor lives of hashes.
MemoryInv ==
    ~Redis => /\ \A t \in DOMAIN states : states[t].ttl = 0
              /\ \A i \in Instance, t \in Tenant : leases[i][t].count = 0

BaseInv == TypeOK /\ RequestInv /\ MemoryInv

\* The requests of a tenant on an instance that a lease is there for.
Users(i, t) == {r \in Req : At(r) = i /\ T(r) = t /\ (pc[r] = "active" \/ releasing[r] > 0)}

LeaseInv ==
    \A i \in Instance :
        (\A r \in closed : At(r) # i) =>
            \A t \in Tenant : leases[i][t].count <= Cardinality(Users(i, t))

\* The requests a slot is there for.
Keepers(t) == {r \in Req : T(r) = t /\ ( \/ pc[r] \in {"acquired", "backout", "active"}
                                         \/ releasing[r] > 0)}

SlotInv == Orderly => \A t \in Tenant : Hash(t).concurrent <= Cardinality(Keepers(t))

\* Slots counted and not given back, by requests that will give them back; and
\* requests that gave back a slot or a lease of another.
Holders(t) ==
    {r \in Req : /\ T(r) = t /\ took[r] = 1 /\ gave[r] = 0
                 /\ \/ pc[r] \in {"acquired", "backout", "active"} /\ r \notin released
                    \/ releasing[r] > 0}
Takers(t) ==
    {r \in Req : /\ T(r) = t /\ r \in released /\ releasing[r] = 0
                 /\ gave[r] > took[r] \/ (r \in failed /\ pc[r] \in {"active", "over"})}

HoldersInv ==
    \A t \in Tenant : Limit(t) > 0 =>
        Cardinality(Holders(t)) <= Hash(t).concurrent + Cardinality(Takers(t))

\* The same for the leases of an instance.
Leaseholders(i, t) ==
    {r \in Req : /\ At(r) = i /\ T(r) = t
                 /\ \/ pc[r] = "active" /\ (r \notin released \/ releasing[r] > 0)
                    \/ /\ pc[r] = "over" /\ releasing[r] > 0
                       /\ took[r] = 1 /\ gave[r] = 0 /\ r \notin failed}
LeaseTakers(i, t) ==
    {r \in Req : /\ At(r) = i /\ T(r) = t /\ r \in released /\ releasing[r] = 0
                 /\ \/ gave[r] > took[r] \/ r \in failed
                    \/ pc[r] \in {"acquired", "backout"}}

LeaseholdersInv ==
    Redis => \A i \in Instance, t \in Tenant : Limit(t) > 0 =>
        Cardinality(Leaseholders(i, t)) <= leases[i][t].count + Cardinality(LeaseTakers(i, t))

\* A hash with slots outlives the time to the next renewal of each of its leases.
LifeInv ==
    Redis =>
        /\ \A i \in Instance, t \in Tenant :
            leases[i][t].count > 0 /\ Hash(t).concurrent > 0 => Hash(t).ttl > leases[i][t].due
        /\ \A r \in Req : pc[r] = "acquired" => Hash(T(r)).ttl >= Ttl

LimitInv == HoldersInv /\ LeaseholdersInv /\ LifeInv

\* The hits a tenant was given whose ages lie between two bounds.
Hits(t, from, to) == {r \in Req : T(r) = t /\ accepted[r] >= from /\ accepted[r] < to}

Open(t) == InWindow(Hash(t))

\* The open window of a tenant began s ago and has counted n hits.
OpenWith(t, s, n) == Open(t) /\ s = Hash(t).start /\ n = Hash(t).hits

\* In Redis a window begins with a hit and the hash outlives it, so that at most
\* Rate - 1 younger hits than a whole window come from the window before.
RedisWindow(t) ==
    /\ \A s, n \in Nat : OpenWith(t, s, n) =>
         /\ Hash(t).ttl >= Window - s
         /\ \E r \in Req : T(r) = t /\ accepted[r] = s
         /\ Cardinality(Hits(t, 0, s + 1)) <= n
         /\ Cardinality(Hits(t, s + 1, Window)) <= Rate(t) - 1
    /\ ~Open(t) =>
         /\ Hits(t, 0, 1) = {}
         /\ Cardinality(Hits(t, 1, Window)) <= Rate(t) - 1
         /\ \A r \in Req : T(r) = t => pc[r] # "acquire"

\* In memory a window may begin without a hit, and one hit may have been counted
\* on a state that prune took out of the map; the request it was counted for is
\* about to take a slot and opens the next window with it.
MemoryWindow(t) ==
    /\ \A s, n \in Nat : OpenWith(t, s, n) =>
         /\ Cardinality(Hits(t, 0, s)) <= n
         /\ Cardinality(Hits(t, 0, s + 1)) <= n + 1
         /\ Cardinality(Hits(t, s + 1, Window)) <= Rate(t)
    /\ ~Open(t) =>
         /\ Cardinality(Hits(t, 0, 1)) <= 1
         /\ Cardinality(Hits(t, 1, Window)) <= Rate(t)
         /\ \A r \in Hits(t, 0, 1) :
              cleanup = 0 /\ t \notin DOMAIN states /\ pc[r] = "acquire"

\* A request that has not asked for its hit has none.
UncountedInv == \A r \in Req : pc[r] \in {"new", "rate"} => accepted[r] = Unset

RateInv ==
    /\ UncountedInv
    /\ \A t \in Tenant : Rate(t) > 0 =>
         /\ Redis => RedisWindow(t)
         /\ ~Redis /\ crashed = {} => MemoryWindow(t)

\* BaseInv by parts: what is said of requests, of the store and of the leases.
RequestOK ==
    /\ config \in Configs
    /\ pc \in [Req -> Checking \cup {"new", "active", "over"}]
    /\ closed \subseteq Req /\ released \subseteq Req
    /\ failed \subseteq Req /\ crashed \subseteq Instance
    /\ releasing \in [Req -> 0..1]
    /\ took \in [Req -> 0..1] /\ gave \in [Req -> 0..2]
    /\ accepted \in [Req -> Age]
    /\ RequestInv

StoreOK ==
    /\ DOMAIN states \subseteq Tenant
    /\ \A t \in DOMAIN states :
        /\ states[t] \in State
        /\ Rate(t) > 0 => states[t].hits <= Rate(t)
        /\ Limit(t) > 0 => states[t].concurrent <= Limit(t)
        /\ ~Redis => states[t].ttl = 0
    /\ cleanup \in 0..Window

LeaseOK ==
    /\ leases \in [Instance -> [Tenant -> [count : Nat, due : 0..LeaseInterval]]]
    /\ \A i \in Instance : Cardinality(Timers(i)) <= LeaseLimit
    /\ ~Redis => \A i \in Instance, t \in Tenant : leases[i][t].count = 0

LEMMA BaseParts == BaseInv <=> RequestOK /\ StoreOK /\ LeaseOK
BY Zenon DEF BaseInv, TypeOK, MemoryInv, RequestOK, StoreOK, LeaseOK

-----------------------------------------------------------------------------
(* Constants, configurations and hashes.                                   *)

LEMMA LeaseIntervalType == LeaseInterval \in Nat \ {0} /\ LeaseInterval < Ttl
BY TimeAssumption, LeaseAssumption DEF LeaseInterval

LEMMA WindowType ==
    /\ Window \in Nat \ {0} /\ Ttl \in Nat \ {0} /\ Window <= Ttl
    /\ Unset = Window + 1 /\ Age = 0..(Window + 1)
    /\ RateTtl = Ttl
BY TimeAssumption, LeaseAssumption DEF Unset, Age, RateTtl

LEMMA ConfigType ==
    ASSUME config \in Configs
    PROVE  /\ \A t \in Tenant : Rate(t) \in Nat /\ Limit(t) \in Nat
           /\ \A r \in Req : T(r) \in Tenant /\ At(r) \in Instance
           /\ ~Redis => \A r, s \in Req : At(r) = At(s)
<1>1. config \in Config /\ (config.store = "memory" => \A r, s \in Req : config.at[r] = config.at[s])
  BY ConfigsAssumption
<1>2. config.store \in {"memory", "redis"}
  BY <1>1 DEF Config
<1>3. config.rate \in [Tenant -> Nat] /\ config.concurrent \in [Tenant -> Nat]
  BY <1>1 DEF Config
<1>4. config.tenant \in [Req -> Tenant] /\ config.at \in [Req -> Instance]
  BY <1>1 DEF Config
<1> QED
  BY <1>1, <1>2, <1>3, <1>4 DEF Rate, Limit, T, At, Redis

LEMMA SameConfig ==
    ASSUME config' = config
    PROVE  /\ Redis' <=> Redis
           /\ \A t : Rate(t)' = Rate(t) /\ Limit(t)' = Limit(t)
           /\ \A r : T(r)' = T(r) /\ At(r)' = At(r)
BY DEF Redis, Rate, Limit, T, At

LEMMA StateType ==
    ASSUME NEW s
    PROVE  s \in State <=> /\ s = [start |-> s.start, hits |-> s.hits,
                                   concurrent |-> s.concurrent, ttl |-> s.ttl]
                           /\ s.start \in Age /\ s.hits \in Nat
                           /\ s.concurrent \in Nat /\ s.ttl \in Nat
BY DEF State

\* What the hash of a tenant is read as.
LEMMA HashType ==
    ASSUME RequestOK, StoreOK, NEW t \in Tenant
    PROVE  /\ Hash(t) \in State
           /\ Hash(t).start \in 0..(Window + 1) /\ Hash(t).hits \in Nat
           /\ Hash(t).concurrent \in Nat /\ Hash(t).ttl \in Nat
           /\ Rate(t) \in Nat /\ Limit(t) \in Nat
           /\ Rate(t) > 0 => Hash(t).hits <= Rate(t)
           /\ Limit(t) > 0 => Hash(t).concurrent <= Limit(t)
           /\ ~Redis => Hash(t).ttl = 0
           /\ t \in DOMAIN states => Hash(t) = states[t]
           /\ t \notin DOMAIN states => ~Open(t) /\ Hash(t).concurrent = 0 /\ Hash(t).hits = 0
<1>1. Rate(t) \in Nat /\ Limit(t) \in Nat
  BY ConfigType DEF RequestOK
<1>2. CASE t \in DOMAIN states
  <2>1. Hash(t) = states[t] /\ states[t] \in State
    BY <1>2 DEF Hash, StoreOK
  <2> QED
    BY <1>1, <1>2, <2>1, StateType, WindowType DEF StoreOK
<1>3. CASE t \notin DOMAIN states
  <2>1. Hash(t) = [start |-> Window + 1, hits |-> 0, concurrent |-> 0, ttl |-> 0]
    BY <1>3, WindowType DEF Hash
  <2> QED
    BY <1>1, <1>3, <2>1, WindowType DEF State, Open, InWindow
<1> QED
  BY <1>2, <1>3

-----------------------------------------------------------------------------
(* What a script does to the hashes, tenant by tenant.                     *)

SlotsKept(u)  == (Hash(u).concurrent)' = Hash(u).concurrent
WindowKept(u) == /\ Open(u)' <=> Open(u)
                 /\ Open(u) => (Hash(u).start)' = Hash(u).start /\ (Hash(u).hits)' = Hash(u).hits
LifeKept(u)   == Redis => (Hash(u).ttl)' = Hash(u).ttl \/ (Hash(u).ttl)' >= Ttl
AbsentKept(u) == ~Redis /\ u \notin DOMAIN states => u \notin DOMAIN states'

\* A script of one tenant leaves the others as they are, but for what prune takes.
Elsewhere(t) == \A u \in Tenant \ {t} :
                    SlotsKept(u) /\ WindowKept(u) /\ LifeKept(u) /\ AbsentKept(u)

CleanupKept == cleanup' = cleanup \/ cleanup' = 0

LEMMA PutHash ==
    ASSUME NEW t \in Tenant, NEW s, states' = Put(t, s)
    PROVE  /\ DOMAIN states' = DOMAIN states \cup {t}
           /\ states'[t] = s /\ Hash(t)' = s
           /\ \A u : u # t => Hash(u)' = Hash(u)
           /\ \A u \in DOMAIN states : u # t => states'[u] = states[u]
BY DEF Put, Hash

LEMMA StoreHash ==
    ASSUME RequestOK, StoreOK, NEW t \in Tenant, NEW s, states' = Store(t, s), Prune
    PROVE  /\ DOMAIN states' \subseteq DOMAIN states \cup {t}
           /\ cleanup' \in 0..Window /\ CleanupKept
           /\ ~Detached(t) => t \in DOMAIN states' /\ states'[t] = s /\ Hash(t)' = s
           /\ Detached(t) => t \notin DOMAIN states' /\ cleanup' = 0
           /\ \A u \in DOMAIN states' : u # t => u \in DOMAIN states /\ states'[u] = states[u]
           /\ \A u \in DOMAIN states : u # t /\ u \notin DOMAIN states' => Idle(states[u])
<1> DEFINE put == Put(t, Known(t))
           kept == Pruned(put)
<1>1. DOMAIN put = DOMAIN states \cup {t} /\ put[t] = Known(t)
      /\ \A u \in DOMAIN states : u # t => put[u] = states[u]
  BY DEF Put
<1> HIDE DEF put
<1>2. /\ DOMAIN kept \subseteq DOMAIN put
      /\ \A u \in DOMAIN put : u \in DOMAIN kept <=> cleanup < Window \/ ~Idle(put[u])
      /\ \A u \in DOMAIN kept : kept[u] = put[u]
  BY DEF Pruned
<1>3. states' = IF t \in DOMAIN kept THEN [kept EXCEPT ![t] = s] ELSE kept
  BY DEF Store, put
<1> HIDE DEF kept
<1>4. /\ DOMAIN states' = DOMAIN kept
      /\ t \in DOMAIN kept => states'[t] = s
      /\ \A u \in DOMAIN kept : u # t => states'[u] = kept[u]
  BY <1>3
<1>5. cleanup \in 0..Window /\ Window \in Nat
  BY WindowType DEF StoreOK
<1>6. cleanup' \in 0..Window /\ CleanupKept /\ (cleanup >= Window => cleanup' = 0)
  BY <1>5 DEF Prune, CleanupKept
<1>7. t \in DOMAIN kept <=> ~Detached(t)
  BY <1>1, <1>2, <1>5 DEF Detached
<1>8. Detached(t) => cleanup' = 0
  BY <1>6 DEF Detached
<1>9. ~Detached(t) => Hash(t)' = s
  BY <1>4, <1>7 DEF Hash
<1>10. \A u \in DOMAIN states' : u # t => u \in DOMAIN states /\ states'[u] = states[u]
  BY <1>1, <1>2, <1>4
<1>11. \A u \in DOMAIN states : u # t /\ u \notin DOMAIN states' => Idle(states[u])
  BY <1>1, <1>2, <1>4
<1> QED
  BY <1>1, <1>2, <1>4, <1>6, <1>7, <1>8, <1>9, <1>10, <1>11

\* A hash that stays, and one that goes for it was idle.
LEMMA PrunedKeeps ==
    ASSUME RequestOK, StoreOK, NEW u \in Tenant, ~Redis,
           u \in DOMAIN states' => u \in DOMAIN states /\ states'[u] = states[u],
           u \in DOMAIN states /\ u \notin DOMAIN states' => Idle(states[u])
    PROVE  SlotsKept(u) /\ WindowKept(u) /\ LifeKept(u) /\ AbsentKept(u)
<1>1. CASE u \in DOMAIN states'
  BY <1>1 DEF SlotsKept, WindowKept, LifeKept, AbsentKept, Open, Hash
<1>2. CASE u \notin DOMAIN states'
  <2>1. Hash(u)' = [start |-> Window + 1, hits |-> 0, concurrent |-> 0, ttl |-> 0]
    BY <1>2, WindowType DEF Hash
  <2>2. ~Open(u)' /\ (Hash(u).concurrent)' = 0
    BY <2>1, WindowType DEF Open, InWindow
  <2>3. ~Open(u) /\ Hash(u).concurrent = 0
    BY <1>2, HashType DEF Idle, Open
  <2> QED
    BY <1>2, <2>2, <2>3 DEF SlotsKept, WindowKept, LifeKept, AbsentKept
<1> QED
  BY <1>1, <1>2

LEMMA SameHashKeeps ==
    ASSUME NEW u, Hash(u)' = Hash(u), Redis \/ DOMAIN states' = DOMAIN states
    PROVE  SlotsKept(u) /\ WindowKept(u) /\ LifeKept(u) /\ AbsentKept(u)
BY DEF SlotsKept, WindowKept, LifeKept, AbsentKept, Open

\* A hash with its window begun anew, with one hit more, with a life of x.
LEMMA ResetState ==
    ASSUME NEW s \in State
    PROVE  [s EXCEPT !.start = 0, !.hits = 0]
              = [start |-> 0, hits |-> 0, concurrent |-> s.concurrent, ttl |-> s.ttl]
<1> DEFINE n == [s EXCEPT !.start = 0, !.hits = 0]
<1>1. 0 \in Age
  BY WindowType
<1>2. /\ n \in State /\ n.start = 0 /\ n.hits = 0
      /\ n.concurrent = s.concurrent /\ n.ttl = s.ttl
  BY <1>1 DEF State
<1> QED
  BY <1>2, StateType

LEMMA HitState ==
    ASSUME NEW s \in State, NEW x \in Nat
    PROVE  [s EXCEPT !.hits = @ + 1, !.ttl = x]
              = [start |-> s.start, hits |-> s.hits + 1, concurrent |-> s.concurrent, ttl |-> x]
<1>2. PICK m \in Nat : m = s.hits + 1
  BY DEF State
<1> DEFINE n == [s EXCEPT !.hits = m, !.ttl = x]
<1>3. [s EXCEPT !.hits = @ + 1, !.ttl = x] = n
  BY <1>2
<1>1. /\ n \in State /\ n.start = s.start /\ n.hits = m
      /\ n.concurrent = s.concurrent /\ n.ttl = x
  BY DEF State
<1> QED
  BY <1>1, <1>2, <1>3, StateType

LEMMA LiveState ==
    ASSUME NEW s \in State, NEW x
    PROVE  [s EXCEPT !.ttl = x]
              = [start |-> s.start, hits |-> s.hits, concurrent |-> s.concurrent, ttl |-> x]
BY DEF State

\* The hit of the rate window.  Counted on a detached state, it is lost.
LEMMA RateScript ==
    ASSUME RequestOK, StoreOK, config' = config,
           NEW t \in Tenant, Rate(t) > 0, NEW limited \in BOOLEAN, IncrementRate(t, limited)
    PROVE  /\ StoreOK' /\ CleanupKept /\ Elsewhere(t)
           /\ SlotsKept(t) /\ LifeKept(t)
           /\ limited => WindowKept(t) /\ Open(t)
           /\ ~limited =>
                \/ /\ Open(t)' /\ (Redis => (Hash(t).ttl)' >= Ttl)
                   /\ Open(t) => /\ (Hash(t).start)' = Hash(t).start
                                 /\ (Hash(t).hits)' = Hash(t).hits + 1
                   /\ ~Open(t) => (Hash(t).start)' = 0 /\ (Hash(t).hits)' = 1
                \/ /\ ~Redis /\ Detached(t) /\ ~Open(t)
                   /\ ~Open(t)' /\ t \notin DOMAIN states' /\ cleanup' = 0
<1> DEFINE h == Hash(t)
<1>1. /\ h \in State /\ h.start \in 0..(Window + 1) /\ h.hits \in Nat
      /\ h.concurrent \in Nat /\ h.ttl \in Nat /\ Rate(t) \in Nat /\ Limit(t) \in Nat
      /\ h.hits <= Rate(t) /\ (Limit(t) > 0 => h.concurrent <= Limit(t))
      /\ (~Redis => h.ttl = 0)
  BY HashType
<1>2. /\ Window \in Nat \ {0} /\ Ttl \in Nat \ {0} /\ Window <= Ttl /\ RateTtl = Ttl
      /\ Age = 0..(Window + 1) /\ Unset = Window + 1
  BY WindowType
<1>3. Rate(t)' = Rate(t) /\ Limit(t)' = Limit(t) /\ (Redis' <=> Redis)
      /\ \A u : Rate(u)' = Rate(u) /\ Limit(u)' = Limit(u)
  BY SameConfig
<1>4. Open(t) <=> h.start < Window
  BY DEF Open, InWindow
<1> HIDE DEF h
<1>5. CASE Redis
  <2> DEFINE s == IF InWindow(h) THEN h ELSE [h EXCEPT !.start = 0, !.hits = 0]
             n == [s EXCEPT !.hits = @ + 1, !.ttl = RateTtl]
  <2>1. /\ limited <=> s.hits + 1 > Rate(t)
        /\ states' = IF limited
                     THEN IF t \in DOMAIN states THEN [states EXCEPT ![t].ttl = RateTtl] ELSE states
                     ELSE Put(t, n)
        /\ cleanup' = cleanup
    BY <1>5 DEF IncrementRate, RedisRate, h
  <2>2. /\ Open(t) => s = h
        /\ ~Open(t) => s = [start |-> 0, hits |-> 0, concurrent |-> h.concurrent, ttl |-> h.ttl]
    BY <1>1, <1>4, ResetState DEF InWindow
  <2>3. s \in State /\ s.start \in Age /\ s.hits \in Nat /\ s.concurrent = h.concurrent
    BY <1>1, <1>2, <2>2 DEF State
  <2>4. /\ n \in State /\ n.start = s.start /\ n.hits = s.hits + 1
        /\ n.concurrent = h.concurrent /\ n.ttl = Ttl
    <3>1. n = [start |-> s.start, hits |-> s.hits + 1, concurrent |-> s.concurrent, ttl |-> Ttl]
      BY <1>2, <2>3, HitState
    <3> HIDE DEF n, s
    <3> QED
      BY <1>1, <1>2, <2>3, <3>1 DEF State
  <2> HIDE DEF s, n
  <2>5. CASE limited
    <3>1. Open(t) /\ s = h
      BY <1>1, <2>1, <2>2, <2>5
    <3>2. t \in DOMAIN states /\ states' = [states EXCEPT ![t].ttl = Ttl]
      BY <1>2, <2>1, <2>5, <3>1, HashType
    <3>3. /\ DOMAIN states' = DOMAIN states
          /\ states'[t] = [h EXCEPT !.ttl = Ttl]
          /\ \A u \in DOMAIN states : u # t => states'[u] = states[u]
      BY <3>2 DEF Hash, h
    <3>4. Hash(t)' = [h EXCEPT !.ttl = Ttl] /\ \A u : u # t => Hash(u)' = Hash(u)
      BY <3>2, <3>3 DEF Hash
    <3>5. Elsewhere(t)
      BY <1>5, <3>4, SameHashKeeps DEF Elsewhere
    <3>9. [h EXCEPT !.ttl = Ttl]
            = [start |-> h.start, hits |-> h.hits, concurrent |-> h.concurrent, ttl |-> Ttl]
      BY <1>1, LiveState
    <3>10. /\ (Hash(t).start)' = h.start /\ (Hash(t).hits)' = h.hits
           /\ (Hash(t).concurrent)' = h.concurrent /\ (Hash(t).ttl)' = Ttl
      BY <3>4, <3>9
    <3>11. Ttl >= Ttl
      BY <1>2
    <3>6. SlotsKept(t) /\ LifeKept(t) /\ WindowKept(t)
      BY <3>10, <3>11 DEF SlotsKept, LifeKept, WindowKept, Open, InWindow, h
    <3>12. states'[t] \in State
      BY <1>1, <1>2, <3>3, <3>9 DEF State
    <3>7. StoreOK'
      BY <1>1, <1>2, <1>3, <1>5, <2>1, <3>3, <3>9, <3>12 DEF StoreOK
    <3> QED
      BY <2>1, <2>5, <3>1, <3>5, <3>6, <3>7 DEF CleanupKept
  <2>6. CASE ~limited
    <3>1. states' = Put(t, n)
      BY <2>1, <2>6
    <3>2. /\ DOMAIN states' = DOMAIN states \cup {t}
          /\ states'[t] = n /\ Hash(t)' = n
          /\ \A u : u # t => Hash(u)' = Hash(u)
          /\ \A u \in DOMAIN states : u # t => states'[u] = states[u]
      BY <3>1, PutHash
    <3>3. Elsewhere(t)
      BY <1>5, <3>2, SameHashKeeps DEF Elsewhere
    <3>4. SlotsKept(t) /\ LifeKept(t)
      BY <1>2, <2>4, <3>2 DEF SlotsKept, LifeKept, h
    <3>5. n.hits <= Rate(t)
      BY <1>1, <2>1, <2>3, <2>4, <2>6
    <3>6. StoreOK'
      BY <1>1, <1>2, <1>3, <1>5, <2>1, <2>4, <3>2, <3>5 DEF StoreOK
    <3>7. /\ Open(t)' /\ (Hash(t).ttl)' >= Ttl
          /\ Open(t) => /\ (Hash(t).start)' = Hash(t).start
                        /\ (Hash(t).hits)' = Hash(t).hits + 1
          /\ ~Open(t) => (Hash(t).start)' = 0 /\ (Hash(t).hits)' = 1
      BY <1>1, <1>2, <1>4, <2>2, <2>4, <3>2 DEF Open, InWindow, h
    <3> QED
      BY <2>1, <2>6, <3>3, <3>4, <3>6, <3>7 DEF CleanupKept
  <2> QED
    BY <2>5, <2>6
<1>6. CASE ~Redis
  <2> DEFINE k == Known(t)
             s == IF InWindow(k) THEN k ELSE [k EXCEPT !.start = 0, !.hits = 0]
             n == IF limited THEN s ELSE [s EXCEPT !.hits = @ + 1]
  <2>1. /\ limited <=> s.hits + 1 > Rate(t)
        /\ states' = Store(t, n) /\ Prune
    BY <1>6 DEF IncrementRate, MemoryRate
  <2>2. /\ k \in State /\ k.hits <= Rate(t) /\ k.concurrent = h.concurrent /\ k.ttl = 0
        /\ t \in DOMAIN states => k = h
        /\ t \notin DOMAIN states => ~Open(t) /\ k = [start |-> 0, hits |-> 0, concurrent |-> 0, ttl |-> 0]
    <3>1. CASE t \in DOMAIN states
      BY <1>1, <1>6, <3>1, HashType DEF Known, h, Hash
    <3>2. CASE t \notin DOMAIN states
      BY <1>1, <1>2, <3>2, HashType DEF Known, h, Fresh, State
    <3> QED
      BY <3>1, <3>2
  <2>3. /\ k.start \in 0..(Window + 1) /\ k.hits \in Nat /\ k.concurrent \in Nat
        /\ k = [start |-> k.start, hits |-> k.hits, concurrent |-> k.concurrent, ttl |-> k.ttl]
    BY <1>2, <2>2, StateType
  <2>4. /\ Open(t) => s = h /\ k = h
        /\ ~Open(t) => s = [start |-> 0, hits |-> 0, concurrent |-> h.concurrent, ttl |-> 0]
    <3>1. t \in DOMAIN states => (Open(t) <=> InWindow(k))
      BY <1>4, <2>2 DEF InWindow
    <3>2. ~InWindow(k) => s = [start |-> 0, hits |-> 0, concurrent |-> h.concurrent, ttl |-> 0]
      BY <2>2, <2>3
    <3> QED
      BY <2>2, <3>1, <3>2
  <2>5. s \in State /\ s.hits \in Nat /\ s.concurrent = h.concurrent /\ s.ttl = 0
    BY <1>1, <1>2, <1>6, <2>2, <2>4, StateType DEF State
  <2>6. /\ n \in State /\ n.start = s.start /\ n.concurrent = h.concurrent /\ n.ttl = 0
        /\ n.hits = IF limited THEN s.hits ELSE s.hits + 1
    BY <2>5 DEF State
  <2> HIDE DEF k, s, n
  <2>7. n.hits <= Rate(t)
    BY <1>1, <2>1, <2>4, <2>5, <2>6
  <2>8. limited => Open(t)
    BY <1>1, <2>1, <2>4
  <2>9. Detached(t) => ~Open(t) /\ cleanup >= Window
    BY <2>4 DEF Detached, Idle, Open, k, h
  <2>10. /\ DOMAIN states' \subseteq DOMAIN states \cup {t}
         /\ cleanup' \in 0..Window /\ CleanupKept
         /\ ~Detached(t) => t \in DOMAIN states' /\ states'[t] = n /\ Hash(t)' = n
         /\ Detached(t) => t \notin DOMAIN states' /\ cleanup' = 0
         /\ \A u \in DOMAIN states' : u # t => u \in DOMAIN states /\ states'[u] = states[u]
         /\ \A u \in DOMAIN states : u # t /\ u \notin DOMAIN states' => Idle(states[u])
    BY <2>1, StoreHash
  <2>11. Elsewhere(t)
    BY <1>6, <2>10, PrunedKeeps DEF Elsewhere
  <2>12. StoreOK'
    BY <1>3, <1>1, <2>6, <2>7, <2>10 DEF StoreOK
  <2>13. LifeKept(t)
    BY <1>6 DEF LifeKept
  <2>14. CASE Detached(t)
    <3>1. Hash(t)' = [start |-> Window + 1, hits |-> 0, concurrent |-> 0, ttl |-> 0]
      BY <1>2, <2>10, <2>14 DEF Hash
    <3>2. h.concurrent = 0
      BY <2>2, <2>14 DEF Detached, Idle, k
    <3>3. SlotsKept(t) /\ ~Open(t)'
      BY <1>2, <3>1, <3>2 DEF SlotsKept, Open, InWindow, h
    <3> QED
      BY <1>6, <2>8, <2>9, <2>10, <2>11, <2>12, <2>13, <2>14, <3>3
  <2>15. CASE ~Detached(t)
    <3>1. Hash(t)' = n
      BY <2>10, <2>15
    <3>2. SlotsKept(t)
      BY <2>6, <3>1 DEF SlotsKept, h
    <3>3. Open(t)' <=> n.start < Window
      BY <3>1 DEF Open, InWindow
    <3>4. limited => WindowKept(t)
      BY <1>4, <2>4, <2>6, <2>8, <3>1, <3>3 DEF WindowKept, h
    <3>5. ~limited => /\ Open(t)'
                      /\ Open(t) => /\ (Hash(t).start)' = Hash(t).start
                                    /\ (Hash(t).hits)' = Hash(t).hits + 1
                      /\ ~Open(t) => (Hash(t).start)' = 0 /\ (Hash(t).hits)' = 1
      BY <1>2, <1>4, <2>4, <2>6, <3>1, <3>3 DEF h
    <3> QED
      BY <1>6, <2>8, <2>10, <2>11, <2>12, <2>13, <3>2, <3>4, <3>5
  <2> QED
    BY <2>14, <2>15
<1> QED
  BY <1>5, <1>6

LEMMA SlotState ==
    ASSUME NEW s \in State, NEW n \in Nat
    PROVE  [s EXCEPT !.concurrent = n]
              = [start |-> s.start, hits |-> s.hits, concurrent |-> n, ttl |-> s.ttl]
BY DEF State

LEMMA TakenState ==
    ASSUME NEW s \in State
    PROVE  [s EXCEPT !.concurrent = @ + 1, !.ttl = Ttl,
                     !.start = IF s.start = Unset THEN 0 ELSE s.start]
              = [start |-> IF s.start = Unset THEN 0 ELSE s.start, hits |-> s.hits,
                 concurrent |-> s.concurrent + 1, ttl |-> Ttl]
<1>1. PICK m \in Nat : m = s.concurrent + 1
  BY DEF State
<1>2. PICK a \in Age : a = IF s.start = Unset THEN 0 ELSE s.start
  <2>1. 0 \in Age /\ s.start \in Age
    BY WindowType DEF State
  <2> QED
    BY <2>1
<1>3. Ttl \in Nat
  BY WindowType
<1> DEFINE n == [s EXCEPT !.concurrent = m, !.ttl = Ttl, !.start = a]
<1>4. [s EXCEPT !.concurrent = @ + 1, !.ttl = Ttl,
                !.start = IF s.start = Unset THEN 0 ELSE s.start] = n
  BY <1>1, <1>2
<1>5. /\ n \in State /\ n.start = a /\ n.hits = s.hits
      /\ n.concurrent = m /\ n.ttl = Ttl
  BY <1>3 DEF State
<1> QED
  BY <1>1, <1>2, <1>4, <1>5, StateType

LEMMA FreedState ==
    ASSUME NEW s \in State
    PROVE  [s EXCEPT !.concurrent = Less(@), !.ttl = Ttl]
              = [start |-> s.start, hits |-> s.hits,
                 concurrent |-> Less(s.concurrent), ttl |-> Ttl]
<1>1. PICK m \in Nat : m = Less(s.concurrent)
  BY DEF State, Less
<1>3. Ttl \in Nat
  BY WindowType
<1> DEFINE n == [s EXCEPT !.concurrent = m, !.ttl = Ttl]
<1>4. [s EXCEPT !.concurrent = Less(@), !.ttl = Ttl] = n
  BY <1>1
<1>5. /\ n \in State /\ n.start = s.start /\ n.hits = s.hits
      /\ n.concurrent = m /\ n.ttl = Ttl
  BY <1>3 DEF State
<1> QED
  BY <1>1, <1>4, <1>5, StateType

\* The slot.  In memory it opens a window where there is none.
LEMMA AcquireScript ==
    ASSUME RequestOK, StoreOK, config' = config,
           NEW t \in Tenant, NEW limited \in BOOLEAN, AcquireConcurrent(t, limited)
    PROVE  /\ StoreOK' /\ CleanupKept /\ Elsewhere(t) /\ LifeKept(t)
           /\ limited => SlotsKept(t)
           /\ ~limited /\ (Redis \/ ~Detached(t)) =>
                (Hash(t).concurrent)' = Hash(t).concurrent + 1
           /\ ~limited /\ Redis => (Hash(t).ttl)' = Ttl
           /\ ~Redis /\ Detached(t) => SlotsKept(t)
           /\ Open(t) => WindowKept(t)
           /\ ~Redis /\ ~Open(t) =>
                \/ t \in DOMAIN states /\ ~Open(t)'
                \/ t \notin DOMAIN states /\ Open(t)' /\ (Hash(t).start)' = 0 /\ (Hash(t).hits)' = 0
<1> DEFINE h == Hash(t)
<1>1. /\ h \in State /\ h.start \in 0..(Window + 1) /\ h.hits \in Nat
      /\ h.concurrent \in Nat /\ h.ttl \in Nat /\ Rate(t) \in Nat /\ Limit(t) \in Nat
      /\ (Rate(t) > 0 => h.hits <= Rate(t)) /\ (Limit(t) > 0 => h.concurrent <= Limit(t))
      /\ (~Redis => h.ttl = 0)
  BY HashType
<1>2. /\ Window \in Nat \ {0} /\ Ttl \in Nat \ {0} /\ Window <= Ttl
      /\ Age = 0..(Window + 1) /\ Unset = Window + 1
  BY WindowType
<1>3. Rate(t)' = Rate(t) /\ Limit(t)' = Limit(t) /\ (Redis' <=> Redis)
      /\ \A u : Rate(u)' = Rate(u) /\ Limit(u)' = Limit(u)
  BY SameConfig
<1>4. Open(t) <=> h.start < Window
  BY DEF Open, InWindow
<1> HIDE DEF h
<1>5. CASE Redis
  <2> DEFINE n == [start |-> IF h.start = Unset THEN 0 ELSE h.start, hits |-> h.hits,
                   concurrent |-> h.concurrent + 1, ttl |-> Ttl]
  <2>1. /\ limited <=> Limit(t) > 0 /\ h.concurrent >= Limit(t)
        /\ states' = IF limited THEN states ELSE Put(t, n)
        /\ cleanup' = cleanup
    BY <1>1, <1>5, TakenState DEF AcquireConcurrent, RedisAcquire, Full, h
  <2>2. /\ n \in State /\ n.hits = h.hits /\ n.concurrent = h.concurrent + 1 /\ n.ttl = Ttl
        /\ Open(t) => n.start = h.start
    BY <1>1, <1>2, <1>4 DEF State
  <2> HIDE DEF n
  <2>3. CASE limited
    <3>1. states' = states
      BY <2>1, <2>3
    <3>2. \A u : Hash(u)' = Hash(u)
      BY <3>1 DEF Hash
    <3>3. \A u \in Tenant : SlotsKept(u) /\ WindowKept(u) /\ LifeKept(u) /\ AbsentKept(u)
      BY <3>1, <3>2, SameHashKeeps
    <3>4. StoreOK'
      BY <1>3, <2>1, <3>1 DEF StoreOK
    <3> QED
      BY <1>5, <2>1, <2>3, <3>3, <3>4 DEF CleanupKept, Elsewhere
  <2>4. CASE ~limited
    <3>1. states' = Put(t, n)
      BY <2>1, <2>4
    <3>2. /\ DOMAIN states' = DOMAIN states \cup {t}
          /\ states'[t] = n /\ Hash(t)' = n
          /\ \A u : u # t => Hash(u)' = Hash(u)
          /\ \A u \in DOMAIN states : u # t => states'[u] = states[u]
      BY <3>1, PutHash
    <3>3. Elsewhere(t)
      BY <1>5, <3>2, SameHashKeeps DEF Elsewhere
    <3>4. Limit(t) > 0 => n.concurrent <= Limit(t)
      BY <1>1, <2>1, <2>2, <2>4
    <3>5. StoreOK'
      BY <1>1, <1>2, <1>3, <1>5, <2>1, <2>2, <3>2, <3>4 DEF StoreOK
    <3>6. /\ (Hash(t).concurrent)' = Hash(t).concurrent + 1 /\ (Hash(t).ttl)' = Ttl
          /\ LifeKept(t)
      BY <1>2, <2>2, <3>2 DEF LifeKept, h
    <3>7. Open(t) => WindowKept(t)
      BY <1>4, <2>2, <3>2 DEF WindowKept, Open, InWindow, h
    <3> QED
      BY <1>5, <2>1, <2>4, <3>3, <3>5, <3>6, <3>7 DEF CleanupKept
  <2> QED
    BY <2>3, <2>4
<1>6. CASE ~Redis
  <2> DEFINE k == Known(t)
             n == IF limited THEN k ELSE [k EXCEPT !.concurrent = @ + 1]
  <2>1. /\ limited <=> Limit(t) > 0 /\ k.concurrent >= Limit(t)
        /\ states' = Store(t, n) /\ Prune
    BY <1>6 DEF AcquireConcurrent, MemoryAcquire, Full
  <2>2. /\ k \in State /\ k.concurrent = h.concurrent /\ k.hits = h.hits /\ k.ttl = 0
        /\ t \in DOMAIN states => k = h
        /\ t \notin DOMAIN states => ~Open(t) /\ k.start = 0 /\ k.hits = 0
    <3>1. CASE t \in DOMAIN states
      BY <1>1, <1>6, <3>1, HashType DEF Known, h, Hash
    <3>2. CASE t \notin DOMAIN states
      BY <1>1, <1>2, <3>2, HashType DEF Known, h, Fresh, State
    <3> QED
      BY <3>1, <3>2
  <2>3. k.start \in 0..(Window + 1) /\ k.hits \in Nat /\ k.concurrent \in Nat
    BY <1>2, <2>2, StateType
  <2>4. /\ n \in State /\ n.start = k.start /\ n.hits = k.hits /\ n.ttl = 0
        /\ n.concurrent = IF limited THEN k.concurrent ELSE k.concurrent + 1
    <3>1. k.concurrent + 1 \in Nat
      BY <2>3
    <3>2. ~limited => n = [start |-> k.start, hits |-> k.hits,
                           concurrent |-> k.concurrent + 1, ttl |-> k.ttl]
      BY <2>2, <3>1, SlotState
    <3> QED
      BY <1>2, <2>2, <2>3, <3>1, <3>2, StateType DEF State
  <2> HIDE DEF k, n
  <2>5. Limit(t) > 0 => n.concurrent <= Limit(t)
    BY <1>1, <2>1, <2>2, <2>3, <2>4
  <2>9. Detached(t) => ~Open(t) /\ h.concurrent = 0 /\ t \in DOMAIN states
    <3>1. Detached(t) => k.concurrent = 0 /\ ~InWindow(k)
      BY DEF Detached, Idle, k
    <3>2. t \notin DOMAIN states => InWindow(k)
      BY <1>2, <2>2 DEF InWindow
    <3>3. t \in DOMAIN states => (InWindow(k) <=> Open(t))
      BY <2>2 DEF Open, h
    <3> QED
      BY <2>2, <3>1, <3>2, <3>3
  <2>10. /\ DOMAIN states' \subseteq DOMAIN states \cup {t}
         /\ cleanup' \in 0..Window /\ CleanupKept
         /\ ~Detached(t) => t \in DOMAIN states' /\ states'[t] = n /\ Hash(t)' = n
         /\ Detached(t) => t \notin DOMAIN states' /\ cleanup' = 0
         /\ \A u \in DOMAIN states' : u # t => u \in DOMAIN states /\ states'[u] = states[u]
         /\ \A u \in DOMAIN states : u # t /\ u \notin DOMAIN states' => Idle(states[u])
    BY <2>1, StoreHash
  <2>11. Elsewhere(t)
    BY <1>6, <2>10, PrunedKeeps DEF Elsewhere
  <2>12. StoreOK'
    <3>1. Rate(t) > 0 => n.hits <= Rate(t)
      BY <1>1, <2>2, <2>4
    <3> QED
      BY <1>3, <1>1, <2>4, <2>5, <2>10, <3>1 DEF StoreOK
  <2>13. LifeKept(t)
    BY <1>6 DEF LifeKept
  <2>14. CASE Detached(t)
    <3>1. Hash(t)' = [start |-> Window + 1, hits |-> 0, concurrent |-> 0, ttl |-> 0]
      BY <1>2, <2>10, <2>14 DEF Hash
    <3>2. SlotsKept(t) /\ ~Open(t)'
      BY <1>2, <2>9, <2>14, <3>1 DEF SlotsKept, Open, InWindow, h
    <3> QED
      BY <1>6, <2>9, <2>10, <2>11, <2>12, <2>13, <2>14, <3>2
  <2>15. CASE ~Detached(t)
    <3>1. Hash(t)' = n
      BY <2>10, <2>15
    <3>2. /\ limited => SlotsKept(t)
          /\ ~limited => (Hash(t).concurrent)' = Hash(t).concurrent + 1
      BY <2>2, <2>4, <3>1 DEF SlotsKept, h
    <3>3. Open(t)' <=> n.start < Window
      BY <3>1 DEF Open, InWindow
    <3>4. Open(t) => WindowKept(t)
      BY <1>4, <2>2, <2>4, <3>1, <3>3 DEF WindowKept, h
    <3>5. ~Open(t) => \/ t \in DOMAIN states /\ ~Open(t)'
                      \/ t \notin DOMAIN states /\ Open(t)'
                           /\ (Hash(t).start)' = 0 /\ (Hash(t).hits)' = 0
      BY <1>2, <1>4, <2>2, <2>4, <3>1, <3>3
    <3> QED
      BY <1>6, <2>10, <2>11, <2>12, <2>13, <2>15, <3>2, <3>4, <3>5
  <2> QED
    BY <2>14, <2>15
<1> QED
  BY <1>5, <1>6

\* A slot given back, if one is taken.
LEMMA ReleaseScript ==
    ASSUME RequestOK, StoreOK, config' = config, NEW t \in Tenant, ReleaseConcurrent(t)
    PROVE  /\ StoreOK' /\ CleanupKept /\ Elsewhere(t)
           /\ WindowKept(t) /\ LifeKept(t) /\ AbsentKept(t)
           /\ (Hash(t).concurrent)' = Less(Hash(t).concurrent)
<1> DEFINE h == Hash(t)
<1>1. /\ h \in State /\ h.start \in 0..(Window + 1) /\ h.hits \in Nat
      /\ h.concurrent \in Nat /\ h.ttl \in Nat /\ Rate(t) \in Nat /\ Limit(t) \in Nat
      /\ (Rate(t) > 0 => h.hits <= Rate(t)) /\ (Limit(t) > 0 => h.concurrent <= Limit(t))
      /\ (~Redis => h.ttl = 0)
  BY HashType
<1>2. /\ Window \in Nat \ {0} /\ Ttl \in Nat \ {0} /\ Window <= Ttl
      /\ Age = 0..(Window + 1) /\ Unset = Window + 1
  BY WindowType
<1>3. Rate(t)' = Rate(t) /\ Limit(t)' = Limit(t) /\ (Redis' <=> Redis)
      /\ \A u : Rate(u)' = Rate(u) /\ Limit(u)' = Limit(u)
  BY SameConfig
<1>4. Open(t) <=> h.start < Window
  BY DEF Open, InWindow
<1>5. Less(h.concurrent) \in Nat /\ Less(h.concurrent) <= h.concurrent
  BY <1>1 DEF Less
<1> HIDE DEF h
<1>6. CASE Redis
  <2> DEFINE n == [start |-> h.start, hits |-> h.hits, concurrent |-> Less(h.concurrent), ttl |-> Ttl]
  <2>1. states' = Put(t, n) /\ cleanup' = cleanup
    BY <1>1, <1>6, FreedState DEF ReleaseConcurrent, RedisRelease, h
  <2>2. /\ n \in State /\ n.start = h.start /\ n.hits = h.hits
        /\ n.concurrent = Less(h.concurrent) /\ n.ttl = Ttl
    BY <1>1, <1>2, <1>5 DEF State
  <2> HIDE DEF n
  <2>3. /\ DOMAIN states' = DOMAIN states \cup {t}
        /\ states'[t] = n /\ Hash(t)' = n
        /\ \A u : u # t => Hash(u)' = Hash(u)
        /\ \A u \in DOMAIN states : u # t => states'[u] = states[u]
    BY <2>1, PutHash
  <2>4. Elsewhere(t)
    BY <1>6, <2>3, SameHashKeeps DEF Elsewhere
  <2>5. StoreOK'
    BY <1>1, <1>2, <1>3, <1>5, <1>6, <2>1, <2>2, <2>3 DEF StoreOK
  <2>6. /\ (Hash(t).concurrent)' = Less(Hash(t).concurrent)
        /\ WindowKept(t) /\ LifeKept(t) /\ AbsentKept(t)
    BY <1>2, <1>6, <2>2, <2>3 DEF WindowKept, LifeKept, AbsentKept, Open, InWindow, h
  <2> QED
    BY <2>1, <2>4, <2>5, <2>6 DEF CleanupKept
<1>7. CASE ~Redis /\ t \notin DOMAIN states
  <2>1. states' = states /\ cleanup' = cleanup
    BY <1>7 DEF ReleaseConcurrent, MemoryRelease
  <2>2. \A u : Hash(u)' = Hash(u)
    BY <2>1 DEF Hash
  <2>3. \A u \in Tenant : SlotsKept(u) /\ WindowKept(u) /\ LifeKept(u) /\ AbsentKept(u)
    BY <2>1, <2>2, SameHashKeeps
  <2>4. StoreOK'
    BY <1>3, <2>1 DEF StoreOK
  <2>5. Hash(t).concurrent = 0
    BY <1>7, HashType
  <2> QED
    BY <2>1, <2>2, <2>3, <2>4, <2>5 DEF CleanupKept, Elsewhere, Less
<1>8. CASE ~Redis /\ t \in DOMAIN states
  <2> DEFINE n == [states[t] EXCEPT !.concurrent = Less(@)]
             put == [states EXCEPT ![t] = n]
             kept == Pruned(put)
  <2>1. /\ states' = [x \in DOMAIN kept \ (IF Idle(n) THEN {t} ELSE {}) |-> kept[x]]
        /\ Prune
    BY <1>8 DEF ReleaseConcurrent, MemoryRelease
  <2>2. h = states[t]
    BY <1>8 DEF Hash, h
  <2>3. n = [start |-> h.start, hits |-> h.hits, concurrent |-> Less(h.concurrent), ttl |-> h.ttl]
    BY <1>1, <1>5, <2>2, SlotState
  <2>4. /\ n \in State /\ n.start = h.start /\ n.hits = h.hits
        /\ n.concurrent = Less(h.concurrent) /\ n.ttl = 0
    BY <1>1, <1>2, <1>5, <1>8, <2>3 DEF State
  <2>5. DOMAIN put = DOMAIN states /\ put[t] = n /\ \A u \in DOMAIN states : u # t => put[u] = states[u]
    BY <1>8
  <2> HIDE DEF n, put
  <2>6. /\ DOMAIN kept \subseteq DOMAIN put
        /\ \A u \in DOMAIN put : u \in DOMAIN kept <=> cleanup < Window \/ ~Idle(put[u])
        /\ \A u \in DOMAIN kept : kept[u] = put[u]
    BY DEF Pruned
  <2> HIDE DEF kept
  <2>7. /\ DOMAIN states' \subseteq DOMAIN kept
        /\ \A u \in DOMAIN kept : u # t => u \in DOMAIN states'
        /\ t \in DOMAIN kept => (t \in DOMAIN states' <=> ~Idle(n))
        /\ \A u \in DOMAIN states' : states'[u] = kept[u]
    BY <2>1
  <2>8. /\ DOMAIN states' \subseteq DOMAIN states
        /\ \A u \in DOMAIN states' : u # t => states'[u] = states[u]
        /\ t \in DOMAIN states' => states'[t] = n
        /\ \A u \in DOMAIN states : u # t /\ u \notin DOMAIN states' => Idle(states[u])
        /\ t \notin DOMAIN states' => Idle(n)
    BY <2>5, <2>6, <2>7, <1>8
  <2>9. cleanup' \in 0..Window /\ CleanupKept
    <3>1. cleanup \in 0..Window
      BY DEF StoreOK
    <3> QED
      BY <1>2, <2>1, <3>1 DEF Prune, CleanupKept
  <2>10. Elsewhere(t)
    <3> SUFFICES ASSUME NEW u \in Tenant \ {t}
                 PROVE  SlotsKept(u) /\ WindowKept(u) /\ LifeKept(u) /\ AbsentKept(u)
      BY DEF Elsewhere
    <3>1. u \in DOMAIN states' => u \in DOMAIN states /\ states'[u] = states[u]
      BY <2>8
    <3>2. u \in DOMAIN states /\ u \notin DOMAIN states' => Idle(states[u])
      BY <2>8
    <3> QED
      BY <1>8, <3>1, <3>2, PrunedKeeps
  <2>11. StoreOK'
    BY <1>1, <1>3, <1>5, <2>4, <2>8, <2>9 DEF StoreOK
  <2>12. CASE t \in DOMAIN states'
    <3>1. Hash(t)' = n
      BY <2>8, <2>12 DEF Hash
    <3> QED
      BY <1>8, <2>4, <2>9, <2>10, <2>11, <3>1
      DEF WindowKept, LifeKept, AbsentKept, Open, InWindow, h
  <2>13. CASE t \notin DOMAIN states'
    <3>1. Hash(t)' = [start |-> Window + 1, hits |-> 0, concurrent |-> 0, ttl |-> 0]
      BY <1>2, <2>13 DEF Hash
    <3>2. ~(n.start < Window) /\ n.concurrent = 0
      BY <2>8, <2>13 DEF Idle, InWindow
    <3>3. ~Open(t) /\ ~Open(t)'
      BY <1>2, <1>4, <2>4, <3>1, <3>2 DEF Open, InWindow
    <3> QED
      BY <1>8, <2>4, <2>9, <2>10, <2>11, <3>1, <3>2, <3>3
      DEF WindowKept, LifeKept, AbsentKept, h
  <2> QED
    BY <2>12, <2>13
<1> QED
  BY <1>6, <1>7, <1>8

\* Time passes: a window grows older and a hash that has lived its life is gone.
TickOfHashes ==
    /\ states' = [t \in {x \in DOMAIN states : states[x].ttl # 1} |->
                    [states[t] EXCEPT !.start = Older(@), !.ttl = Less(@)]]
    /\ cleanup' = Older(cleanup)

LEMMA TickHash ==
    ASSUME RequestOK, StoreOK, config' = config, TickOfHashes, NEW t \in Tenant
    PROVE  /\ Hash(t).ttl = 1 => Redis /\ ~Open(t)' /\ (Hash(t).concurrent)' = 0
           /\ Hash(t).ttl # 1 =>
                /\ SlotsKept(t)
                /\ (Hash(t).ttl)' = Less(Hash(t).ttl)
                /\ Open(t)' <=> Hash(t).start + 1 < Window
                /\ Open(t) => (Hash(t).start)' = Hash(t).start + 1 /\ (Hash(t).hits)' = Hash(t).hits
           /\ t \notin DOMAIN states => t \notin DOMAIN states'
<1>1. /\ Hash(t) \in State /\ Hash(t).start \in 0..(Window + 1)
      /\ (~Redis => Hash(t).ttl = 0) /\ (t \in DOMAIN states => Hash(t) = states[t])
  BY HashType
<1>2. Window \in Nat \ {0} /\ Unset = Window + 1 /\ Age = 0..(Window + 1)
  BY WindowType
<1>3. CASE t \in DOMAIN states'
  <2>1. t \in DOMAIN states /\ Hash(t).ttl # 1
    BY <1>1, <1>3 DEF TickOfHashes
  <2>2. Hash(t)' = [Hash(t) EXCEPT !.start = Older(@), !.ttl = Less(@)]
    BY <1>1, <1>3, <2>1 DEF TickOfHashes, Hash
  <2>3. PICK a \in Age : a = Older(Hash(t).start)
    BY <1>1, <1>2 DEF Older
  <2>4. PICK x \in Nat : x = Less(Hash(t).ttl)
    BY <1>1 DEF Less, State
  <2>5. Hash(t)' = [Hash(t) EXCEPT !.start = a, !.ttl = x]
    BY <2>2, <2>3, <2>4
  <2>6. /\ (Hash(t).start)' = a /\ (Hash(t).ttl)' = x
        /\ (Hash(t).hits)' = Hash(t).hits /\ (Hash(t).concurrent)' = Hash(t).concurrent
    BY <1>1, <2>5 DEF State
  <2>7. Open(t)' <=> a < Window
    BY <2>6 DEF Open, InWindow
  <2>8. (Open(t)' <=> Hash(t).start + 1 < Window) /\ (Open(t) => a = Hash(t).start + 1)
    BY <1>1, <1>2, <2>3, <2>7 DEF Older, Open, InWindow
  <2> QED
    BY <2>1, <2>4, <2>6, <2>8 DEF SlotsKept
<1>4. CASE t \notin DOMAIN states'
  <2>1. Hash(t)' = [start |-> Window + 1, hits |-> 0, concurrent |-> 0, ttl |-> 0]
    BY <1>2, <1>4 DEF Hash
  <2>2. ~Open(t)' /\ (Hash(t).concurrent)' = 0 /\ (Hash(t).ttl)' = 0
    BY <1>2, <2>1 DEF Open, InWindow
  <2>3. CASE t \in DOMAIN states
    <3>1. Hash(t).ttl = 1
      BY <1>1, <1>4, <2>3 DEF TickOfHashes
    <3> QED
      BY <1>1, <2>2, <2>3, <3>1
  <2>4. CASE t \notin DOMAIN states
    <3>1. Hash(t) = [start |-> Window + 1, hits |-> 0, concurrent |-> 0, ttl |-> 0]
      BY <1>2, <2>4 DEF Hash
    <3> QED
      BY <1>2, <2>2, <2>4, <3>1, <1>4 DEF SlotsKept, Less, Open, InWindow
  <2> QED
    BY <2>3, <2>4
<1> QED
  BY <1>3, <1>4

LEMMA TickStore ==
    ASSUME RequestOK, StoreOK, config' = config, TickOfHashes
    PROVE  StoreOK'
<1>1. Window \in Nat \ {0} /\ Unset = Window + 1 /\ Age = 0..(Window + 1)
  BY WindowType
<1>2. cleanup' \in 0..Window
  <2>1. cleanup \in 0..Window
    BY DEF StoreOK
  <2>2. cleanup' = Older(cleanup)
    BY DEF TickOfHashes
  <2> QED
    BY <1>1, <2>1, <2>2 DEF Older
<1>3. \A t \in Tenant : Rate(t)' = Rate(t) /\ Limit(t)' = Limit(t)
      /\ (Redis' <=> Redis)
  BY SameConfig
<1>4. ASSUME NEW t \in DOMAIN states'
      PROVE  /\ t \in DOMAIN states
             /\ states'[t] \in State /\ states'[t].hits = states[t].hits
             /\ states'[t].concurrent = states[t].concurrent
             /\ ~Redis => states'[t].ttl = 0
  <2>1. t \in DOMAIN states /\ states[t] \in State /\ (~Redis => states[t].ttl = 0)
    BY <1>4 DEF TickOfHashes, StoreOK
  <2>2. states'[t] = [states[t] EXCEPT !.start = Older(@), !.ttl = Less(@)]
    BY <1>4 DEF TickOfHashes
  <2>3. PICK a \in Age : a = Older(states[t].start)
    BY <1>1, <2>1 DEF Older, State
  <2>4. PICK x \in Nat : x = Less(states[t].ttl)
    BY <2>1 DEF Less, State
  <2>5. states'[t] = [states[t] EXCEPT !.start = a, !.ttl = x]
    BY <2>2, <2>3, <2>4
  <2>6. /\ states'[t] \in State /\ states'[t].hits = states[t].hits
        /\ states'[t].concurrent = states[t].concurrent /\ states'[t].ttl = x
    BY <2>1, <2>5 DEF State
  <2> QED
    BY <2>1, <2>4, <2>6 DEF Less
<1> QED
  BY <1>2, <1>3, <1>4 DEF StoreOK

\* A renewal gives a hash with slots its whole life back.
LEMMA RenewedHash ==
    ASSUME RequestOK, StoreOK, config' = config, Redis, NEW t \in Tenant,
           states' = IF Hash(t).concurrent > 0 THEN [states EXCEPT ![t].ttl = Ttl] ELSE states,
           cleanup' = cleanup
    PROVE  /\ StoreOK'
           /\ \A u \in Tenant : SlotsKept(u) /\ WindowKept(u) /\ LifeKept(u) /\ AbsentKept(u)
           /\ Hash(t).concurrent > 0 => (Hash(t).ttl)' = Ttl
<1>1. /\ Hash(t) \in State /\ Hash(t).start \in 0..(Window + 1)
      /\ (t \in DOMAIN states => Hash(t) = states[t])
      /\ (t \notin DOMAIN states => Hash(t).concurrent = 0)
  BY HashType
<1>2. Ttl \in Nat
  BY WindowType
<1>3. /\ Redis' <=> Redis
      /\ \A u : Rate(u)' = Rate(u) /\ Limit(u)' = Limit(u)
  BY SameConfig
<1>4. CASE Hash(t).concurrent > 0
  <2>1. t \in DOMAIN states /\ states[t] \in State
    BY <1>1, <1>4
  <2>2. [states[t] EXCEPT !.ttl = Ttl]
          = [start |-> states[t].start, hits |-> states[t].hits,
             concurrent |-> states[t].concurrent, ttl |-> Ttl]
    BY <2>1, LiveState
  <2>3. /\ DOMAIN states' = DOMAIN states
        /\ states'[t] = [states[t] EXCEPT !.ttl = Ttl]
        /\ \A u \in DOMAIN states : u # t => states'[u] = states[u]
    BY <1>4, <2>1
  <2>4. StoreOK'
    BY <1>2, <1>3, <2>1, <2>2, <2>3 DEF StoreOK, State
  <2>5. Hash(t)' = states'[t] /\ \A u : u # t => Hash(u)' = Hash(u)
    BY <2>1, <2>3 DEF Hash
  <2>6. SlotsKept(t) /\ WindowKept(t) /\ LifeKept(t) /\ AbsentKept(t) /\ (Hash(t).ttl)' = Ttl
    BY <1>1, <1>2, <2>1, <2>2, <2>3, <2>5
    DEF SlotsKept, WindowKept, LifeKept, AbsentKept, Open, InWindow
  <2> QED
    BY <2>3, <2>4, <2>5, <2>6, SameHashKeeps
<1>5. CASE ~(Hash(t).concurrent > 0)
  <2>1. states' = states
    BY <1>5
  <2>2. \A u : Hash(u)' = Hash(u)
    BY <2>1 DEF Hash
  <2>3. StoreOK'
    BY <1>3, <2>1 DEF StoreOK
  <2> QED
    BY <1>5, <2>1, <2>2, <2>3, SameHashKeeps
<1> QED
  BY <1>4, <1>5

\* A step without a script.
LEMMA QuietStore ==
    ASSUME RequestOK, StoreOK, config' = config, states' = states, cleanup' = cleanup
    PROVE  /\ StoreOK'
           /\ \A u \in Tenant : SlotsKept(u) /\ WindowKept(u) /\ LifeKept(u) /\ AbsentKept(u)
           /\ \A u \in Tenant : Hash(u)' = Hash(u)
<1>1. \A u : Hash(u)' = Hash(u)
  BY DEF Hash
<1>2. StoreOK'
  BY SameConfig DEF StoreOK
<1> QED
  BY <1>1, <1>2, SameHashKeeps

-----------------------------------------------------------------------------
(* BaseInv.                                                                *)

LEMMA BaseInit == Init => BaseInv
<1> SUFFICES ASSUME Init PROVE BaseInv
  OBVIOUS
<1>1. LeaseInterval \in Nat /\ Window \in Nat \ {0} /\ Unset = Window + 1 /\ Age = 0..(Window + 1)
      /\ LeaseLimit \in Nat
  BY LeaseIntervalType, WindowType, LimitAssumption
<1>2. config \in Configs
  BY DEF Init
<1>3. RequestOK
  <2>1. \A r \in Req : /\ pc[r] = "new" /\ releasing[r] = 0 /\ gave[r] = 0 /\ took[r] = 0
    BY DEF Init
  <2>2. RequestInv
    BY <2>1 DEF Init, RequestInv
  <2>3. accepted \in [Req -> Age] /\ pc \in [Req -> Checking \cup {"new", "active", "over"}]
    BY <1>1 DEF Init
  <2>4. releasing \in [Req -> 0..1] /\ took \in [Req -> 0..1] /\ gave \in [Req -> 0..2]
    BY DEF Init
  <2> QED
    BY <1>2, <2>2, <2>3, <2>4 DEF Init, RequestOK
<1>4. StoreOK
  BY <1>1 DEF Init, StoreOK
<1>5. LeaseOK
  <2>1. leases \in [Instance -> [Tenant -> [count : Nat, due : 0..LeaseInterval]]]
    BY <1>1 DEF Init
  <2>2. \A i \in Instance : Timers(i) = {}
    BY DEF Init, Timers
  <2>3. \A i \in Instance : Cardinality(Timers(i)) = 0
    BY <2>2, FS_EmptySet
  <2>4. \A i \in Instance, t \in Tenant : leases[i][t].count = 0
    BY DEF Init
  <2> QED
    BY <1>1, <2>1, <2>3, <2>4 DEF LeaseOK
<1> QED
  BY <1>3, <1>4, <1>5, BaseParts

\* A change of the leases of one tenant on one instance.
LEMMA TimersShrink ==
    ASSUME LeaseOK, NEW i \in Instance, Timers(i)' \subseteq Timers(i)
    PROVE  Cardinality(Timers(i)') <= LeaseLimit
<1>1. IsFiniteSet(Timers(i))
  BY SetsAssumption, FS_Subset DEF Timers
<1>2. IsFiniteSet(Timers(i)') /\ Cardinality(Timers(i)') <= Cardinality(Timers(i))
  BY <1>1, FS_Subset
<1>3. Cardinality(Timers(i)') \in Nat /\ Cardinality(Timers(i)) \in Nat
  BY <1>1, <1>2, FS_CardinalityType
<1> QED
  BY <1>2, <1>3, LimitAssumption DEF LeaseOK

LEMMA SameLeases ==
    ASSUME LeaseOK, config' = config, leases' = leases
    PROVE  LeaseOK'
<1>1. \A i : Timers(i)' = Timers(i)
  BY DEF Timers
<1> QED
  BY <1>1, SameConfig DEF LeaseOK

LEMMA DroppedLease ==
    ASSUME RequestOK, LeaseOK, config' = config, NEW i \in Instance, NEW t \in Tenant, DropLease(i, t)
    PROVE  /\ LeaseOK'
           /\ \A j \in Instance, u \in Tenant : j # i \/ u # t => leases'[j][u] = leases[j][u]
           /\ leases'[i][t].count = Less(leases[i][t].count)
           /\ leases'[i][t].count > 0 => leases'[i][t].due = leases[i][t].due
<1>1. leases \in [Instance -> [Tenant -> [count : Nat, due : 0..LeaseInterval]]]
  BY DEF LeaseOK
<1>2. LeaseInterval \in Nat
  BY LeaseIntervalType
<1>3. leases[i][t].count \in Nat /\ leases[i][t].due \in 0..LeaseInterval
  BY <1>1
<1>4. ~Redis => leases[i][t].count = 0
  BY DEF LeaseOK
<1>5. PICK n \in Nat : n = Less(leases[i][t].count)
  BY <1>3 DEF Less
<1>6. /\ leases' \in [Instance -> [Tenant -> [count : Nat, due : 0..LeaseInterval]]]
      /\ \A j \in Instance, u \in Tenant : j # i \/ u # t => leases'[j][u] = leases[j][u]
      /\ leases'[i][t].count = n
      /\ n > 0 => leases'[i][t].due = leases[i][t].due
  <2>1. CASE leases[i][t].count = 0
    BY <1>1, <1>5, <2>1 DEF DropLease, Less
  <2>2. CASE leases[i][t].count = 1
    <3>1. leases' = [leases EXCEPT ![i][t] = [count |-> 0, due |-> 0]]
      BY <1>4, <2>2 DEF DropLease
    <3>2. n = 0 /\ 0 \in 0..LeaseInterval
      BY <1>2, <1>5, <2>2 DEF Less
    <3> QED
      BY <1>1, <3>1, <3>2
  <2>3. CASE leases[i][t].count # 0 /\ leases[i][t].count # 1
    <3>1. leases' = [leases EXCEPT ![i][t].count = @ - 1]
      BY <1>4, <2>3 DEF DropLease
    <3>2. n = leases[i][t].count - 1
      BY <1>3, <1>5, <2>3 DEF Less
    <3>3. leases' = [leases EXCEPT ![i][t].count = n]
      BY <3>1, <3>2
    <3> QED
      BY <1>1, <3>3
  <2> QED
    BY <2>1, <2>2, <2>3
<1>7. \A j \in Instance, u \in Tenant : leases'[j][u].count > 0 => leases[j][u].count > 0
  <2>1. n > 0 => leases[i][t].count > 0
    BY <1>3, <1>5 DEF Less
  <2> QED
    BY <1>6, <2>1
<1>8. \A j \in Instance : Timers(j)' \subseteq Timers(j)
  BY <1>7 DEF Timers
<1>9. \A j \in Instance : Cardinality(Timers(j)') <= LeaseLimit
  BY <1>8, TimersShrink
<1>10. Redis' <=> Redis
  BY SameConfig
<1>11. \A j \in Instance, u \in Tenant : ~Redis => leases'[j][u].count = 0
  BY DEF DropLease, LeaseOK
<1>12. \A j \in Instance : (Cardinality(Timers(j)))' <= LeaseLimit
  BY <1>9
<1> QED
  BY <1>5, <1>6, <1>10, <1>11, <1>12 DEF LeaseOK

\* Where a step leaves a request.
LEMMA SameRequests ==
    ASSUME RequestOK, UNCHANGED <<config, pc, closed, released, releasing, crashed, history>>
    PROVE  RequestOK'
BY DEF RequestOK, RequestInv, history, Redis, Rate, T

LEMMA BeginRequest ==
    ASSUME RequestOK, NEW r \in Req, BeginCheck(r)
    PROVE  RequestOK'
BY ConfigType DEF RequestOK, RequestInv, BeginCheck, Goto, history, Redis, Rate, T, Checking

LEMMA HitRequest ==
    ASSUME RequestOK, NEW r \in Req, CountHit(r)
    PROVE  RequestOK'
<1>1. 0 \in Age
  BY WindowType
<1>2. pc[r] = "rate" /\ UNCHANGED <<config, closed, crashed, took, gave, failed>>
  BY DEF CountHit
<1>3. \/ Refuse(r) /\ accepted' = accepted
      \/ /\ Goto(r, "acquire")
         /\ accepted' = [accepted EXCEPT ![r] = 0]
         /\ UNCHANGED <<released, releasing>>
  BY DEF CountHit
<1> QED
  BY <1>1, <1>2, <1>3 DEF RequestOK, RequestInv, Refuse, Release, Goto, Redis, Rate, T, Checking

LEMMA SlotRequest ==
    ASSUME RequestOK, NEW r \in Req, TakeSlot(r)
    PROVE  RequestOK'
<1>2. pc[r] = "acquire" /\ UNCHANGED <<config, closed, crashed, gave, accepted, failed>>
  BY DEF TakeSlot
<1>3. \/ Refuse(r) /\ took' = took
      \/ /\ Goto(r, "acquired") /\ Counted(r)
         /\ UNCHANGED <<released, releasing>>
  BY DEF TakeSlot
<1>4. CASE Refuse(r) /\ took' = took
  BY <1>2, <1>4 DEF RequestOK, RequestInv, Refuse, Release, Goto, Redis, Rate, T, Checking
<1>5. CASE Goto(r, "acquired") /\ Counted(r) /\ UNCHANGED <<released, releasing>>
  BY <1>2, <1>5 DEF RequestOK, RequestInv, Counted, Goto, Redis, Rate, T, Checking
<1> QED
  BY <1>3, <1>4, <1>5

LEMMA AdmitRequest ==
    ASSUME RequestOK, NEW r \in Req, pc[r] = "acquired", Goto(r, "active"),
           UNCHANGED <<config, closed, released, releasing, crashed, history>>
    PROVE  RequestOK'
BY DEF RequestOK, RequestInv, Goto, history, Redis, Rate, T, Checking

LEMMA ExhaustedRequest ==
    ASSUME RequestOK, NEW r \in Req, LeasesExhausted(r)
    PROVE  RequestOK'
BY DEF RequestOK, RequestInv, LeasesExhausted, Admitted, Goto, history, Redis, Rate, T, Checking

LEMMA BackOutRequest ==
    ASSUME RequestOK, NEW r \in Req, BackOut(r)
    PROVE  RequestOK'
BY DEF RequestOK, RequestInv, BackOut, Refuse, Release, Goto, Redis, Rate, T, Checking

LEMMA ReleaseRequest ==
    ASSUME RequestOK, NEW r \in Req, ReleaseTenant(r)
    PROVE  RequestOK'
BY DEF RequestOK, RequestInv, ReleaseTenant, Redis, Rate, T, Checking

LEMMA FinishRequest ==
    ASSUME RequestOK, NEW r \in Req, Finish(r)
    PROVE  RequestOK'
BY DEF RequestOK, RequestInv, Finish, Release, Goto, history, Redis, Rate, T, Checking

LEMMA CloseRequest ==
    ASSUME RequestOK, NEW r \in Req, Close(r)
    PROVE  RequestOK'
BY DEF RequestOK, RequestInv, Close, Release, Goto, history, Redis, Rate, T, Checking

LEMMA TickRequest ==
    ASSUME RequestOK, Tick
    PROVE  RequestOK'
<1>1. \A a \in Age : Older(a) \in Age
  BY WindowType DEF Older
<1> QED
  BY <1>1 DEF RequestOK, RequestInv, Tick, Redis, Rate, T

LEMMA CheckFailsRequest ==
    ASSUME RequestOK, NEW r \in Req, CheckFails(r)
    PROVE  RequestOK'
<1>1. 0 \in Age
  BY WindowType
<1>2. /\ Redis /\ pc[r] \in {"rate", "acquire"} /\ Refuse(r)
      /\ failed' = failed \cup {r} /\ UNCHANGED <<config, closed, crashed, gave>>
  BY DEF CheckFails, ClientFails
<1>3. \/ UNCHANGED <<took, accepted>>
      \/ accepted' = [accepted EXCEPT ![r] = 0] /\ took' = took
      \/ Counted(r) /\ accepted' = accepted
  BY DEF CheckFails
<1>4. took' \in [Req -> 0..1] /\ accepted' \in [Req -> Age]
      /\ \A q \in Req : q # r => took'[q] = took[q]
  BY <1>1, <1>3 DEF Counted, RequestOK
<1>5. gave[r] + releasing[r] <= 1 /\ (r \notin released => releasing[r] = 0 /\ gave[r] = 0)
  BY <1>2 DEF RequestOK, RequestInv
<1>6. /\ pc' = [pc EXCEPT ![r] = "over"]
      /\ released' = released \cup {r}
      /\ releasing' = [releasing EXCEPT ![r] = IF r \in released THEN releasing[r] ELSE 1]
  BY <1>2, <1>5 DEF Refuse, Release, Goto, RequestOK
<1> QED
  BY <1>2, <1>4, <1>5, <1>6 DEF RequestOK, RequestInv, Redis, Rate, T, Checking

LEMMA BackOutFailsRequest ==
    ASSUME RequestOK, NEW r \in Req, BackOutFails(r)
    PROVE  RequestOK'
<1>1. /\ Redis /\ pc[r] = "backout" /\ Refuse(r) /\ failed' = failed \cup {r}
      /\ gave' = gave \/ gave' = [gave EXCEPT ![r] = @ + 1]
      /\ UNCHANGED <<config, closed, crashed, took, accepted>>
  BY DEF BackOutFails, ClientFails
<1>2. /\ gave[r] \in 0..2 /\ gave[r] + releasing[r] <= 1
      /\ r \notin released => releasing[r] = 0 /\ gave[r] = 0
  BY <1>1 DEF RequestOK, RequestInv
<1>3. /\ pc' = [pc EXCEPT ![r] = "over"]
      /\ released' = released \cup {r}
      /\ releasing' = [releasing EXCEPT ![r] = IF r \in released THEN releasing[r] ELSE 1]
  BY <1>1, <1>2 DEF Refuse, Release, Goto, RequestOK
<1> QED
  BY <1>1, <1>2, <1>3 DEF RequestOK, RequestInv, Redis, Rate, T, Checking

LEMMA ReleaseFailsRequest ==
    ASSUME RequestOK, NEW r \in Req, ReleaseFails(r)
    PROVE  RequestOK'
BY DEF RequestOK, RequestInv, ReleaseFails, ClientFails, Redis, Rate, T, Checking

LEMMA CrashRequest ==
    ASSUME RequestOK, NEW i \in Instance, Crash(i)
    PROVE  RequestOK'
<1> DEFINE lost == {r \in Req : At(r) = i /\ pc[r] # "new"}
<1>1. /\ pc' = [r \in Req |-> IF r \in lost THEN "over" ELSE pc[r]]
      /\ closed' = closed \ lost /\ released' = released \cup lost
      /\ releasing' = [r \in Req |-> IF r \in lost THEN 0 ELSE releasing[r]]
      /\ crashed' = crashed \cup {i}
      /\ UNCHANGED <<config, history>>
  BY DEF Crash
<1>2. \A r \in lost : pc[r] # "new"
  OBVIOUS
<1>3. lost \subseteq Req
  OBVIOUS
<1> HIDE DEF lost
<1> QED
  BY <1>1, <1>2, <1>3 DEF RequestOK, RequestInv, history, Redis, Rate, T, Checking

\* The admissions: a lease shared or begun.
LEMMA AdmittedLease ==
    ASSUME RequestOK, LeaseOK, NEW r \in Req, ShareLease(r) \/ StartLease(r)
    PROVE  /\ LeaseOK' /\ Redis
           /\ \A j \in Instance, u \in Tenant :
                j # At(r) \/ u # T(r) => leases'[j][u] = leases[j][u]
           /\ leases'[At(r)][T(r)].count = leases[At(r)][T(r)].count + 1
           /\ \/ leases[At(r)][T(r)].count > 0 /\ leases'[At(r)][T(r)].due = leases[At(r)][T(r)].due
              \/ leases[At(r)][T(r)].count = 0 /\ leases'[At(r)][T(r)].due = LeaseInterval
<1> DEFINE i == At(r)
           t == T(r)
<1>1. i \in Instance /\ t \in Tenant
  BY ConfigType DEF RequestOK
<1>2. leases \in [Instance -> [Tenant -> [count : Nat, due : 0..LeaseInterval]]]
  BY DEF LeaseOK
<1>3. LeaseInterval \in Nat /\ LeaseInterval \in 0..LeaseInterval
  BY LeaseIntervalType
<1>4. config' = config /\ Redis
  BY DEF ShareLease, StartLease
<1> HIDE DEF i, t
<1>5. leases[i][t].count \in Nat /\ leases[i][t].due \in 0..LeaseInterval
  BY <1>1, <1>2
<1>6. PICK n \in Nat : n = leases[i][t].count + 1
  BY <1>5
<1>7. CASE ShareLease(r)
  <2>1. t \in Timers(i) /\ leases' = [leases EXCEPT ![i][t].count = n]
    BY <1>6, <1>7 DEF ShareLease, i, t
  <2>2. /\ leases' \in [Instance -> [Tenant -> [count : Nat, due : 0..LeaseInterval]]]
        /\ \A j \in Instance, u \in Tenant : j # i \/ u # t => leases'[j][u] = leases[j][u]
        /\ leases'[i][t].count = n /\ leases'[i][t].due = leases[i][t].due
    BY <1>1, <1>2, <2>1
  <2>3. \A j \in Instance : Timers(j)' \subseteq Timers(j)
    BY <2>1, <2>2 DEF Timers
  <2>4. \A j \in Instance : (Cardinality(Timers(j)))' <= LeaseLimit
    BY <2>3, TimersShrink
  <2>5. leases[i][t].count > 0
    BY <2>1 DEF Timers
  <2> QED
    BY <1>4, <1>6, <2>2, <2>4, <2>5, SameConfig DEF LeaseOK, i, t
<1>8. CASE StartLease(r)
  <2>1. /\ t \notin Timers(i) /\ Cardinality(Timers(i)) < LeaseLimit
        /\ leases' = [leases EXCEPT ![i][t] = [count |-> 1, due |-> LeaseInterval]]
    BY <1>8 DEF StartLease, i, t
  <2>2. /\ leases' \in [Instance -> [Tenant -> [count : Nat, due : 0..LeaseInterval]]]
        /\ \A j \in Instance, u \in Tenant : j # i \/ u # t => leases'[j][u] = leases[j][u]
        /\ leases'[i][t].count = 1 /\ leases'[i][t].due = LeaseInterval
    BY <1>1, <1>2, <1>3, <2>1
  <2>3. leases[i][t].count = 0
    BY <1>1, <1>5, <2>1 DEF Timers
  <2>4. \A j \in Instance : j # i => (Timers(j))' = Timers(j)
    BY <2>2 DEF Timers
  <2>5. \A j \in Instance : j = i => (Timers(j))' = Timers(i) \cup {t}
    <3>1. \A u \in Tenant : leases'[i][u].count > 0 <=> leases[i][u].count > 0 \/ u = t
      BY <1>1, <2>2, <2>3
    <3> QED
      BY <1>1, <3>1 DEF Timers
  <2>6. IsFiniteSet(Timers(i))
    BY SetsAssumption, FS_Subset DEF Timers
  <2>7. Cardinality(Timers(i) \cup {t}) = Cardinality(Timers(i)) + 1
        /\ Cardinality(Timers(i)) \in Nat
    BY <2>1, <2>6, FS_AddElement, FS_CardinalityType
  <2>8. \A j \in Instance : (Cardinality(Timers(j)))' <= LeaseLimit
    <3> SUFFICES ASSUME NEW j \in Instance PROVE (Cardinality(Timers(j)))' <= LeaseLimit
      OBVIOUS
    <3>1. CASE j = i
      <4>1. (Timers(j))' = Timers(i) \cup {t}
        BY <2>5, <3>1
      <4> QED
        BY <2>1, <2>7, <4>1, LimitAssumption
    <3>2. CASE j # i
      BY <2>4, <3>2 DEF LeaseOK
    <3> QED
      BY <3>1, <3>2
  <2>9. n = 1
    BY <1>6, <2>3
  <2> QED
    BY <1>4, <1>6, <2>2, <2>3, <2>8, <2>9, SameConfig DEF LeaseOK, i, t
<1> QED
  BY <1>7, <1>8

\* What a failing command did to the store before it failed.
LEMMA FailedScript ==
    ASSUME RequestOK, StoreOK, NEW r \in Req, CheckFails(r)
    PROVE  \/ states' = states /\ UNCHANGED <<took, accepted>>
           \/ /\ IncrementRate(T(r), FALSE) /\ Rate(T(r)) > 0 /\ pc[r] = "rate"
              /\ accepted' = [accepted EXCEPT ![r] = 0] /\ took' = took
           \/ /\ IncrementRate(T(r), TRUE) /\ Rate(T(r)) > 0 /\ pc[r] = "rate"
              /\ accepted' = accepted /\ took' = took
           \/ /\ AcquireConcurrent(T(r), FALSE) /\ pc[r] = "acquire"
              /\ accepted' = accepted /\ took' = [took EXCEPT ![r] = 1]
<1>1. Redis
  BY DEF CheckFails, ClientFails
<1>2. CASE UNCHANGED <<states, took, accepted>>
  BY <1>2
<1>3. ASSUME pc[r] = "rate", took' = took, NEW limited \in BOOLEAN, RedisRate(T(r), limited),
             accepted' = IF limited THEN accepted ELSE [accepted EXCEPT ![r] = 0]
      PROVE  \/ /\ IncrementRate(T(r), FALSE) /\ Rate(T(r)) > 0 /\ pc[r] = "rate"
                /\ accepted' = [accepted EXCEPT ![r] = 0] /\ took' = took
             \/ /\ IncrementRate(T(r), TRUE) /\ Rate(T(r)) > 0 /\ pc[r] = "rate"
                /\ accepted' = accepted /\ took' = took
  <2>1. Rate(T(r)) > 0
    BY <1>3 DEF RequestOK, RequestInv
  <2>2. IncrementRate(T(r), limited)
    BY Zenon, <1>1, <1>3 DEF IncrementRate
  <2>3. CASE limited = TRUE
    BY Zenon, <1>3, <2>1, <2>2, <2>3
  <2>4. CASE limited = FALSE
    BY Zenon, <1>3, <2>1, <2>2, <2>4
  <2> QED
    BY <2>3, <2>4
<1>4. CASE /\ pc[r] = "acquire" /\ RedisAcquire(T(r), FALSE) /\ Counted(r)
           /\ UNCHANGED accepted
  BY <1>1, <1>4 DEF AcquireConcurrent, Counted
<1> QED
  BY <1>2, <1>3, <1>4 DEF CheckFails

LEMMA BaseNext == BaseInv /\ [Next]_vars => BaseInv'
<1> SUFFICES ASSUME RequestOK, StoreOK, LeaseOK, [Next]_vars PROVE BaseInv'
  BY BaseParts
<1>0. RequestOK' /\ StoreOK' /\ LeaseOK' => BaseInv'
  BY Zenon DEF BaseInv, TypeOK, MemoryInv, RequestOK, StoreOK, LeaseOK
<1>1. \A r \in Req : T(r) \in Tenant /\ At(r) \in Instance
  BY ConfigType DEF RequestOK
<1>2. CASE Tick
  <2>1. config' = config /\ TickOfHashes
    BY <1>2 DEF Tick, TickOfHashes
  <2>2. leases' = [i \in Instance |-> [t \in Tenant |-> [leases[i][t] EXCEPT !.due = Less(@)]]]
    BY <1>2 DEF Tick
  <2>3. leases \in [Instance -> [Tenant -> [count : Nat, due : 0..LeaseInterval]]]
    BY DEF LeaseOK
  <2>4. \A d \in 0..LeaseInterval : Less(d) \in 0..LeaseInterval
    BY LeaseIntervalType DEF Less
  <2>5. \A i \in Instance, t \in Tenant :
            /\ leases'[i][t] \in [count : Nat, due : 0..LeaseInterval]
            /\ leases'[i][t].count = leases[i][t].count
    BY <2>2, <2>3, <2>4
  <2>6. leases' \in [Instance -> [Tenant -> [count : Nat, due : 0..LeaseInterval]]]
    BY <2>2, <2>5
  <2>7. \A i \in Instance : (Timers(i))' = Timers(i)
    BY <2>5 DEF Timers
  <2>8. LeaseOK'
    BY <2>1, <2>5, <2>6, <2>7, SameConfig DEF LeaseOK
  <2> QED
    BY <1>0, <1>2, <2>1, <2>8, TickRequest, TickStore
<1>3. ASSUME NEW i \in Instance, Crash(i) PROVE BaseInv'
  <2>1. /\ config' = config /\ cleanup' = Window
        /\ leases' = [leases EXCEPT ![i] = [t \in Tenant |-> [count |-> 0, due |-> 0]]]
        /\ states' = IF Redis THEN states ELSE [t \in {} |-> Fresh]
    BY <1>3 DEF Crash
  <2>2. StoreOK'
    <3>1. Window \in 0..Window
      BY WindowType
    <3> QED
      BY <2>1, <3>1, SameConfig DEF StoreOK
  <2>3. leases' \in [Instance -> [Tenant -> [count : Nat, due : 0..LeaseInterval]]]
    BY <2>1, LeaseIntervalType DEF LeaseOK
  <2>4. /\ \A t \in Tenant : leases'[i][t].count = 0
        /\ \A j \in Instance : j # i => leases'[j] = leases[j]
    BY <2>1 DEF LeaseOK
  <2>5. \A j \in Instance : Timers(j)' \subseteq Timers(j)
    BY <2>4 DEF Timers
  <2>6. \A j \in Instance : (Cardinality(Timers(j)))' <= LeaseLimit
    BY <2>5, TimersShrink
  <2>7. LeaseOK'
    BY <2>1, <2>3, <2>4, <2>6, SameConfig DEF LeaseOK
  <2> QED
    BY <1>0, <1>3, <2>2, <2>7, CrashRequest
<1>4. ASSUME NEW i \in Instance, NEW t \in Tenant, RenewLease(i, t) PROVE BaseInv'
  <2>1. /\ leases[i][t].count > 0 /\ leases' = [leases EXCEPT ![i][t].due = LeaseInterval]
        /\ states' = IF Hash(t).concurrent > 0 THEN [states EXCEPT ![t].ttl = Ttl] ELSE states
        /\ UNCHANGED <<config, pc, closed, released, releasing, cleanup, crashed, history>>
    BY <1>4 DEF RenewLease
  <2>2. Redis
    BY <2>1, LeaseIntervalType DEF LeaseOK
  <2>3. StoreOK'
    BY <2>1, <2>2, RenewedHash
  <2>4. /\ leases' \in [Instance -> [Tenant -> [count : Nat, due : 0..LeaseInterval]]]
        /\ \A j \in Instance, u \in Tenant : leases'[j][u].count = leases[j][u].count
    BY <2>1, LeaseIntervalType DEF LeaseOK
  <2>5. \A j \in Instance : (Timers(j))' = Timers(j)
    BY <2>4 DEF Timers
  <2>6. LeaseOK'
    BY <2>1, <2>2, <2>4, <2>5, SameConfig DEF LeaseOK
  <2> QED
    BY <1>0, <2>1, <2>3, <2>6, SameRequests
<1>5. ASSUME NEW r \in Req, BeginCheck(r) PROVE BaseInv'
  BY <1>0, <1>5, BeginRequest, QuietStore, SameLeases DEF BeginCheck
<1>6. ASSUME NEW r \in Req, CountHit(r) PROVE BaseInv'
  <2>1. config' = config /\ leases' = leases /\ pc[r] = "rate"
    BY <1>6 DEF CountHit
  <2>2. PICK limited \in BOOLEAN : IncrementRate(T(r), limited)
    BY <1>6 DEF CountHit
  <2>3. Rate(T(r)) > 0
    BY <2>1 DEF RequestOK, RequestInv
  <2>4. StoreOK'
    BY <1>1, <2>1, <2>2, <2>3, RateScript
  <2> QED
    BY <1>0, <1>6, <2>1, <2>4, HitRequest, SameLeases
<1>7. ASSUME NEW r \in Req, TakeSlot(r) PROVE BaseInv'
  <2>1. config' = config /\ leases' = leases
    BY <1>7 DEF TakeSlot
  <2>2. PICK limited \in BOOLEAN : AcquireConcurrent(T(r), limited)
    BY <1>7 DEF TakeSlot
  <2>3. StoreOK'
    BY <1>1, <2>1, <2>2, AcquireScript
  <2> QED
    BY <1>0, <1>7, <2>1, <2>3, SlotRequest, SameLeases
<1>8. ASSUME NEW r \in Req, Admit(r) PROVE BaseInv'
  BY <1>0, <1>8, AdmitRequest, QuietStore, SameLeases DEF Admit, Admitted
<1>9. ASSUME NEW r \in Req, ShareLease(r) \/ StartLease(r) PROVE BaseInv'
  <2>1. /\ pc[r] = "acquired" /\ Goto(r, "active")
        /\ UNCHANGED <<config, closed, released, releasing, states, cleanup, crashed, history>>
    BY <1>9 DEF ShareLease, StartLease, Admitted
  <2> QED
    BY <1>0, <1>9, <2>1, AdmitRequest, QuietStore, AdmittedLease
<1>10. ASSUME NEW r \in Req, LeasesExhausted(r) PROVE BaseInv'
  BY <1>0, <1>10, ExhaustedRequest, QuietStore, SameLeases DEF LeasesExhausted
<1>11. ASSUME NEW r \in Req, BackOut(r) PROVE BaseInv'
  <2>1. config' = config /\ leases' = leases /\ ReleaseConcurrent(T(r))
    BY <1>11 DEF BackOut
  <2> QED
    BY <1>0, <1>1, <1>11, <2>1, BackOutRequest, ReleaseScript, SameLeases
<1>12. ASSUME NEW r \in Req, ReleaseTenant(r) PROVE BaseInv'
  <2>1. config' = config /\ DropLease(At(r), T(r)) /\ ReleaseConcurrent(T(r))
    BY <1>12 DEF ReleaseTenant
  <2> QED
    BY <1>0, <1>1, <1>12, <2>1, ReleaseRequest, ReleaseScript, DroppedLease
<1>13. ASSUME NEW r \in Req, Finish(r) PROVE BaseInv'
  BY <1>0, <1>13, FinishRequest, QuietStore, SameLeases DEF Finish
<1>14. ASSUME NEW r \in Req, Close(r) PROVE BaseInv'
  BY <1>0, <1>14, CloseRequest, QuietStore, SameLeases DEF Close
<1>15. ASSUME NEW r \in Req, CheckFails(r) PROVE BaseInv'
  <2>1. config' = config /\ leases' = leases /\ cleanup' = cleanup
    BY <1>15 DEF CheckFails
  <2>2. \/ states' = states
        \/ (\E limited \in BOOLEAN : IncrementRate(T(r), limited)) /\ Rate(T(r)) > 0
        \/ AcquireConcurrent(T(r), FALSE)
    BY <1>15, FailedScript
  <2>3. StoreOK'
    BY <1>1, <2>1, <2>2, RateScript, AcquireScript, QuietStore
  <2> QED
    BY <1>0, <1>15, <2>1, <2>3, CheckFailsRequest, SameLeases
<1>18. ASSUME NEW r \in Req, BackOutFails(r) PROVE BaseInv'
  <2>1. config' = config /\ leases' = leases /\ cleanup' = cleanup
    BY <1>18 DEF BackOutFails
  <2>2. states' = states \/ ReleaseConcurrent(T(r))
    BY <1>18 DEF BackOutFails, ClientFails, ReleaseConcurrent
  <2>3. StoreOK'
    BY <1>1, <2>1, <2>2, ReleaseScript, QuietStore
  <2> QED
    BY <1>0, <1>18, <2>1, <2>3, BackOutFailsRequest, SameLeases
<1>16. ASSUME NEW r \in Req, ReleaseFails(r) PROVE BaseInv'
  <2>1. config' = config /\ DropLease(At(r), T(r)) /\ states' = states /\ cleanup' = cleanup
    BY <1>16 DEF ReleaseFails
  <2> QED
    BY <1>0, <1>1, <1>16, <2>1, ReleaseFailsRequest, QuietStore, DroppedLease
<1>17. CASE UNCHANGED vars
  <2>1. /\ UNCHANGED <<config, pc, closed, released, releasing, crashed, history>>
        /\ states' = states /\ cleanup' = cleanup /\ leases' = leases
    BY <1>17 DEF vars, history
  <2> QED
    BY <1>0, <2>1, SameRequests, QuietStore, SameLeases
<1> QED
  BY <1>2, <1>3, <1>4, <1>5, <1>6, <1>7, <1>8, <1>9, <1>10, <1>11, <1>12, <1>13, <1>14, <1>15,
     <1>16, <1>17, <1>18 DEF Next

\* The state is as the type invariant says: each request goes through its check
\* once and is released once, the hits and slots of a store stay within the
\* quotas, the timers of an instance within maxLeaseRefreshers.
THEOREM TypeCorrect == Spec => []TypeOK
<1>1. Spec => []BaseInv
  BY BaseInit, BaseNext, PTL DEF Spec
<1>2. BaseInv => TypeOK
  BY DEF BaseInv
<1> QED
  BY <1>1, <1>2, PTL

-----------------------------------------------------------------------------
(* Counting.                                                               *)

LEMMA Counting ==
    ASSUME NEW A \in SUBSET Req, NEW B \in SUBSET Req
    PROVE  /\ IsFiniteSet(A) /\ Cardinality(A) \in Nat /\ Cardinality(B) \in Nat
           /\ A \subseteq B => Cardinality(A) <= Cardinality(B)
           /\ \A r \in Req : r \notin A /\ A \cup {r} \subseteq B => Cardinality(A) + 1 <= Cardinality(B)
           /\ \A r \in Req : A \ {r} \subseteq B => Cardinality(A) <= Cardinality(B) + 1
<1>1. IsFiniteSet(A) /\ IsFiniteSet(B)
  BY SetsAssumption, FS_Subset
<1>2. Cardinality(A) \in Nat /\ Cardinality(B) \in Nat
  BY <1>1, FS_CardinalityType
<1>3. A \subseteq B => Cardinality(A) <= Cardinality(B)
  BY <1>1, FS_Subset
<1>4. ASSUME NEW r \in Req, r \notin A, A \cup {r} \subseteq B
      PROVE  Cardinality(A) + 1 <= Cardinality(B)
  <2>1. IsFiniteSet(A \cup {r}) /\ Cardinality(A \cup {r}) = Cardinality(A) + 1
    BY <1>1, <1>4, FS_AddElement
  <2> QED
    BY <1>1, <1>4, <2>1, FS_Subset
<1>5. ASSUME NEW r \in Req, A \ {r} \subseteq B
      PROVE  Cardinality(A) <= Cardinality(B) + 1
  <2>1. /\ IsFiniteSet(A \ {r})
        /\ Cardinality(A \ {r}) = IF r \in A THEN Cardinality(A) - 1 ELSE Cardinality(A)
    BY <1>1, FS_RemoveElement
  <2>2. Cardinality(A \ {r}) <= Cardinality(B)
    BY <1>1, <1>5, FS_Subset
  <2> QED
    BY <1>2, <2>1, <2>2
<1> QED
  BY <1>1, <1>2, <1>3, <1>4, <1>5

-----------------------------------------------------------------------------
(* Leases.                                                                 *)

LEMMA LeaseInit == Init => LeaseInv
<1> SUFFICES ASSUME Init, NEW i \in Instance, NEW t \in Tenant
             PROVE  leases[i][t].count <= Cardinality(Users(i, t))
  BY DEF LeaseInv
<1>1. leases[i][t].count = 0
  BY DEF Init
<1>2. PICK A \in SUBSET Req : A = Users(i, t)
  BY DEF Users
<1> QED
  BY <1>1, <1>2, Counting

LEMMA LeaseNext == BaseInv /\ LeaseInv /\ [Next]_vars => LeaseInv'
<1> SUFFICES ASSUME RequestOK, StoreOK, LeaseOK, LeaseInv, [Next]_vars,
                    NEW i \in Instance, (\A q \in closed : At(q) # i)', NEW t \in Tenant
             PROVE  leases'[i][t].count <= (Cardinality(Users(i, t)))'
  BY BaseParts DEF LeaseInv
<1>1. \A r \in Req : T(r) \in Tenant /\ At(r) \in Instance
  BY ConfigType DEF RequestOK
<1>2. config' = config
  BY DEF Next, Tick, Crash, RenewLease, BeginCheck, CountHit, TakeSlot, Admit, ShareLease,
         StartLease, LeasesExhausted, BackOut, ReleaseTenant, Finish, Close, CheckFails,
         ReleaseFails, BackOutFails, vars
<1>3. \A r : At(r)' = At(r) /\ T(r)' = T(r)
  BY <1>2, SameConfig
<1>4. PICK A \in SUBSET Req : A = Users(i, t)
  BY DEF Users
<1>5. PICK B \in SUBSET Req : B = (Users(i, t))'
  BY <1>2 DEF Users, At, T
<1>6. \A q \in Req : q \in A <=> At(q) = i /\ T(q) = t /\ (pc[q] = "active" \/ releasing[q] > 0)
  BY <1>4 DEF Users
<1>7. \A q \in Req : q \in B <=> At(q) = i /\ T(q) = t /\ (pc'[q] = "active" \/ releasing'[q] > 0)
  BY <1>3, <1>5 DEF Users
<1>8. PICK m \in Nat : m = leases[i][t].count
  BY DEF LeaseOK
<1>9. SUFFICES leases'[i][t].count <= Cardinality(B)
  BY <1>5
<1>10. CASE \E j \in Instance : Crash(j)
  <2>1. PICK j \in Instance : Crash(j)
    BY <1>10
  <2>2. leases' = [leases EXCEPT ![j] = [u \in Tenant |-> [count |-> 0, due |-> 0]]]
    BY <2>1 DEF Crash
  <2>3. CASE j = i
    <3>1. leases'[i][t].count = 0
      BY <2>2, <2>3 DEF LeaseOK
    <3> QED
      BY <3>1, Counting
  <2>4. CASE j # i
    <3>1. leases'[i][t].count = m
      BY <1>8, <2>2, <2>4 DEF LeaseOK
    <3> DEFINE lost == {r \in Req : At(r) = j /\ pc[r] # "new"}
    <3>2. /\ pc' = [r \in Req |-> IF r \in lost THEN "over" ELSE pc[r]]
          /\ closed' = closed \ lost
          /\ releasing' = [r \in Req |-> IF r \in lost THEN 0 ELSE releasing[r]]
      BY <2>1 DEF Crash
    <3>3. \A q \in Req : At(q) = i => q \notin lost
      BY <2>4
    <3>4. \A q \in closed : At(q) # i
      BY <1>3, <2>4, <3>2
    <3>5. m <= Cardinality(A)
      BY <1>4, <1>8, <3>4 DEF LeaseInv
    <3>6. A \subseteq B
      BY <1>6, <1>7, <3>2, <3>3 DEF RequestOK
    <3>7. Cardinality(A) \in Nat /\ Cardinality(B) \in Nat /\ Cardinality(A) <= Cardinality(B)
      BY <3>6, Counting
    <3> QED
      BY <3>1, <3>5, <3>7
  <2> QED
    BY <2>3, <2>4
<1>11. CASE ~(\E j \in Instance : Crash(j))
  <2>1. closed \subseteq closed'
    BY <1>11 DEF Next, Tick, RenewLease, BeginCheck, CountHit, TakeSlot, Admit, ShareLease,
         StartLease, LeasesExhausted, BackOut, ReleaseTenant, Finish, Close, CheckFails,
         ReleaseFails, BackOutFails, vars
  <2>2. \A q \in closed : At(q) # i
    BY <1>3, <2>1
  <2>3. m <= Cardinality(A)
    BY <1>4, <1>8, <2>2 DEF LeaseInv
  <2>4. \A q \in Req : At(q) = i =>
            /\ q \notin closed' /\ q \notin closed
            /\ q \in released => pc[q] = "over"
            /\ releasing[q] > 0 => q \in released
    BY <1>3, <2>2 DEF RequestOK, RequestInv
  <2>5. ASSUME A \subseteq B, leases'[i][t].count = m PROVE leases'[i][t].count <= Cardinality(B)
    BY <2>3, <2>5, Counting
  <2>6. CASE Tick
    <3>1. leases'[i][t].count = m
      <4>1. leases'[i][t] = [leases[i][t] EXCEPT !.due = Less(@)]
        BY <2>6 DEF Tick
      <4>2. leases[i][t] \in [count : Nat, due : 0..LeaseInterval]
        BY DEF LeaseOK
      <4> QED
        BY <1>8, <4>1, <4>2
    <3> QED
      BY <1>6, <1>7, <2>5, <2>6, <3>1 DEF Tick
  <2>7. ASSUME NEW j \in Instance, NEW u \in Tenant, RenewLease(j, u)
        PROVE  leases'[i][t].count <= Cardinality(B)
    <3>1. leases'[i][t].count = m
      BY <1>8, <2>7 DEF RenewLease, LeaseOK
    <3> QED
      BY <1>6, <1>7, <2>5, <2>7, <3>1 DEF RenewLease
  <2>8. ASSUME NEW r \in Req,
               \/ BeginCheck(r) \/ CountHit(r) \/ TakeSlot(r)
               \/ Admit(r) \/ LeasesExhausted(r) \/ BackOut(r)
        PROVE  leases'[i][t].count <= Cardinality(B)
    <3>1. leases'[i][t].count = m
      BY <1>8, <2>8 DEF BeginCheck, CountHit, TakeSlot, Admit, LeasesExhausted, BackOut
    <3>2. pc[r] # "active" /\ (\A q \in Req : q # r => pc'[q] = pc[q])
      BY <2>8 DEF BeginCheck, CountHit, TakeSlot, Admit, Admitted, LeasesExhausted, BackOut,
                  Refuse, Goto, RequestOK
    <3>3. \A q \in Req : releasing[q] > 0 => releasing'[q] > 0
      BY <2>8 DEF BeginCheck, CountHit, TakeSlot, Admit, LeasesExhausted, BackOut, Refuse,
                  Release, RequestOK
    <3>4. A \subseteq B
      BY <1>6, <1>7, <3>2, <3>3
    <3> QED
      BY <2>5, <3>1, <3>4
  <2>9. ASSUME NEW r \in Req, ShareLease(r) \/ StartLease(r)
        PROVE  leases'[i][t].count <= Cardinality(B)
    <3>1. /\ \A j \in Instance, u \in Tenant :
                j # At(r) \/ u # T(r) => leases'[j][u] = leases[j][u]
          /\ leases'[At(r)][T(r)].count = leases[At(r)][T(r)].count + 1
      BY <2>9, AdmittedLease
    <3>2. pc[r] = "acquired" /\ Goto(r, "active") /\ releasing' = releasing
      BY <2>9 DEF ShareLease, StartLease, Admitted
    <3>3. A \subseteq B
      BY <1>6, <1>7, <3>2 DEF Goto, RequestOK
    <3>4. CASE At(r) = i /\ T(r) = t
      <4>1. leases'[i][t].count = m + 1
        BY <1>8, <3>1, <3>4
      <4>2. r \notin A /\ r \in B
        BY <1>6, <1>7, <2>4, <3>2, <3>4 DEF Goto, RequestOK
      <4>3. Cardinality(A) + 1 <= Cardinality(B) /\ Cardinality(A) \in Nat /\ Cardinality(B) \in Nat
        BY <3>3, <4>2, Counting
      <4> QED
        BY <2>3, <4>1, <4>3
    <3>5. CASE At(r) # i \/ T(r) # t
      BY <1>8, <2>5, <3>1, <3>3, <3>5
    <3> QED
      BY <3>4, <3>5
  <2>10. ASSUME NEW r \in Req, ReleaseTenant(r) \/ ReleaseFails(r)
         PROVE  leases'[i][t].count <= Cardinality(B)
    <3>1. /\ releasing[r] > 0 /\ releasing' = [releasing EXCEPT ![r] = @ - 1]
          /\ pc' = pc /\ DropLease(At(r), T(r))
      BY <2>10 DEF ReleaseTenant, ReleaseFails
    <3>2. /\ \A j \in Instance, u \in Tenant :
                j # At(r) \/ u # T(r) => leases'[j][u] = leases[j][u]
          /\ leases'[At(r)][T(r)].count = Less(leases[At(r)][T(r)].count)
      BY <1>1, <1>2, <3>1, DroppedLease
    <3>3. A \ {r} \subseteq B
      BY <1>6, <1>7, <3>1 DEF RequestOK
    <3>4. CASE At(r) = i /\ T(r) = t
      <4>1. leases'[i][t].count = IF m > 0 THEN m - 1 ELSE 0
        BY <1>8, <3>2, <3>4 DEF Less
      <4>2. Cardinality(A) <= Cardinality(B) + 1 /\ Cardinality(A) \in Nat /\ Cardinality(B) \in Nat
        BY <3>3, Counting
      <4> QED
        BY <2>3, <4>1, <4>2
    <3>5. CASE At(r) # i \/ T(r) # t
      <4>1. leases'[i][t].count = m
        BY <1>8, <3>2, <3>5
      <4>2. r \notin A
        BY <1>6, <3>5
      <4> QED
        BY <2>5, <3>3, <4>1, <4>2
    <3> QED
      BY <3>4, <3>5
  <2>11. ASSUME NEW r \in Req, Finish(r)
         PROVE  leases'[i][t].count <= Cardinality(B)
    <3>1. leases'[i][t].count = m
      BY <1>8, <2>11 DEF Finish
    <3>2. A \subseteq B
      BY <1>6, <1>7, <2>4, <2>11 DEF Finish, Release, Goto, RequestOK
    <3> QED
      BY <2>5, <3>1, <3>2
  <2>12. ASSUME NEW r \in Req, Close(r)
         PROVE  leases'[i][t].count <= Cardinality(B)
    <3>1. leases'[i][t].count = m
      BY <1>8, <2>12 DEF Close
    <3>2. A \subseteq B
      BY <1>6, <1>7, <2>4, <2>12 DEF Close, Release, Goto, RequestOK
    <3> QED
      BY <2>5, <3>1, <3>2
  <2>13. ASSUME NEW r \in Req, CheckFails(r)
         PROVE  leases'[i][t].count <= Cardinality(B)
    <3>1. /\ leases'[i][t].count = m /\ Refuse(r) /\ pc[r] # "active"
      BY <1>8, <2>13 DEF CheckFails
    <3>2. A \subseteq B
      BY <1>6, <1>7, <3>1 DEF Refuse, Release, Goto, RequestOK
    <3> QED
      BY <2>5, <3>1, <3>2
  <2>15. ASSUME NEW r \in Req, BackOutFails(r)
         PROVE  leases'[i][t].count <= Cardinality(B)
    <3>1. /\ leases'[i][t].count = m /\ Refuse(r) /\ pc[r] # "active"
      BY <1>8, <2>15 DEF BackOutFails
    <3>2. A \subseteq B
      BY <1>6, <1>7, <3>1 DEF Refuse, Release, Goto, RequestOK
    <3> QED
      BY <2>5, <3>1, <3>2
  <2>14. CASE UNCHANGED vars
    BY <1>6, <1>7, <1>8, <2>5, <2>14 DEF vars
  <2> QED
    BY <1>11, <2>6, <2>7, <2>8, <2>9, <2>10, <2>11, <2>12, <2>13, <2>14, <2>15 DEF Next
<1> QED
  BY <1>10, <1>11

\* A lease timer belongs to requests that are served or about to give their slot
\* back: decrementActiveTenant stops it with the last of them, unless a client
\* went away in the middle of a check.
THEOREM LeasesAreReturned == Spec => []LeasesReturned
<1>1. Spec => [](BaseInv /\ LeaseInv)
  BY BaseInit, BaseNext, LeaseInit, LeaseNext, PTL DEF Spec
<1>2. BaseInv /\ LeaseInv => LeasesReturned
  <2> SUFFICES ASSUME BaseInv, LeaseInv, closed = {}, NEW i \in Instance, NEW t \in Timers(i)
               PROVE  \E r \in Req : At(r) = i /\ T(r) = t /\ (pc[r] = "active" \/ releasing[r] > 0)
    BY DEF LeasesReturned
  <2>1. t \in Tenant /\ leases[i][t].count > 0
    BY DEF Timers
  <2>2. leases[i][t].count <= Cardinality(Users(i, t))
    BY <2>1 DEF LeaseInv
  <2>3. leases[i][t].count \in Nat
    BY <2>1, BaseParts DEF LeaseOK
  <2>4. Users(i, t) # {}
    BY <2>1, <2>2, <2>3, FS_EmptySet
  <2> QED
    BY <2>4 DEF Users
<1> QED
  BY <1>1, <1>2, PTL

-----------------------------------------------------------------------------
(* Slots.                                                                  *)

LEMMA SlotInit == Init => SlotInv
<1> SUFFICES ASSUME Init, NEW t \in Tenant
             PROVE  Hash(t).concurrent <= Cardinality(Keepers(t))
  BY DEF SlotInv
<1>1. Hash(t).concurrent = 0
  BY DEF Init, Hash
<1>2. PICK A \in SUBSET Req : A = Keepers(t)
  BY DEF Keepers
<1> QED
  BY <1>1, <1>2, Counting

LEMMA SlotNext == BaseInv /\ SlotInv /\ [Next]_vars => SlotInv'
<1> SUFFICES ASSUME RequestOK, StoreOK, LeaseOK, SlotInv, [Next]_vars, Orderly', NEW t \in Tenant
             PROVE  (Hash(t).concurrent)' <= (Cardinality(Keepers(t)))'
  BY BaseParts DEF SlotInv
<1>1. \A r \in Req : T(r) \in Tenant /\ At(r) \in Instance
  BY ConfigType DEF RequestOK
<1>2. config' = config
  BY DEF Next, Tick, Crash, RenewLease, BeginCheck, CountHit, TakeSlot, Admit, ShareLease,
         StartLease, LeasesExhausted, BackOut, ReleaseTenant, Finish, Close, CheckFails,
         ReleaseFails, BackOutFails, vars
<1>3. \A r : At(r)' = At(r) /\ T(r)' = T(r)
  BY <1>2, SameConfig
<1>4. PICK A \in SUBSET Req : A = Keepers(t)
  BY DEF Keepers
<1>5. PICK B \in SUBSET Req : B = (Keepers(t))'
  BY <1>2 DEF Keepers, T
<1>6. \A q \in Req : q \in A <=>
         T(q) = t /\ (pc[q] \in {"acquired", "backout", "active"} \/ releasing[q] > 0)
  BY <1>4 DEF Keepers
<1>7. \A q \in Req : q \in B <=>
         T(q) = t /\ (pc'[q] \in {"acquired", "backout", "active"} \/ releasing'[q] > 0)
  BY <1>3, <1>5 DEF Keepers
<1>8. PICK m \in Nat : m = Hash(t).concurrent
  BY HashType
<1>9. SUFFICES (Hash(t).concurrent)' <= Cardinality(B)
  BY <1>5
<1>10. closed' = {} /\ failed' = {} /\ crashed' = {}
  BY DEF Orderly
<1>11. /\ ~(\E i \in Instance : Crash(i))
       /\ ~(\E r \in Req : CheckFails(r) \/ BackOutFails(r) \/ ReleaseFails(r))
  BY <1>10 DEF Crash, CheckFails, BackOutFails, ReleaseFails, ClientFails
<1>12. closed = {} /\ failed = {} /\ crashed = {}
  BY <1>10, <1>11 DEF Next, Tick, RenewLease, BeginCheck, CountHit, TakeSlot, Admit, ShareLease,
         StartLease, LeasesExhausted, BackOut, ReleaseTenant, Finish, Close, history, vars
<1>13. m <= Cardinality(A)
  BY <1>4, <1>8, <1>12 DEF SlotInv, Orderly
<1>14. \A q \in Req : /\ q \in released => pc[q] = "over"
                      /\ releasing[q] > 0 => q \in released
                      /\ q \notin released => releasing[q] = 0
  BY <1>12 DEF RequestOK, RequestInv
<1>15. ASSUME A \subseteq B, (Hash(t).concurrent)' = m PROVE (Hash(t).concurrent)' <= Cardinality(B)
  BY <1>13, <1>15, Counting
<1>16. CASE Tick
  <2>1. TickOfHashes
    BY <1>16 DEF Tick, TickOfHashes
  <2>2. (Hash(t).concurrent)' = m \/ (Hash(t).concurrent)' = 0
    BY <1>2, <1>8, <2>1, TickHash DEF SlotsKept
  <2>3. A \subseteq B
    BY <1>6, <1>7, <1>16 DEF Tick
  <2> QED
    BY <1>15, <2>2, <2>3, Counting
<1>17. ASSUME NEW j \in Instance, NEW u \in Tenant, RenewLease(j, u)
       PROVE  (Hash(t).concurrent)' <= Cardinality(B)
  <2>1. /\ leases[j][u].count > 0 /\ cleanup' = cleanup /\ pc' = pc /\ releasing' = releasing
        /\ states' = IF Hash(u).concurrent > 0 THEN [states EXCEPT ![u].ttl = Ttl] ELSE states
    BY <1>17 DEF RenewLease
  <2>2. Redis
    BY <2>1 DEF LeaseOK
  <2>3. SlotsKept(t)
    BY <1>2, <2>1, <2>2, RenewedHash
  <2> QED
    BY <1>6, <1>7, <1>8, <1>15, <2>1, <2>3 DEF SlotsKept
<1>18. ASSUME NEW r \in Req, \/ BeginCheck(r) \/ Admit(r) \/ ShareLease(r) \/ StartLease(r)
                             \/ LeasesExhausted(r) \/ Finish(r) \/ Close(r)
       PROVE  (Hash(t).concurrent)' <= Cardinality(B)
  <2>1. states' = states /\ cleanup' = cleanup
    BY <1>18 DEF BeginCheck, Admit, ShareLease, StartLease, LeasesExhausted, Finish, Close
  <2>2. (Hash(t).concurrent)' = m
    BY <1>2, <1>8, <2>1, QuietStore DEF SlotsKept
  <2>3. CASE Finish(r) \/ Close(r)
    <3>1. A \subseteq B
      BY <1>6, <1>7, <1>10, <1>14, <2>3 DEF Finish, Close, Release, Goto, RequestOK
    <3> QED
      BY <1>15, <2>2, <3>1
  <2>4. CASE ~Finish(r) /\ ~Close(r)
    <3>1. /\ releasing' = releasing
          /\ pc[r] \in {"new", "acquired"} /\ \A q \in Req : q # r => pc'[q] = pc[q]
          /\ pc[r] = "acquired" => pc'[r] \in {"active", "backout"}
      BY <1>18, <2>4 DEF BeginCheck, Admit, ShareLease, StartLease, LeasesExhausted, Admitted,
                         Goto, RequestOK
    <3>2. A \subseteq B
      BY <1>6, <1>7, <3>1
    <3> QED
      BY <1>15, <2>2, <3>2
  <2> QED
    BY <2>3, <2>4
<1>19. ASSUME NEW r \in Req, CountHit(r)
       PROVE  (Hash(t).concurrent)' <= Cardinality(B)
  <2>0. PICK u \in Tenant : u = T(r)
    BY <1>1
  <2>1. pc[r] = "rate"
    BY <1>19 DEF CountHit
  <2>2. PICK limited \in BOOLEAN : IncrementRate(u, limited)
    BY <1>19, <2>0 DEF CountHit
  <2>3. Rate(u) > 0
    BY <2>0, <2>1 DEF RequestOK, RequestInv
  <2>4. Elsewhere(u) /\ SlotsKept(u)
    BY <1>1, <1>2, <2>2, <2>3, RateScript
  <2>5. (Hash(t).concurrent)' = m
    BY <1>8, <2>4 DEF Elsewhere, SlotsKept
  <2>6. \/ Refuse(r)
        \/ Goto(r, "acquire") /\ releasing' = releasing
    BY <1>19 DEF CountHit
  <2>7. A \subseteq B
    BY <1>6, <1>7, <2>1, <2>6 DEF Refuse, Release, Goto, RequestOK
  <2> QED
    BY <1>15, <2>5, <2>7
<1>20. ASSUME NEW r \in Req, TakeSlot(r)
       PROVE  (Hash(t).concurrent)' <= Cardinality(B)
  <2>0. PICK u \in Tenant : u = T(r)
    BY <1>1
  <2>1. pc[r] = "acquire"
    BY <1>20 DEF TakeSlot
  <2>2. PICK limited \in BOOLEAN :
            /\ AcquireConcurrent(u, limited)
            /\ \/ limited /\ Refuse(r)
               \/ ~limited /\ Goto(r, "acquired") /\ UNCHANGED <<released, releasing>>
    BY <1>20, <2>0 DEF TakeSlot
  <2>3. /\ Elsewhere(u)
        /\ limited => SlotsKept(u)
        /\ \/ (Hash(u).concurrent)' = Hash(u).concurrent + 1
           \/ SlotsKept(u)
    BY <1>1, <1>2, <2>2, AcquireScript
  <2>4. A \subseteq B
    BY <1>6, <1>7, <2>1, <2>2 DEF Refuse, Release, Goto, RequestOK
  <2>5. CASE u # t \/ SlotsKept(u)
    <3>1. (Hash(t).concurrent)' = m
      BY <1>8, <2>3, <2>5 DEF Elsewhere, SlotsKept
    <3> QED
      BY <1>15, <2>4, <3>1
  <2>6. CASE u = t /\ ~SlotsKept(u)
    <3>1. (Hash(t).concurrent)' = m + 1 /\ ~limited
      BY <1>8, <2>3, <2>6
    <3>2. r \notin A /\ r \in B
      BY <1>6, <1>7, <1>14, <2>0, <2>1, <2>2, <2>6, <3>1 DEF Goto, RequestOK
    <3>3. Cardinality(A) + 1 <= Cardinality(B) /\ Cardinality(A) \in Nat /\ Cardinality(B) \in Nat
      BY <2>4, <3>2, Counting
    <3> QED
      BY <1>13, <3>1, <3>3
  <2> QED
    BY <2>5, <2>6
<1>21. ASSUME NEW r \in Req, BackOut(r) \/ ReleaseTenant(r)
       PROVE  (Hash(t).concurrent)' <= Cardinality(B)
  <2>0. PICK u \in Tenant : u = T(r)
    BY <1>1
  <2>1. /\ Elsewhere(u)
        /\ (Hash(u).concurrent)' = Less(Hash(u).concurrent)
    BY <1>2, <1>21, <2>0, ReleaseScript DEF BackOut, ReleaseTenant
  <2>2. A \ {r} \subseteq B
    BY <1>6, <1>7, <1>21 DEF BackOut, ReleaseTenant, Refuse, Release, Goto, RequestOK
  <2>3. CASE u = t
    <3>1. (Hash(t).concurrent)' = IF m > 0 THEN m - 1 ELSE 0
      BY <1>8, <2>1, <2>3 DEF Less
    <3>2. Cardinality(A) <= Cardinality(B) + 1 /\ Cardinality(A) \in Nat /\ Cardinality(B) \in Nat
      BY <2>2, Counting
    <3> QED
      BY <1>13, <3>1, <3>2
  <2>4. CASE u # t
    <3>1. (Hash(t).concurrent)' = m
      BY <1>8, <2>1, <2>4 DEF Elsewhere, SlotsKept
    <3>2. r \notin A
      BY <1>6, <2>0, <2>4
    <3> QED
      BY <1>15, <2>2, <3>1, <3>2
  <2> QED
    BY <2>3, <2>4
<1>22. CASE UNCHANGED vars
  <2>1. states' = states /\ cleanup' = cleanup /\ pc' = pc /\ releasing' = releasing
    BY <1>22 DEF vars
  <2>2. (Hash(t).concurrent)' = m
    BY <1>2, <1>8, <2>1, QuietStore DEF SlotsKept
  <2> QED
    BY <1>6, <1>7, <1>15, <2>1, <2>2
<1> QED
  BY <1>11, <1>16, <1>17, <1>18, <1>19, <1>20, <1>21, <1>22 DEF Next

\* Every slot that is taken belongs to a request that is served or about to give
\* it back, so that enforceTenantLimit refuses nobody for a slot that was lost,
\* unless a client went away in the middle of its check, a command failed or an
\* instance crashed.
THEOREM RefusalsAreTrue == Spec => []NoFalseRefusal
<1>1. Spec => [](BaseInv /\ SlotInv)
  BY BaseInit, BaseNext, SlotInit, SlotNext, PTL DEF Spec
<1>2. BaseInv /\ SlotInv => NoFalseRefusal
  <2> SUFFICES ASSUME BaseInv, SlotInv, Orderly, NEW t \in DOMAIN states
               PROVE  states[t].concurrent <=
                          Cardinality({r \in Req : T(r) = t /\ ( \/ pc[r] \in {"acquired", "backout", "active"}
                                                                 \/ releasing[r] > 0)})
    BY DEF NoFalseRefusal
  <2>1. t \in Tenant
    BY BaseParts DEF StoreOK
  <2>2. Hash(t).concurrent <= Cardinality(Keepers(t))
    BY <2>1 DEF SlotInv
  <2> QED
    BY <2>2 DEF Hash, Keepers
<1> QED
  BY <1>1, <1>2, PTL

-----------------------------------------------------------------------------
(* Limits.                                                                 *)

\* A smaller set maps into a larger one.
LEMMA SmallerSet ==
    ASSUME NEW S, NEW U, IsFiniteSet(S), IsFiniteSet(U), Cardinality(S) <= Cardinality(U)
    PROVE  \E f \in [S -> U] : \A x, y \in S : f[x] = f[y] => x = y
<1>1. PICK m \in Nat : m = Cardinality(S)
  BY FS_CardinalityType
<1>2. PICK n \in Nat : n = Cardinality(U)
  BY FS_CardinalityType
<1>3. ExistsBijection(1..m, S) /\ ExistsBijection(1..n, U)
  BY <1>1, <1>2, FS_CardinalityType
<1>4. PICK g \in Bijection(1..m, S) : TRUE
  BY <1>3 DEF ExistsBijection
<1>5. PICK h \in Bijection(1..n, U) : TRUE
  BY <1>3 DEF ExistsBijection
<1>6. g \in [1..m -> S] /\ \A x \in S : \E k \in 1..m : g[k] = x
  BY <1>4 DEF Bijection, Surjection, Injection
<1>7. h \in [1..n -> U] /\ \A a, b \in 1..n : h[a] = h[b] => a = b
  BY <1>5 DEF Bijection, Injection, IsInjective
<1>8. m <= n
  BY <1>1, <1>2
<1> DEFINE at(x) == CHOOSE k \in 1..m : g[k] = x
           f == [x \in S |-> h[at(x)]]
<1>9. \A x \in S : at(x) \in 1..m /\ g[at(x)] = x
  BY <1>6
<1>10. \A x \in S : at(x) \in 1..n
  BY <1>8, <1>9
<1>11. \A x, y \in S : at(x) = at(y) => x = y
  BY <1>9
<1> HIDE DEF at
<1>12. f \in [S -> U]
  BY <1>7, <1>10
<1>13. \A x, y \in S : f[x] = f[y] => x = y
  BY <1>7, <1>10, <1>11
<1> QED
  BY <1>12, <1>13

\* What holds of the requests of each instance holds of all.
LEMMA OverInstances ==
    ASSUME RequestOK, NEW A \in SUBSET Req, NEW B \in SUBSET Req,
           \A i \in Instance : Cardinality({r \in A : At(r) = i}) <= Cardinality({r \in B : At(r) = i})
    PROVE  Cardinality(A) <= Cardinality(B)
<1>1. \A r \in Req : At(r) \in Instance
  BY ConfigType DEF RequestOK
<1> DEFINE On(S, i) == {r \in S : At(r) = i}
           Injections(i) == {f \in [On(A, i) -> On(B, i)] :
                               \A x, y \in On(A, i) : f[x] = f[y] => x = y}
           G(i) == CHOOSE f \in Injections(i) : TRUE
           F == [r \in A |-> G(At(r))[r]]
<1>2. ASSUME NEW i \in Instance PROVE G(i) \in Injections(i)
  <2>1. IsFiniteSet(On(A, i)) /\ IsFiniteSet(On(B, i))
    BY SetsAssumption, FS_Subset
  <2>2. Injections(i) # {}
    BY <2>1, SmallerSet
  <2> QED
    BY <2>2
<1>3. \A i \in Instance : /\ G(i) \in [On(A, i) -> On(B, i)]
                          /\ \A x, y \in On(A, i) : G(i)[x] = G(i)[y] => x = y
  BY <1>2
<1> HIDE DEF G
<1>4. ASSUME NEW r \in A PROVE F[r] \in B /\ At(F[r]) = At(r) /\ F[r] = G(At(r))[r]
  <2>1. PICK i \in Instance : i = At(r)
    BY <1>1
  <2>2. r \in On(A, i)
    BY <2>1
  <2>3. G(i)[r] \in On(B, i)
    BY <1>3, <2>2
  <2> QED
    BY <2>1, <2>3
<1>5. F \in [A -> B]
  BY <1>4
<1> HIDE DEF F
<1>6. ASSUME NEW x \in A, NEW y \in A, F[x] = F[y] PROVE x = y
  <2>1. At(x) = At(y) /\ At(x) \in Instance
    BY <1>1, <1>4, <1>6
  <2> QED
    BY <1>3, <1>4, <1>6, <2>1
<1>7. F \in Injection(A, B)
  BY <1>5, <1>6 DEF Injection, IsInjective
<1>8. IsFiniteSet(B)
  BY SetsAssumption, FS_Subset
<1> QED
  BY <1>7, <1>8, FS_Injection

\* The ways in which a step keeps a balance of slots or of leases: a holder for
\* each one that is counted, or one taken from another.
LEMMA Balance ==
    ASSUME NEW A \in SUBSET Req, NEW B \in SUBSET Req,
           NEW D \in SUBSET Req, NEW E \in SUBSET Req,
           NEW m \in Nat, NEW n \in Nat, NEW r \in Req,
           Cardinality(A) <= m + Cardinality(D),
           \/ n >= m /\ B \subseteq A /\ D \subseteq E
           \/ n = m + 1 /\ B \ {r} \subseteq A /\ D \subseteq E
           \/ n = m + 1 /\ B \subseteq A /\ D \ {r} \subseteq E
           \/ n = Less(m) /\ r \in A /\ r \notin B /\ B \subseteq A /\ D \subseteq E
           \/ n = Less(m) /\ B \subseteq A /\ r \notin D /\ D \cup {r} \subseteq E
    PROVE  Cardinality(B) <= n + Cardinality(E)
<1>1. /\ Cardinality(A) \in Nat /\ Cardinality(B) \in Nat
      /\ Cardinality(D) \in Nat /\ Cardinality(E) \in Nat
  BY Counting
<1>2. B \subseteq A => Cardinality(B) <= Cardinality(A)
  BY Counting
<1>3. D \subseteq E => Cardinality(D) <= Cardinality(E)
  BY Counting
<1>4. B \ {r} \subseteq A => Cardinality(B) <= Cardinality(A) + 1
  BY Counting
<1>5. D \ {r} \subseteq E => Cardinality(D) <= Cardinality(E) + 1
  BY Counting
<1>6. r \in A /\ r \notin B /\ B \subseteq A => Cardinality(B) + 1 <= Cardinality(A)
  BY Counting
<1>7. r \notin D /\ D \cup {r} \subseteq E => Cardinality(D) + 1 <= Cardinality(E)
  BY Counting
<1>8. Less(m) >= m - 1
  BY DEF Less
<1> QED
  BY <1>1, <1>2, <1>3, <1>4, <1>5, <1>6, <1>7, <1>8

\* What RequestInv says of one request, as the steps below use it.
LEMMA RequestFacts ==
    ASSUME RequestOK, NEW q \in Req
    PROVE  /\ pc[q] \in {"new", "rate", "acquire", "acquired", "backout", "active", "over"}
           /\ took[q] \in {0, 1} /\ gave[q] \in 0..2 /\ releasing[q] \in {0, 1}
           /\ q \notin released => releasing[q] = 0 /\ gave[q] = 0
           /\ pc[q] # "over" => gave[q] + releasing[q] <= 1
           /\ gave[q] + releasing[q] <= 2
           /\ pc[q] = "over" => q \in released \/ q \in closed
           /\ pc[q] = "new" => q \notin released
           /\ pc[q] \in {"new", "rate", "acquire"} => took[q] = 0
           /\ pc[q] = "backout" => Redis /\ took[q] = 1
           /\ Redis /\ pc[q] = "acquired" => took[q] = 1
           /\ q \in released /\ pc[q] # "over" /\ q \notin failed => gave[q] + releasing[q] = 1
           /\ pc[q] = "rate" => Rate(T(q)) > 0
BY DEF RequestOK, RequestInv, Checking

\* A step of r alone that counts one more: r is among the holders, or owes ...
LEMMA OneComes ==
    ASSUME NEW A \in SUBSET Req, NEW B \in SUBSET Req,
           NEW D \in SUBSET Req, NEW E \in SUBSET Req,
           NEW m \in Nat, NEW n \in Nat, NEW r \in Req,
           Cardinality(A) <= m + Cardinality(D), n = m + 1,
           B \ {r} = A \ {r}, E \ {r} = D \ {r}, r \in D => r \notin B
    PROVE  Cardinality(B) <= n + Cardinality(E)
<1>1. CASE r \in D
  <2>1. B \subseteq A
    BY <1>1
  <2>2. D \ {r} \subseteq E
    OBVIOUS
  <2> QED
    BY <2>1, <2>2, Balance
<1>2. CASE r \notin D
  <2>1. D \subseteq E
    BY <1>2
  <2>2. B \ {r} \subseteq A
    OBVIOUS
  <2> QED
    BY <2>1, <2>2, Balance
<1> QED
  BY <1>1, <1>2

\* ... and one that gives one back: r was a holder, or has given back another's.
LEMMA OneGoes ==
    ASSUME NEW A \in SUBSET Req, NEW B \in SUBSET Req,
           NEW D \in SUBSET Req, NEW E \in SUBSET Req,
           NEW m \in Nat, NEW n \in Nat, NEW r \in Req,
           Cardinality(A) <= m + Cardinality(D), n = Less(m),
           B \ {r} = A \ {r}, E \ {r} = D \ {r},
           r \notin B, r \notin D, r \in A \/ r \in E
    PROVE  Cardinality(B) <= n + Cardinality(E)
<1>1. B \subseteq A /\ D \subseteq E
  OBVIOUS
<1>2. CASE r \in A
  BY <1>1, <1>2, Balance
<1>3. CASE r \in E
  <2>1. D \cup {r} \subseteq E
    BY <1>1, <1>3
  <2> QED
    BY <1>1, <2>1, Balance
<1> QED
  BY <1>2, <1>3

\* What a step does to the other requests, and to what its own request has
\* counted and given back.
Counts(q) == <<took[q], gave[q], releasing[q], q \in released, q \in failed>>
Alone(r)  == /\ config' = config
             /\ \A q \in Req : q # r => pc'[q] = pc[q] /\ Counts(q)' = Counts(q)

\* A step that ends in Refuse.
Refused(r) == /\ pc'[r] = "over" /\ r \in released'
              /\ releasing'[r] = IF r \in released THEN releasing[r] ELSE 1

LEMMA RefusedRequest ==
    ASSUME RequestOK, NEW r \in Req, Refuse(r)
    PROVE  /\ Refused(r)
           /\ \A q \in Req : q # r =>
                /\ pc'[q] = pc[q] /\ releasing'[q] = releasing[q]
                /\ q \in released' <=> q \in released
<1>1. pc' = [pc EXCEPT ![r] = "over"]
  BY DEF Refuse, Goto
<1>2. r \notin released => releasing[r] = 0
  BY RequestFacts
<1>3. CASE r \in released
  BY <1>1, <1>3 DEF Refuse, Release, RequestOK, Refused
<1>4. CASE r \notin released
  <2>1. released' = released \cup {r} /\ releasing' = [releasing EXCEPT ![r] = 1]
    BY <1>2, <1>4 DEF Refuse, Release, RequestOK
  <2> QED
    BY <1>1, <1>4, <2>1 DEF RequestOK, Refused
<1> QED
  BY <1>3, <1>4

\* Begin, admit, back out of an admission: only the place of the request moves.
LEMMA BeginMoves ==
    ASSUME RequestOK, NEW r \in Req, BeginCheck(r)
    PROVE  /\ Alone(r) /\ Counts(r)' = Counts(r)
           /\ pc[r] = "new" /\ pc'[r] \in {"rate", "acquire", "active"}
           /\ pc'[r] = "active" => Limit(T(r)) = 0
           /\ states' = states /\ cleanup' = cleanup /\ leases' = leases
           /\ pc'[r] = "acquire" => Rate(T(r)) = 0 /\ closed' = closed
<1>1. /\ Limit(T(r)) \in Nat /\ Rate(T(r)) \in Nat
  BY ConfigType DEF RequestOK
<1> QED
  BY <1>1 DEF BeginCheck, Goto, history, RequestOK, Alone, Counts

LEMMA AdmitMoves ==
    ASSUME RequestOK, NEW r \in Req,
           Admit(r) \/ ShareLease(r) \/ StartLease(r) \/ LeasesExhausted(r)
    PROVE  /\ Alone(r) /\ Counts(r)' = Counts(r)
           /\ pc[r] = "acquired" /\ pc'[r] = IF LeasesExhausted(r) THEN "backout" ELSE "active"
           /\ states' = states /\ cleanup' = cleanup
           /\ Admit(r) \/ LeasesExhausted(r) => leases' = leases
<1>1. CASE LeasesExhausted(r)
  BY <1>1 DEF LeasesExhausted, Admitted, Goto, history, RequestOK, Alone, Counts
<1>2. CASE ~LeasesExhausted(r)
  BY <1>2 DEF Admit, ShareLease, StartLease, Admitted, Goto, history, RequestOK, Alone, Counts
<1> QED
  BY <1>1, <1>2

LEMMA HitMoves ==
    ASSUME RequestOK, NEW r \in Req, CountHit(r)
    PROVE  /\ Alone(r) /\ pc[r] = "rate" /\ took' = took /\ gave' = gave /\ failed' = failed
           /\ leases' = leases
           /\ \/ Refused(r)
              \/ pc'[r] = "acquire" /\ Counts(r)' = Counts(r)
<1>1. /\ pc[r] = "rate" /\ UNCHANGED <<config, took, gave, failed, leases>>
      /\ \/ Refuse(r)
         \/ Goto(r, "acquire") /\ UNCHANGED <<released, releasing>>
  BY DEF CountHit
<1>2. CASE Refuse(r)
  BY <1>1, <1>2, RefusedRequest DEF Alone, Counts
<1>3. CASE Goto(r, "acquire") /\ UNCHANGED <<released, releasing>>
  BY <1>1, <1>3 DEF Goto, RequestOK, Alone, Counts
<1> QED
  BY <1>1, <1>2, <1>3

LEMMA SlotMoves ==
    ASSUME RequestOK, NEW r \in Req, TakeSlot(r)
    PROVE  /\ Alone(r) /\ pc[r] = "acquire" /\ gave' = gave /\ failed' = failed
           /\ leases' = leases /\ took[r] = 0
           /\ \/ Refused(r) /\ took' = took /\ AcquireConcurrent(T(r), TRUE)
              \/ /\ pc'[r] = "acquired" /\ AcquireConcurrent(T(r), FALSE)
                 /\ took'[r] = (IF Redis \/ ~Detached(T(r)) THEN 1 ELSE 0)
                 /\ UNCHANGED <<released, releasing>>
<1>1. /\ pc[r] = "acquire" /\ UNCHANGED <<config, gave, failed, leases>>
      /\ \/ Refuse(r) /\ took' = took /\ AcquireConcurrent(T(r), TRUE)
         \/ /\ Goto(r, "acquired") /\ UNCHANGED <<released, releasing>>
            /\ AcquireConcurrent(T(r), FALSE) /\ Counted(r)
  <2>1. PICK limited \in BOOLEAN :
          /\ AcquireConcurrent(T(r), limited)
          /\ \/ limited /\ Refuse(r) /\ took' = took
             \/ ~limited /\ Goto(r, "acquired") /\ Counted(r) /\ UNCHANGED <<released, releasing>>
    BY DEF TakeSlot
  <2>2. pc[r] = "acquire" /\ UNCHANGED <<config, gave, failed, leases>>
    BY DEF TakeSlot
  <2>3. limited = TRUE \/ limited = FALSE
    OBVIOUS
  <2> QED
    BY <2>1, <2>2, <2>3
<1>2. CASE Refuse(r) /\ took' = took /\ AcquireConcurrent(T(r), TRUE)
  <2>1. Refused(r) /\ took[r] = 0
    BY <1>1, <1>2, RefusedRequest, RequestFacts
  <2>2. Alone(r)
    BY <1>1, <1>2, RefusedRequest DEF Alone, Counts
  <2> QED
    BY <1>1, <1>2, <2>1, <2>2
<1>3. CASE /\ Goto(r, "acquired") /\ UNCHANGED <<released, releasing>>
           /\ AcquireConcurrent(T(r), FALSE) /\ Counted(r)
  <2>1. /\ pc'[r] = "acquired" /\ \A q \in Req : q # r => pc'[q] = pc[q]
    BY <1>3 DEF Goto, RequestOK
  <2>2. /\ took'[r] = (IF Redis \/ ~Detached(T(r)) THEN 1 ELSE 0)
        /\ \A q \in Req : q # r => took'[q] = took[q]
    BY <1>3 DEF Counted, RequestOK
  <2> QED
    BY <1>1, <1>3, <2>1, <2>2, RequestFacts DEF Alone, Counts
<1> QED
  BY <1>1, <1>2, <1>3

LEMMA BackOutMoves ==
    ASSUME RequestOK, NEW r \in Req, BackOut(r)
    PROVE  /\ Alone(r) /\ pc[r] = "backout" /\ Refused(r) /\ ReleaseConcurrent(T(r))
           /\ took' = took /\ gave'[r] = gave[r] + 1 /\ failed' = failed /\ leases' = leases
<1>1. /\ pc[r] = "backout" /\ Refuse(r) /\ ReleaseConcurrent(T(r))
      /\ gave' = [gave EXCEPT ![r] = @ + 1]
      /\ UNCHANGED <<config, leases, took, failed>>
  BY DEF BackOut
<1> QED
  BY <1>1, RefusedRequest DEF Alone, Counts, RequestOK

LEMMA ReleaseMoves ==
    ASSUME RequestOK, NEW r \in Req, ReleaseTenant(r) \/ ReleaseFails(r)
    PROVE  /\ Alone(r) /\ releasing[r] = 1 /\ releasing'[r] = 0
           /\ pc' = pc /\ released' = released /\ took' = took /\ r \in released
           /\ DropLease(At(r), T(r))
           /\ \/ ReleaseTenant(r) /\ gave'[r] = gave[r] + 1 /\ failed' = failed
              \/ ReleaseFails(r) /\ gave' = gave /\ r \in failed' /\ UNCHANGED <<states, cleanup>>
<1>0. releasing[r] \in {0, 1} /\ (r \notin released => releasing[r] = 0)
  BY RequestFacts
<1>1. CASE ReleaseTenant(r)
  BY <1>0, <1>1 DEF ReleaseTenant, Alone, Counts, RequestOK
<1>2. CASE ReleaseFails(r)
  BY <1>0, <1>2 DEF ReleaseFails, ClientFails, Alone, Counts, RequestOK
<1> QED
  BY <1>1, <1>2

LEMMA FinishMoves ==
    ASSUME RequestOK, NEW r \in Req, Finish(r)
    PROVE  /\ Alone(r) /\ pc[r] = "active" /\ pc'[r] = "over"
           /\ took' = took /\ gave' = gave /\ failed' = failed
           /\ states' = states /\ cleanup' = cleanup /\ leases' = leases
           /\ \/ Counts(r)' = Counts(r)
              \/ r \notin released /\ r \in released' /\ releasing'[r] = 1
<1>0. releasing[r] \in {0, 1} /\ (r \notin released => releasing[r] = 0)
  BY RequestFacts
<1> QED
  BY <1>0 DEF Finish, Release, Goto, history, Alone, Counts, RequestOK

LEMMA CloseMoves ==
    ASSUME RequestOK, NEW r \in Req, Close(r)
    PROVE  /\ Alone(r)
           /\ took' = took /\ gave' = gave /\ failed' = failed
           /\ states' = states /\ cleanup' = cleanup /\ leases' = leases
           /\ pc'[r] = IF pc[r] = "active" THEN "over" ELSE pc[r]
           /\ \/ Counts(r)' = Counts(r)
              \/ /\ r \notin released /\ r \in released' /\ releasing'[r] = 1
                 /\ pc[r] \notin {"new", "over"}
<1>0. /\ releasing[r] \in {0, 1} /\ (r \notin released => releasing[r] = 0)
      /\ pc[r] = "over" => r \in released \/ r \in closed
  BY RequestFacts
<1>1. r \notin closed /\ UNCHANGED <<config, states, cleanup, leases, took, gave, failed>>
  BY DEF Close, history
<1>2. CASE pc[r] = "new" /\ UNCHANGED <<pc, released, releasing>>
  BY <1>1, <1>2 DEF Alone, Counts
<1>3. CASE pc[r] \in Checking /\ Release(r) /\ UNCHANGED pc
  BY <1>0, <1>1, <1>3 DEF Release, Alone, Counts, RequestOK, Checking
<1>4. CASE pc[r] \in {"active", "over"} /\ Goto(r, "over") /\ Release(r)
  BY <1>0, <1>1, <1>4 DEF Release, Goto, Alone, Counts, RequestOK
<1> QED
  BY <1>2, <1>3, <1>4 DEF Close

LEMMA CheckFailsMoves ==
    ASSUME RequestOK, NEW r \in Req, CheckFails(r)
    PROVE  /\ Alone(r) /\ Redis /\ pc[r] \in {"rate", "acquire"} /\ Refused(r) /\ r \in failed'
           /\ gave' = gave /\ leases' = leases /\ cleanup' = cleanup
           /\ took[r] = 0 /\ took'[r] \in {0, 1}
<1>1. /\ Redis /\ pc[r] \in {"rate", "acquire"} /\ Refuse(r)
      /\ failed' = failed \cup {r} /\ UNCHANGED <<config, gave, leases, cleanup>>
  BY DEF CheckFails, ClientFails
<1>2. took' = took \/ took' = [took EXCEPT ![r] = 1]
  BY <1>1 DEF CheckFails, Counted
<1>3. took[r] = 0
  BY <1>1, RequestFacts
<1>4. took'[r] \in {0, 1} /\ \A q \in Req : q # r => took'[q] = took[q]
  BY <1>2, <1>3 DEF RequestOK
<1> QED
  BY <1>1, <1>3, <1>4, RefusedRequest DEF Alone, Counts

LEMMA BackOutFailsMoves ==
    ASSUME RequestOK, NEW r \in Req, BackOutFails(r)
    PROVE  /\ Alone(r) /\ Redis /\ pc[r] = "backout" /\ Refused(r) /\ r \in failed'
           /\ took' = took /\ took[r] = 1 /\ leases' = leases /\ cleanup' = cleanup
           /\ accepted' = accepted
           /\ \/ states' = states /\ gave' = gave
              \/ ReleaseConcurrent(T(r)) /\ gave'[r] = gave[r] + 1
<1>1. /\ Redis /\ pc[r] = "backout" /\ Refuse(r) /\ failed' = failed \cup {r}
      /\ UNCHANGED <<config, took, leases, cleanup, accepted>>
      /\ \/ states' = states /\ gave' = gave
         \/ ReleaseConcurrent(T(r)) /\ gave' = [gave EXCEPT ![r] = @ + 1]
  BY DEF BackOutFails, ClientFails, ReleaseConcurrent
<1>2. took[r] = 1
  BY <1>1 DEF RequestOK, RequestInv
<1>3. /\ \A q \in Req : q # r => gave'[q] = gave[q]
      /\ \/ states' = states /\ gave' = gave
         \/ ReleaseConcurrent(T(r)) /\ gave'[r] = gave[r] + 1
  BY <1>1 DEF RequestOK
<1> QED
  BY <1>1, <1>2, <1>3, RefusedRequest DEF Alone, Counts

\* A crash ends the requests of its instance.
LEMMA CrashMoves ==
    ASSUME RequestOK, NEW i \in Instance, Crash(i)
    PROVE  /\ config' = config /\ UNCHANGED <<took, gave, failed>>
           /\ Redis => states' = states
           /\ \A q \in Req : At(q) # i \/ pc[q] = "new" => pc'[q] = pc[q] /\ Counts(q)' = Counts(q)
           /\ \A q \in Req : At(q) = i /\ pc[q] # "new" =>
                pc'[q] = "over" /\ q \in released' /\ releasing'[q] = 0
           /\ ~Redis => \A q \in Req : At(q) = i
<1> DEFINE lost == {r \in Req : At(r) = i /\ pc[r] # "new"}
<1>1. /\ pc' = [r \in Req |-> IF r \in lost THEN "over" ELSE pc[r]]
      /\ released' = released \cup lost
      /\ releasing' = [r \in Req |-> IF r \in lost THEN 0 ELSE releasing[r]]
      /\ config' = config /\ UNCHANGED <<took, gave, failed>>
      /\ Redis => states' = states
  BY DEF Crash, history
<1>2. PICK p \in Req : At(p) = i
  BY DEF Crash
<1>3. ~Redis => \A q \in Req : At(q) = i
  BY <1>2, ConfigType DEF RequestOK
<1>4. \A q \in Req : q \in lost <=> At(q) = i /\ pc[q] # "new"
  OBVIOUS
<1> HIDE DEF lost
<1> QED
  BY <1>1, <1>3, <1>4 DEF Counts

\* Time and renewals touch no request.
LEMMA ClockMoves ==
    ASSUME RequestOK, Tick \/ (\E i \in Instance, t \in Tenant : RenewLease(i, t)) \/ UNCHANGED vars
    PROVE  config' = config /\ pc' = pc /\ \A q \in Req : Counts(q)' = Counts(q)
BY DEF Tick, RenewLease, vars, history, Counts

\* A state change of one request r leaves the others where they are counted.
LEMMA HoldersAlone ==
    ASSUME NEW r \in Req, Alone(r), NEW t
    PROVE  (Holders(t))' \ {r} = Holders(t) \ {r} /\ (Takers(t))' \ {r} = Takers(t) \ {r}
BY SameConfig DEF Alone, Counts, Holders, Takers

\* With no request in a check and no release under way, the holders of a slot
\* are served, so their instances hold leases.
LEMMA TickHolders ==
    ASSUME RequestOK, StoreOK, LeaseOK, LeaseholdersInv, LifeInv, Tick,
           NEW t \in Tenant, Limit(t) > 0, Hash(t).ttl = 1, Hash(t).concurrent > 0
    PROVE  Cardinality(Holders(t)) <= Cardinality(Takers(t))
<1>1. Redis
  BY HashType
<1>2. \A q \in Req : pc[q] \in {"new", "active", "over"} /\ releasing[q] = 0
  BY RequestFacts DEF Tick, Checking
<1>3. PICK A \in SUBSET Req : A = Holders(t)
  BY DEF Holders
<1>4. PICK D \in SUBSET Req : D = Takers(t)
  BY DEF Takers
<1>5. ASSUME NEW i \in Instance
      PROVE  Cardinality({r \in A : At(r) = i}) <= Cardinality({r \in D : At(r) = i})
  <2>1. leases[i][t].count \in Nat /\ leases[i][t].due \in 0..LeaseInterval
    BY DEF LeaseOK
  <2>2. leases[i][t].count = 0
    <3>1. leases[i][t].count > 0 => leases[i][t].due > 0
      BY DEF Tick
    <3>2. leases[i][t].count > 0 => leases[i][t].due < 1
      BY <1>1, <2>1, LeaseIntervalType DEF LifeInv
    <3> QED
      BY <2>1, <3>1, <3>2, LeaseIntervalType
  <2>3. PICK F \in SUBSET Req : F = Leaseholders(i, t)
    BY DEF Leaseholders
  <2>4. PICK G \in SUBSET Req : G = LeaseTakers(i, t)
    BY DEF LeaseTakers
  <2>5. Cardinality(F) <= Cardinality(G)
    <3>1. Cardinality(F) <= 0 + Cardinality(G)
      BY <1>1, <2>2, <2>3, <2>4 DEF LeaseholdersInv
    <3> QED
      BY <3>1, Counting
  <2>6. {r \in A : At(r) = i} \subseteq F
    BY <1>2, <1>3, <2>3 DEF Holders, Leaseholders
  <2>7. G \subseteq {r \in D : At(r) = i}
    <3> SUFFICES ASSUME NEW r \in G PROVE r \in D /\ At(r) = i
      OBVIOUS
    <3>1. /\ r \in Req /\ At(r) = i /\ T(r) = t /\ r \in released /\ releasing[r] = 0
          /\ gave[r] > took[r] \/ r \in failed
      BY <1>2, <2>4 DEF LeaseTakers
    <3>2. pc[r] \in {"active", "over"}
      BY <1>2, <3>1, RequestFacts
    <3> QED
      BY <1>4, <3>1, <3>2 DEF Takers
  <2>8. /\ Cardinality({r \in A : At(r) = i}) <= Cardinality(F)
        /\ Cardinality(G) <= Cardinality({r \in D : At(r) = i})
        /\ Cardinality(F) \in Nat /\ Cardinality(G) \in Nat
        /\ Cardinality({r \in A : At(r) = i}) \in Nat /\ Cardinality({r \in D : At(r) = i}) \in Nat
    BY <2>6, <2>7, Counting
  <2> QED
    BY <2>5, <2>8
<1> QED
  BY <1>3, <1>4, <1>5, OverInstances

LEMMA HoldersNext ==
    ASSUME RequestOK, StoreOK, LeaseOK, StoreOK', LimitInv, [Next]_vars
    PROVE  HoldersInv'
<1>1. \A r \in Req : T(r) \in Tenant /\ At(r) \in Instance
  BY ConfigType DEF RequestOK
<1>2. config' = config
  BY DEF Next, Tick, Crash, RenewLease, BeginCheck, CountHit, TakeSlot, Admit, ShareLease,
         StartLease, LeasesExhausted, BackOut, ReleaseTenant, Finish, Close, CheckFails,
         ReleaseFails, BackOutFails, vars
<1>3. \A r : At(r)' = At(r) /\ T(r)' = T(r) /\ Limit(r)' = Limit(r)
  BY <1>2, SameConfig
<1> SUFFICES ASSUME NEW t \in Tenant, Limit(t) > 0
             PROVE  (Cardinality(Holders(t)))' <= (Hash(t).concurrent)' + (Cardinality(Takers(t)))'
  BY <1>3 DEF HoldersInv
<1>4. PICK A \in SUBSET Req : A = Holders(t)
  BY DEF Holders
<1>5. PICK B \in SUBSET Req : B = (Holders(t))'
  BY <1>2 DEF Holders, T
<1>6. PICK D \in SUBSET Req : D = Takers(t)
  BY DEF Takers
<1>7. PICK E \in SUBSET Req : E = (Takers(t))'
  BY <1>2 DEF Takers, T
<1>8. PICK m \in Nat : m = Hash(t).concurrent
  BY HashType
<1>9. PICK n \in Nat : n = (Hash(t).concurrent)'
  <2>1. CASE t \in DOMAIN states'
    BY <2>1 DEF StoreOK, Hash, State
  <2>2. CASE t \notin DOMAIN states'
    BY <2>2 DEF Hash
  <2> QED
    BY <2>1, <2>2
<1>10. SUFFICES Cardinality(B) <= n + Cardinality(E)
  BY <1>5, <1>7, <1>9
<1>11. Cardinality(A) <= m + Cardinality(D)
  BY <1>4, <1>6, <1>8 DEF LimitInv, HoldersInv
<1>12. \A q \in Req : q \in A <=>
          /\ T(q) = t /\ took[q] = 1 /\ gave[q] = 0
          /\ \/ pc[q] \in {"acquired", "backout", "active"} /\ q \notin released
             \/ releasing[q] > 0
  BY <1>4 DEF Holders
<1>13. \A q \in Req : q \in B <=>
          /\ T(q) = t /\ took'[q] = 1 /\ gave'[q] = 0
          /\ \/ pc'[q] \in {"acquired", "backout", "active"} /\ q \notin released'
             \/ releasing'[q] > 0
  BY <1>3, <1>5 DEF Holders
<1>14. \A q \in Req : q \in D <=>
          /\ T(q) = t /\ q \in released /\ releasing[q] = 0
          /\ gave[q] > took[q] \/ (q \in failed /\ pc[q] \in {"active", "over"})
  BY <1>6 DEF Takers
<1>15. \A q \in Req : q \in E <=>
          /\ T(q) = t /\ q \in released' /\ releasing'[q] = 0
          /\ gave'[q] > took'[q] \/ (q \in failed' /\ pc'[q] \in {"active", "over"})
  BY <1>3, <1>7 DEF Takers
<1>16. ASSUME NEW r \in Req, Alone(r)
       PROVE  B \ {r} = A \ {r} /\ E \ {r} = D \ {r}
  BY <1>4, <1>5, <1>6, <1>7, <1>16, HoldersAlone
<1>17. ASSUME n >= m, B \subseteq A, D \subseteq E PROVE Cardinality(B) <= n + Cardinality(E)
  <2>1. Cardinality(B) <= Cardinality(A) /\ Cardinality(D) <= Cardinality(E)
    BY <1>17, Counting
  <2> QED
    BY <1>11, <1>17, <2>1, Counting
<1>18. ASSUME SlotsKept(t) PROVE n = m
  BY <1>8, <1>9, <1>18 DEF SlotsKept
<1>32. ASSUME Tick \/ (\E j \in Instance, u \in Tenant : RenewLease(j, u)) \/ UNCHANGED vars
       PROVE  B = A /\ E = D
  <2>1. /\ pc' = pc
        /\ \A q \in Req : /\ took'[q] = took[q] /\ gave'[q] = gave[q] /\ releasing'[q] = releasing[q]
                          /\ (q \in released' <=> q \in released) /\ (q \in failed' <=> q \in failed)
    BY <1>32, ClockMoves DEF Counts
  <2>2. B = A
    BY <1>12, <1>13, <2>1
  <2>3. E = D
    BY <1>14, <1>15, <2>1
  <2> QED
    BY <2>2, <2>3
<1>19. CASE Tick
  <2>1. TickOfHashes
    BY <1>19 DEF Tick, TickOfHashes
  <2>2. B = A /\ E = D
    BY <1>19, <1>32
  <2>3. CASE Hash(t).ttl # 1
    BY <1>2, <1>17, <1>18, <2>1, <2>2, <2>3, TickHash
  <2>4. CASE Hash(t).ttl = 1 /\ m = 0
    BY <1>17, <2>2, <2>4
  <2>5. CASE Hash(t).ttl = 1 /\ m # 0
    <3>1. Cardinality(A) <= Cardinality(D)
      BY <1>4, <1>6, <1>8, <1>19, <2>5, TickHolders DEF LimitInv
    <3> QED
      BY <2>2, <3>1, Counting
  <2> QED
    BY <2>3, <2>4, <2>5
<1>20. ASSUME NEW i \in Instance, Crash(i) PROVE Cardinality(B) <= n + Cardinality(E)
  <2>1. CASE Redis
    <3>1. n = m
      BY <1>8, <1>9, <1>20, <2>1, CrashMoves DEF Hash
    <3>2. B \subseteq A /\ D \subseteq E
      BY <1>12, <1>13, <1>14, <1>15, <1>20, CrashMoves, RequestFacts DEF Counts
    <3> QED
      BY <1>17, <3>1, <3>2
  <2>2. CASE ~Redis
    <3>1. B = {}
      BY <1>13, <1>20, <2>2, CrashMoves, RequestFacts DEF Counts
    <3>2. Cardinality(B) = 0
      BY <3>1, FS_EmptySet
    <3> QED
      BY <3>2, Counting
  <2> QED
    BY <2>1, <2>2
<1>21. ASSUME NEW i \in Instance, NEW u \in Tenant, RenewLease(i, u)
       PROVE  Cardinality(B) <= n + Cardinality(E)
  <2>1. /\ leases[i][u].count > 0 /\ cleanup' = cleanup
        /\ states' = IF Hash(u).concurrent > 0 THEN [states EXCEPT ![u].ttl = Ttl] ELSE states
    BY <1>21 DEF RenewLease
  <2>2. Redis
    BY <2>1 DEF LeaseOK
  <2>3. n = m
    BY <1>2, <1>18, <2>1, <2>2, RenewedHash
  <2>4. B = A /\ E = D
    BY <1>21, <1>32
  <2> QED
    BY <1>17, <2>3, <2>4
<1>22. ASSUME NEW r \in Req, BeginCheck(r) PROVE Cardinality(B) <= n + Cardinality(E)
  <2>1. n = m
    BY <1>2, <1>18, <1>22, BeginMoves, QuietStore
  <2>2. B \ {r} = A \ {r} /\ E \ {r} = D \ {r} /\ r \notin B /\ r \notin D
    BY <1>13, <1>14, <1>16, <1>22, BeginMoves, RequestFacts DEF Counts
  <2> QED
    BY <1>17, <2>1, <2>2
<1>23. ASSUME NEW r \in Req, CountHit(r) PROVE Cardinality(B) <= n + Cardinality(E)
  <2>0. PICK u \in Tenant : u = T(r)
    BY <1>1
  <2>1. PICK limited \in BOOLEAN : IncrementRate(u, limited)
    BY <1>23, <2>0 DEF CountHit
  <2>2. Rate(u) > 0
    BY <1>23, <2>0, HitMoves, RequestFacts
  <2>3. n = m
    BY <1>2, <1>18, <2>1, <2>2, RateScript DEF Elsewhere
  <2>4. B \ {r} = A \ {r} /\ E \ {r} = D \ {r}
    BY <1>16, <1>23, HitMoves
  <2>5. r \notin B
    BY <1>13, <1>23, HitMoves, RequestFacts DEF Refused, Counts
  <2>6. r \in D => r \in E
    BY <1>14, <1>15, <1>23, HitMoves, RequestFacts DEF Refused, Counts
  <2> QED
    BY <1>17, <2>3, <2>4, <2>5, <2>6
<1>24. ASSUME NEW r \in Req, TakeSlot(r) PROVE Cardinality(B) <= n + Cardinality(E)
  <2>0. PICK u \in Tenant : u = T(r)
    BY <1>1
  <2>1. B \ {r} = A \ {r} /\ E \ {r} = D \ {r}
    BY <1>16, <1>24, SlotMoves
  <2>2. CASE Refused(r) /\ took' = took /\ AcquireConcurrent(u, TRUE)
    <3>1. n = m
      BY <1>2, <1>18, <2>2, AcquireScript DEF Elsewhere
    <3>2. r \notin B
      <4>1. took[r] = 0
        BY <1>24, SlotMoves
      <4> QED
        BY <1>13, <2>2, <4>1
    <3>3. r \in D => r \in E
      BY <1>14, <1>15, <1>24, <2>2, SlotMoves, RequestFacts DEF Refused
    <3> QED
      BY <1>17, <2>1, <3>1, <3>2, <3>3
  <2>3. CASE /\ pc'[r] = "acquired" /\ AcquireConcurrent(u, FALSE)
             /\ took'[r] = (IF Redis \/ ~Detached(u) THEN 1 ELSE 0)
             /\ UNCHANGED <<released, releasing>>
    <3>1. /\ Elsewhere(u)
          /\ (Redis \/ ~Detached(u)) => (Hash(u).concurrent)' = Hash(u).concurrent + 1
          /\ ~Redis /\ Detached(u) => SlotsKept(u)
      BY <1>2, <2>3, AcquireScript
    <3>2. CASE u # t
      <4>1. n = m
        BY <1>18, <3>1, <3>2 DEF Elsewhere
      <4>2. r \notin B /\ r \notin D
        BY <1>13, <1>14, <2>0, <3>2
      <4> QED
        BY <1>17, <2>1, <4>1, <4>2
    <3>3. CASE u = t /\ ~Redis /\ Detached(u)
      <4>1. n = m
        BY <1>18, <3>1, <3>3
      <4>2. r \notin B
        BY <1>13, <2>3, <3>3
      <4>3. r \in D => r \in E
        BY <1>14, <1>15, <1>24, <2>3, <3>3, SlotMoves
      <4> QED
        BY <1>17, <2>1, <4>1, <4>2, <4>3
    <3>4. CASE u = t /\ (Redis \/ ~Detached(u))
      <4>1. n = m + 1
        BY <1>8, <1>9, <3>1, <3>4
      <4>2. r \in D => r \notin B
        BY <1>13, <1>14, <2>3
      <4> QED
        BY <1>11, <4>1, <2>1, <4>2, OneComes
    <3> QED
      BY <3>2, <3>3, <3>4
  <2> QED
    BY <1>24, <2>0, <2>2, <2>3, SlotMoves
<1>25. ASSUME NEW r \in Req, Admit(r) \/ ShareLease(r) \/ StartLease(r) \/ LeasesExhausted(r)
       PROVE  Cardinality(B) <= n + Cardinality(E)
  <2>1. n = m
    BY <1>2, <1>18, <1>25, AdmitMoves, QuietStore
  <2>2. B \ {r} = A \ {r} /\ E \ {r} = D \ {r}
    BY <1>16, <1>25, AdmitMoves
  <2>3. (r \in B => r \in A) /\ (r \in D => r \in E)
    BY <1>12, <1>13, <1>14, <1>15, <1>25, AdmitMoves DEF Counts
  <2> QED
    BY <1>17, <2>1, <2>2, <2>3
<1>26. ASSUME NEW r \in Req, BackOut(r) \/ ReleaseTenant(r)
       PROVE  Cardinality(B) <= n + Cardinality(E)
  <2>0. PICK u \in Tenant : u = T(r)
    BY <1>1
  <2>1. B \ {r} = A \ {r} /\ E \ {r} = D \ {r} /\ ReleaseConcurrent(u)
    BY <1>16, <1>26, <2>0, BackOutMoves, ReleaseMoves DEF ReleaseTenant
  <2>2. Elsewhere(u) /\ (Hash(u).concurrent)' = Less(Hash(u).concurrent)
    BY <1>2, <2>1, ReleaseScript
  <2>3. CASE u # t
    <3>1. n = m
      BY <1>18, <2>2, <2>3 DEF Elsewhere
    <3>2. r \notin B /\ r \notin D
      BY <1>13, <1>14, <2>0, <2>3
    <3> QED
      BY <1>17, <2>1, <3>1, <3>2
  <2>4. CASE u = t
    <3>1. n = Less(m)
      BY <1>8, <1>9, <2>2, <2>4
    <3>2. /\ r \notin B /\ r \notin D
          /\ r \in A \/ r \in E
      <4>1. CASE BackOut(r)
        <5>1. r \notin B /\ r \notin D
          BY <1>13, <1>14, <4>1, BackOutMoves, RequestFacts
        <5>2. /\ pc[r] = "backout" /\ pc'[r] = "over" /\ took[r] = 1 /\ took'[r] = 1
              /\ gave'[r] = gave[r] + 1 /\ gave[r] \in 0..2 /\ r \in released'
              /\ releasing'[r] = (IF r \in released THEN releasing[r] ELSE 1)
              /\ r \in failed' <=> r \in failed
          BY <4>1, BackOutMoves, RequestFacts DEF Refused
        <5>3. /\ releasing[r] \in {0, 1} /\ gave[r] + releasing[r] <= 1
              /\ r \notin released => gave[r] = 0
              /\ r \in released /\ r \notin failed => gave[r] + releasing[r] = 1
          BY <5>2, RequestFacts
        <5>4. CASE gave[r] = 0 /\ (r \notin released \/ releasing[r] > 0)
          BY <1>12, <2>0, <2>4, <5>1, <5>2, <5>4
        <5>5. CASE ~(gave[r] = 0 /\ (r \notin released \/ releasing[r] > 0))
          <6>1. r \in released /\ releasing'[r] = 0 /\ (gave[r] = 1 \/ r \in failed)
            BY <5>2, <5>3, <5>5
          <6>2. gave'[r] > took'[r] \/ (r \in failed' /\ pc'[r] = "over")
            BY <5>2, <6>1
          <6>3. r \in E
            BY <1>15, <2>0, <2>4, <5>2, <6>1, <6>2
          <6> QED
            BY <5>1, <6>3
        <5> QED
          BY <5>4, <5>5
      <4>2. CASE ReleaseTenant(r)
        <5>0. gave'[r] = gave[r] + 1
          BY <4>2 DEF ReleaseTenant, RequestOK
        <5>1. r \notin B /\ r \notin D
          BY <1>13, <1>14, <4>2, <5>0, ReleaseMoves, RequestFacts
        <5>2. /\ releasing[r] = 1 /\ releasing'[r] = 0 /\ r \in released' /\ took'[r] = took[r]
              /\ took[r] \in {0, 1} /\ gave[r] \in 0..2
          BY <4>2, ReleaseMoves, RequestFacts
        <5>3. CASE took[r] = 1 /\ gave[r] = 0
          <6>1. releasing[r] > 0
            BY <5>2
          <6>2. r \in A
            BY <1>12, <2>0, <2>4, <5>3, <6>1
          <6> QED
            BY <5>1, <6>2
        <5>4. CASE ~(took[r] = 1 /\ gave[r] = 0)
          <6>1. gave'[r] > took'[r]
            BY <5>0, <5>2, <5>4
          <6> QED
            BY <1>15, <2>0, <2>4, <5>1, <5>2, <6>1
        <5> QED
          BY <5>3, <5>4
      <4> QED
        BY <1>26, <4>1, <4>2
    <3> QED
      BY <1>11, <3>1, <2>1, <3>2, OneGoes
  <2> QED
    BY <2>3, <2>4
<1>27. ASSUME NEW r \in Req, Finish(r) PROVE Cardinality(B) <= n + Cardinality(E)
  <2>1. n = m
    BY <1>2, <1>18, <1>27, FinishMoves, QuietStore
  <2>2. B \ {r} = A \ {r} /\ E \ {r} = D \ {r}
    BY <1>16, <1>27, FinishMoves
  <2>3. (r \in B => r \in A) /\ (r \in D => r \in E)
    BY <1>12, <1>13, <1>14, <1>15, <1>27, FinishMoves, RequestFacts DEF Counts
  <2> QED
    BY <1>17, <2>1, <2>2, <2>3
<1>28. ASSUME NEW r \in Req, Close(r) PROVE Cardinality(B) <= n + Cardinality(E)
  <2>1. n = m
    BY <1>2, <1>18, <1>28, CloseMoves, QuietStore
  <2>2. B \ {r} = A \ {r} /\ E \ {r} = D \ {r}
    BY <1>16, <1>28, CloseMoves
  <2>3. (r \in B => r \in A) /\ (r \in D => r \in E)
    BY <1>12, <1>13, <1>14, <1>15, <1>28, CloseMoves, RequestFacts DEF Counts
  <2> QED
    BY <1>17, <2>1, <2>2, <2>3
<1>29. ASSUME NEW r \in Req, CheckFails(r) PROVE Cardinality(B) <= n + Cardinality(E)
  <2>0. PICK u \in Tenant : u = T(r)
    BY <1>1
  <2>1. B \ {r} = A \ {r} /\ E \ {r} = D \ {r}
    BY <1>16, <1>29, CheckFailsMoves
  <2>2. r \in D => r \in E
    BY <1>14, <1>15, <1>29, CheckFailsMoves DEF Refused
  <2>3. CASE states' = states /\ UNCHANGED <<took, accepted>>
    <3>1. n = m
      BY <1>8, <1>9, <2>3 DEF Hash
    <3>2. r \notin B
      BY <1>13, <1>29, <2>3, CheckFailsMoves
    <3> QED
      BY <1>17, <2>1, <2>2, <3>1, <3>2
  <2>4. CASE (\E limited \in BOOLEAN : IncrementRate(u, limited)) /\ Rate(u) > 0 /\ took' = took
    <3>1. n = m
      BY <1>2, <1>18, <2>4, RateScript DEF Elsewhere
    <3>2. r \notin B
      BY <1>13, <1>29, <2>4, CheckFailsMoves
    <3> QED
      BY <1>17, <2>1, <2>2, <3>1, <3>2
  <2>5. CASE AcquireConcurrent(u, FALSE)
    <3>1. Elsewhere(u) /\ (Hash(u).concurrent)' = Hash(u).concurrent + 1
      BY <1>2, <1>29, <2>5, CheckFailsMoves, AcquireScript
    <3>2. CASE u # t
      <4>1. n = m
        BY <1>18, <3>1, <3>2 DEF Elsewhere
      <4>2. r \notin B /\ r \notin D
        BY <1>13, <1>14, <2>0, <3>2
      <4> QED
        BY <1>17, <2>1, <4>1, <4>2
    <3>3. CASE u = t
      <4>1. n = m + 1
        BY <1>8, <1>9, <3>1, <3>3
      <4> QED
        BY <1>11, <2>1, <2>2, <4>1, Balance
    <3> QED
      BY <3>2, <3>3
  <2> QED
    BY <1>29, <2>0, <2>3, <2>4, <2>5, FailedScript
<1>33. ASSUME NEW r \in Req, BackOutFails(r) PROVE Cardinality(B) <= n + Cardinality(E)
  <2>0. PICK u \in Tenant : u = T(r)
    BY <1>1
  <2>1. B \ {r} = A \ {r} /\ E \ {r} = D \ {r}
    BY <1>16, <1>33, BackOutFailsMoves
  <2>2. /\ pc[r] = "backout" /\ pc'[r] = "over" /\ took[r] = 1 /\ took'[r] = 1
        /\ r \in released' /\ r \in failed'
        /\ releasing'[r] = (IF r \in released THEN releasing[r] ELSE 1)
    BY <1>33, BackOutFailsMoves DEF Refused
  <2>3. /\ releasing[r] \in {0, 1} /\ gave[r] \in 0..2 /\ gave[r] + releasing[r] <= 1
        /\ r \notin released => gave[r] = 0
    BY <2>2, RequestFacts
  <2>4. CASE states' = states /\ gave' = gave
    <3>1. n = m
      BY <1>8, <1>9, <2>4 DEF Hash
    <3>2. r \in B => r \in A
      BY <1>12, <1>13, <2>2, <2>3, <2>4
    <3>3. r \in D => r \in E
      BY <1>14, <1>15, <2>2, <2>3, <2>4
    <3> QED
      BY <1>17, <2>1, <3>1, <3>2, <3>3
  <2>5. CASE ReleaseConcurrent(u) /\ gave'[r] = gave[r] + 1
    <3>1. Elsewhere(u) /\ (Hash(u).concurrent)' = Less(Hash(u).concurrent)
      BY <1>2, <2>5, ReleaseScript
    <3>2. CASE u # t
      <4>1. n = m
        BY <1>18, <3>1, <3>2 DEF Elsewhere
      <4>2. r \notin B /\ r \notin D
        BY <1>13, <1>14, <2>0, <3>2
      <4> QED
        BY <1>17, <2>1, <4>1, <4>2
    <3>3. CASE u = t
      <4>1. n = Less(m)
        BY <1>8, <1>9, <3>1, <3>3
      <4>2. r \notin B /\ r \notin D
        BY <1>13, <1>14, <2>2, <2>3, <2>5
      <4>3. CASE gave[r] = 0 /\ (r \notin released \/ releasing[r] > 0)
        <5>1. r \in A
          BY <1>12, <2>0, <2>2, <3>3, <4>3
        <5> QED
          BY <1>11, <2>1, <4>1, <4>2, <5>1, OneGoes
      <4>4. CASE ~(gave[r] = 0 /\ (r \notin released \/ releasing[r] > 0))
        <5>1. releasing'[r] = 0
          BY <2>2, <2>3, <4>4
        <5>2. r \in E
          BY <1>15, <2>0, <2>2, <3>3, <5>1
        <5> QED
          BY <1>11, <2>1, <4>1, <4>2, <5>2, OneGoes
      <4> QED
        BY <4>3, <4>4
    <3> QED
      BY <3>2, <3>3
  <2> QED
    BY <1>33, <2>0, <2>4, <2>5, BackOutFailsMoves
<1>30. ASSUME NEW r \in Req, ReleaseFails(r) PROVE Cardinality(B) <= n + Cardinality(E)
  <2>1. n = m
    BY <1>2, <1>18, <1>30, QuietStore DEF ReleaseFails
  <2>2. B \ {r} = A \ {r} /\ E \ {r} = D \ {r}
    BY <1>16, <1>30, ReleaseMoves
  <2>3. r \notin B /\ r \notin D
    BY <1>13, <1>14, <1>30, ReleaseMoves
  <2> QED
    BY <1>17, <2>1, <2>2, <2>3
<1>31. CASE UNCHANGED vars
  <2>1. states' = states
    BY <1>31 DEF vars
  <2>2. n = m
    BY <1>8, <1>9, <2>1 DEF Hash
  <2>3. B = A /\ E = D
    BY <1>31, <1>32
  <2> QED
    BY <1>17, <2>2, <2>3
<1> QED
  BY <1>19, <1>20, <1>21, <1>22, <1>23, <1>24, <1>25, <1>26, <1>27, <1>28, <1>29, <1>30, <1>31,
     <1>33 DEF Next

LEMMA LeaseholdersAlone ==
    ASSUME NEW r \in Req, Alone(r), NEW i, NEW t
    PROVE  /\ (Leaseholders(i, t))' \ {r} = Leaseholders(i, t) \ {r}
           /\ (LeaseTakers(i, t))' \ {r} = LeaseTakers(i, t) \ {r}
BY SameConfig DEF Alone, Counts, Leaseholders, LeaseTakers

LEMMA LeaseholdersNext ==
    ASSUME RequestOK, LeaseOK, LeaseOK', LeaseholdersInv, [Next]_vars
    PROVE  LeaseholdersInv'
<1>1. \A r \in Req : T(r) \in Tenant /\ At(r) \in Instance
  BY ConfigType DEF RequestOK
<1>2. config' = config
  BY DEF Next, Tick, Crash, RenewLease, BeginCheck, CountHit, TakeSlot, Admit, ShareLease,
         StartLease, LeasesExhausted, BackOut, ReleaseTenant, Finish, Close, CheckFails,
         ReleaseFails, BackOutFails, vars
<1>3. (Redis' <=> Redis) /\ \A r : At(r)' = At(r) /\ T(r)' = T(r) /\ Limit(r)' = Limit(r)
  BY <1>2, SameConfig
<1> SUFFICES ASSUME Redis, NEW i \in Instance, NEW t \in Tenant, Limit(t) > 0
             PROVE  (Cardinality(Leaseholders(i, t)))' <=
                        leases'[i][t].count + (Cardinality(LeaseTakers(i, t)))'
  BY <1>3 DEF LeaseholdersInv
<1>4. PICK A \in SUBSET Req : A = Leaseholders(i, t)
  BY DEF Leaseholders
<1>5. PICK B \in SUBSET Req : B = (Leaseholders(i, t))'
  BY <1>2 DEF Leaseholders, T, At
<1>6. PICK D \in SUBSET Req : D = LeaseTakers(i, t)
  BY DEF LeaseTakers
<1>7. PICK E \in SUBSET Req : E = (LeaseTakers(i, t))'
  BY <1>2 DEF LeaseTakers, T, At
<1>8. PICK m \in Nat : m = leases[i][t].count
  BY DEF LeaseOK
<1>9. PICK n \in Nat : n = leases'[i][t].count
  BY DEF LeaseOK
<1>10. SUFFICES Cardinality(B) <= n + Cardinality(E)
  BY <1>5, <1>7, <1>9
<1>11. Cardinality(A) <= m + Cardinality(D)
  BY <1>4, <1>6, <1>8 DEF LeaseholdersInv
<1>12. \A q \in Req : q \in A <=>
          /\ At(q) = i /\ T(q) = t
          /\ \/ pc[q] = "active" /\ (q \notin released \/ releasing[q] > 0)
             \/ /\ pc[q] = "over" /\ releasing[q] > 0
                /\ took[q] = 1 /\ gave[q] = 0 /\ q \notin failed
  BY <1>4 DEF Leaseholders
<1>13. \A q \in Req : q \in B <=>
          /\ At(q) = i /\ T(q) = t
          /\ \/ pc'[q] = "active" /\ (q \notin released' \/ releasing'[q] > 0)
             \/ /\ pc'[q] = "over" /\ releasing'[q] > 0
                /\ took'[q] = 1 /\ gave'[q] = 0 /\ q \notin failed'
  BY <1>3, <1>5 DEF Leaseholders
<1>14. \A q \in Req : q \in D <=>
          /\ At(q) = i /\ T(q) = t /\ q \in released /\ releasing[q] = 0
          /\ gave[q] > took[q] \/ q \in failed \/ pc[q] \in {"acquired", "backout"}
  BY <1>6 DEF LeaseTakers
<1>15. \A q \in Req : q \in E <=>
          /\ At(q) = i /\ T(q) = t /\ q \in released' /\ releasing'[q] = 0
          /\ gave'[q] > took'[q] \/ q \in failed' \/ pc'[q] \in {"acquired", "backout"}
  BY <1>3, <1>7 DEF LeaseTakers
<1>16. ASSUME NEW r \in Req, Alone(r)
       PROVE  B \ {r} = A \ {r} /\ E \ {r} = D \ {r}
  BY <1>4, <1>5, <1>6, <1>7, <1>16, LeaseholdersAlone
<1>17. ASSUME n = m, B \subseteq A, D \subseteq E PROVE Cardinality(B) <= n + Cardinality(E)
  <2>1. Cardinality(B) <= Cardinality(A) /\ Cardinality(D) <= Cardinality(E)
    BY <1>17, Counting
  <2> QED
    BY <1>11, <1>17, <2>1, Counting
<1>31. ASSUME Tick \/ (\E j \in Instance, u \in Tenant : RenewLease(j, u)) \/ UNCHANGED vars
       PROVE  B = A /\ E = D
  <2>1. /\ pc' = pc
        /\ \A q \in Req : /\ took'[q] = took[q] /\ gave'[q] = gave[q] /\ releasing'[q] = releasing[q]
                          /\ (q \in released' <=> q \in released) /\ (q \in failed' <=> q \in failed)
    BY <1>31, ClockMoves DEF Counts
  <2>2. B = A
    BY <1>12, <1>13, <2>1
  <2>3. E = D
    BY <1>14, <1>15, <2>1
  <2> QED
    BY <2>2, <2>3
<1>18. CASE Tick
  <2>1. n = m
    <3>1. leases'[i][t] = [leases[i][t] EXCEPT !.due = Less(@)]
      BY <1>18 DEF Tick
    <3>2. leases[i][t] \in [count : Nat, due : 0..LeaseInterval]
      BY DEF LeaseOK
    <3> QED
      BY <1>8, <1>9, <3>1, <3>2
  <2>2. B = A /\ E = D
    BY <1>18, <1>31
  <2> QED
    BY <1>17, <2>1, <2>2
<1>19. ASSUME NEW j \in Instance, Crash(j) PROVE Cardinality(B) <= n + Cardinality(E)
  <2>1. CASE j = i
    <3>1. B = {}
      BY <1>13, <1>19, <2>1, CrashMoves, RequestFacts DEF Counts
    <3>2. Cardinality(B) = 0
      BY <3>1, FS_EmptySet
    <3> QED
      BY <3>2, Counting
  <2>2. CASE j # i
    <3>1. n = m
      BY <1>8, <1>9, <1>19, <2>2 DEF Crash, LeaseOK
    <3>2. B = A /\ E = D
      BY <1>12, <1>13, <1>14, <1>15, <1>19, <2>2, CrashMoves DEF Counts
    <3> QED
      BY <1>17, <3>1, <3>2
  <2> QED
    BY <2>1, <2>2
<1>20. ASSUME NEW j \in Instance, NEW u \in Tenant, RenewLease(j, u)
       PROVE  Cardinality(B) <= n + Cardinality(E)
  <2>1. n = m
    BY <1>8, <1>9, <1>20 DEF RenewLease, LeaseOK
  <2>2. B = A /\ E = D
    BY <1>20, <1>31
  <2> QED
    BY <1>17, <2>1, <2>2
<1>21. ASSUME NEW r \in Req, BeginCheck(r) PROVE Cardinality(B) <= n + Cardinality(E)
  <2>1. n = m
    BY <1>8, <1>9, <1>21, BeginMoves
  <2>2. B \ {r} = A \ {r} /\ E \ {r} = D \ {r} /\ r \notin B /\ r \notin D
    BY <1>13, <1>14, <1>16, <1>21, BeginMoves, RequestFacts DEF Counts
  <2> QED
    BY <1>17, <2>1, <2>2
<1>22. ASSUME NEW r \in Req, CountHit(r) PROVE Cardinality(B) <= n + Cardinality(E)
  <2>1. n = m
    BY <1>8, <1>9, <1>22, HitMoves
  <2>2. B \ {r} = A \ {r} /\ E \ {r} = D \ {r}
    BY <1>16, <1>22, HitMoves
  <2>3. /\ pc[r] = "rate" /\ took'[r] = 0 /\ took[r] = 0 /\ gave'[r] = gave[r]
        /\ r \in failed' <=> r \in failed
        /\ (pc'[r] = "acquire" /\ Counts(r)' = Counts(r)) \/ Refused(r)
    BY <1>22, HitMoves, RequestFacts
  <2>4. r \notin B
    BY <1>13, <2>3 DEF Refused
  <2>5. r \in D => r \in E
    BY <1>14, <1>15, <2>3 DEF Refused, Counts
  <2> QED
    BY <1>17, <2>1, <2>2, <2>4, <2>5
<1>23. ASSUME NEW r \in Req, TakeSlot(r) PROVE Cardinality(B) <= n + Cardinality(E)
  <2>1. n = m
    BY <1>8, <1>9, <1>23, SlotMoves
  <2>2. B \ {r} = A \ {r} /\ E \ {r} = D \ {r}
    BY <1>16, <1>23, SlotMoves
  <2>3. /\ pc[r] = "acquire" /\ took[r] = 0 /\ gave'[r] = gave[r]
        /\ r \in failed' <=> r \in failed
        /\ \/ Refused(r) /\ took'[r] = 0
           \/ pc'[r] = "acquired" /\ UNCHANGED <<released, releasing>>
    BY <1>23, SlotMoves
  <2>4. r \notin B
    BY <1>13, <2>3 DEF Refused
  <2>5. r \in D => r \in E
    BY <1>14, <1>15, <2>3 DEF Refused
  <2> QED
    BY <1>17, <2>1, <2>2, <2>4, <2>5
<1>24. ASSUME NEW r \in Req, Admit(r) \/ LeasesExhausted(r)
       PROVE  Cardinality(B) <= n + Cardinality(E)
  <2>1. LeasesExhausted(r)
    BY <1>24 DEF Admit
  <2>2. n = m
    BY <1>8, <1>9, <2>1 DEF LeasesExhausted
  <2>3. B \ {r} = A \ {r} /\ E \ {r} = D \ {r}
    BY <1>16, <2>1, AdmitMoves
  <2>4. r \notin B /\ (r \in D => r \in E)
    BY <1>13, <1>14, <1>15, <2>1, AdmitMoves DEF Counts
  <2> QED
    BY <1>17, <2>2, <2>3, <2>4
<1>25. ASSUME NEW r \in Req, ShareLease(r) \/ StartLease(r)
       PROVE  Cardinality(B) <= n + Cardinality(E)
  <2>1. /\ \A j \in Instance, u \in Tenant : j # At(r) \/ u # T(r) => leases'[j][u] = leases[j][u]
        /\ leases'[At(r)][T(r)].count = leases[At(r)][T(r)].count + 1
    BY <1>25, AdmittedLease
  <2>2. /\ Alone(r) /\ Counts(r)' = Counts(r) /\ pc[r] = "acquired"
        /\ ~LeasesExhausted(r) => pc'[r] = "active"
    BY <1>25, AdmitMoves
  <2>3. ~LeasesExhausted(r)
    BY <1>25, <2>2 DEF LeasesExhausted, ShareLease, StartLease, Goto, RequestOK
  <2>4. B \ {r} = A \ {r} /\ E \ {r} = D \ {r}
    BY <1>16, <2>2
  <2>5. CASE At(r) = i /\ T(r) = t
    <3>1. n = m + 1
      BY <1>8, <1>9, <2>1, <2>5
    <3>2. r \in D => r \notin B
      BY <1>13, <1>14, <2>2, <2>3 DEF Counts
    <3> QED
      BY <1>11, <3>1, <2>4, <3>2, OneComes
  <2>6. CASE At(r) # i \/ T(r) # t
    <3>1. n = m
      BY <1>8, <1>9, <2>1, <2>6
    <3>2. r \notin B /\ r \notin D
      BY <1>13, <1>14, <2>6
    <3> QED
      BY <1>17, <2>4, <3>1, <3>2
  <2> QED
    BY <2>5, <2>6
<1>26. ASSUME NEW r \in Req, BackOut(r) PROVE Cardinality(B) <= n + Cardinality(E)
  <2>1. n = m
    BY <1>8, <1>9, <1>26, BackOutMoves
  <2>2. B \ {r} = A \ {r} /\ E \ {r} = D \ {r}
    BY <1>16, <1>26, BackOutMoves
  <2>3. /\ pc[r] = "backout" /\ pc'[r] = "over" /\ took'[r] = 1
        /\ gave'[r] = gave[r] + 1 /\ gave[r] \in 0..2
        /\ r \in released' /\ releasing'[r] = (IF r \in released THEN releasing[r] ELSE 1)
        /\ r \in failed' <=> r \in failed
    BY <1>26, BackOutMoves, RequestFacts DEF Refused
  <2>4. r \in released /\ r \notin failed => gave[r] + releasing[r] = 1
    BY <2>3, RequestFacts
  <2>5. r \notin B
    BY <1>13, <2>3
  <2>6. r \in D => r \in E
    <3> SUFFICES ASSUME r \in D PROVE r \in E
      OBVIOUS
    <3>1. At(r) = i /\ T(r) = t /\ r \in released /\ releasing[r] = 0
      BY <1>14
    <3>2. gave'[r] > took'[r] \/ r \in failed'
      BY <2>3, <2>4, <3>1
    <3> QED
      BY <1>15, <2>3, <3>1, <3>2
  <2> QED
    BY <1>17, <2>1, <2>2, <2>5, <2>6
<1>27. ASSUME NEW r \in Req, ReleaseTenant(r) \/ ReleaseFails(r)
       PROVE  Cardinality(B) <= n + Cardinality(E)
  <2>1. /\ \A j \in Instance, u \in Tenant : j # At(r) \/ u # T(r) => leases'[j][u] = leases[j][u]
        /\ leases'[At(r)][T(r)].count = Less(leases[At(r)][T(r)].count)
    BY <1>1, <1>2, <1>27, ReleaseMoves, DroppedLease
  <2>2. B \ {r} = A \ {r} /\ E \ {r} = D \ {r}
    BY <1>16, <1>27, ReleaseMoves
  <2>3. /\ releasing[r] = 1 /\ releasing'[r] = 0 /\ r \in released /\ r \in released'
        /\ pc'[r] = pc[r] /\ took'[r] = took[r] /\ took[r] \in {0, 1} /\ gave[r] \in 0..2
        /\ gave'[r] = gave[r] + 1 \/ r \in failed'
        /\ r \in failed => r \in failed'
    BY <1>27, ReleaseMoves, RequestFacts
  <2>4. r \notin B /\ r \notin D
    BY <1>13, <1>14, <2>3
  <2>5. CASE At(r) = i /\ T(r) = t
    <3>1. n = Less(m)
      BY <1>8, <1>9, <2>1, <2>5
    <3>2. r \in A \/ r \in E
      <4>1. CASE pc[r] = "active" \/ (pc[r] = "over" /\ took[r] = 1 /\ gave[r] = 0 /\ r \notin failed)
        <5>1. releasing[r] > 0
          BY <2>3
        <5> QED
          BY <1>12, <2>5, <4>1, <5>1
      <4>2. CASE ~(pc[r] = "active" \/ (pc[r] = "over" /\ took[r] = 1 /\ gave[r] = 0 /\ r \notin failed))
        <5>1. \/ took[r] = 0 \/ gave[r] > 0 \/ r \in failed \/ pc[r] \in {"acquired", "backout"}
          BY <2>3, <4>2, RequestFacts
        <5>2. gave'[r] > took'[r] \/ r \in failed' \/ pc'[r] \in {"acquired", "backout"}
          BY <2>3, <5>1
        <5> QED
          BY <1>15, <2>3, <2>5, <5>2
      <4> QED
        BY <4>1, <4>2
    <3> QED
      BY <1>11, <3>1, <2>2, <2>4, <3>2, OneGoes
  <2>6. CASE At(r) # i \/ T(r) # t
    <3>1. n = m
      BY <1>8, <1>9, <2>1, <2>6
    <3> QED
      BY <1>17, <2>2, <2>4, <3>1
  <2> QED
    BY <2>5, <2>6
<1>28. ASSUME NEW r \in Req, Finish(r) \/ Close(r) PROVE Cardinality(B) <= n + Cardinality(E)
  <2>1. n = m
    BY <1>8, <1>9, <1>28, FinishMoves, CloseMoves
  <2>2. B \ {r} = A \ {r} /\ E \ {r} = D \ {r}
    BY <1>16, <1>28, FinishMoves, CloseMoves
  <2>3. /\ \/ Counts(r)' = Counts(r)
           \/ /\ r \notin released /\ r \in released' /\ releasing'[r] = 1
              /\ pc[r] \notin {"new", "over"}
        /\ pc'[r] = IF pc[r] = "active" THEN "over" ELSE pc[r]
    BY <1>28, FinishMoves, CloseMoves
  <2>4. r \in B => r \in A
    BY <1>12, <1>13, <2>3 DEF Counts
  <2>5. r \in D => r \in E
    BY <1>14, <1>15, <1>28, <2>3 DEF Counts
  <2> QED
    BY <1>17, <2>1, <2>2, <2>4, <2>5
<1>29. ASSUME NEW r \in Req, CheckFails(r) PROVE Cardinality(B) <= n + Cardinality(E)
  <2>1. n = m
    BY <1>8, <1>9, <1>29, CheckFailsMoves
  <2>2. B \ {r} = A \ {r} /\ E \ {r} = D \ {r}
    BY <1>16, <1>29, CheckFailsMoves
  <2>3. r \notin B /\ (r \in D => r \in E)
    BY <1>13, <1>14, <1>15, <1>29, CheckFailsMoves DEF Refused
  <2> QED
    BY <1>17, <2>1, <2>2, <2>3
<1>32. ASSUME NEW r \in Req, BackOutFails(r) PROVE Cardinality(B) <= n + Cardinality(E)
  <2>1. n = m
    BY <1>8, <1>9, <1>32, BackOutFailsMoves
  <2>2. B \ {r} = A \ {r} /\ E \ {r} = D \ {r}
    BY <1>16, <1>32, BackOutFailsMoves
  <2>3. /\ pc[r] = "backout" /\ pc'[r] = "over" /\ r \in released' /\ r \in failed'
        /\ releasing'[r] = (IF r \in released THEN releasing[r] ELSE 1)
    BY <1>32, BackOutFailsMoves DEF Refused
  <2>4. r \notin B
    BY <1>13, <2>3
  <2>5. r \in D => r \in E
    BY <1>14, <1>15, <2>3
  <2> QED
    BY <1>17, <2>1, <2>2, <2>4, <2>5
<1>30. CASE UNCHANGED vars
  <2>1. n = m
    BY <1>8, <1>9, <1>30 DEF vars
  <2>2. B = A /\ E = D
    BY <1>30, <1>31
  <2> QED
    BY <1>17, <2>1, <2>2
<1> QED
  BY <1>18, <1>19, <1>20, <1>21, <1>22, <1>23, <1>24, <1>25, <1>26, <1>27, <1>28, <1>29, <1>30,
     <1>32 DEF Next

\* Scripts shorten no life, and give a slot to a hash with its whole life.
LifeScripts == \A u \in Tenant :
    /\ LifeKept(u)
    /\ (Hash(u).concurrent)' > 0 => Hash(u).concurrent > 0 \/ (Hash(u).ttl)' >= Ttl

LEMMA QuietLife ==
    ASSUME \A u \in Tenant : SlotsKept(u) /\ LifeKept(u)
    PROVE  LifeScripts
BY DEF LifeScripts, SlotsKept

LEMMA ScriptsLife ==
    ASSUME RequestOK, StoreOK, config' = config, Redis, NEW t \in Tenant,
           \/ Rate(t) > 0 /\ \E limited \in BOOLEAN : IncrementRate(t, limited)
           \/ \E limited \in BOOLEAN : AcquireConcurrent(t, limited)
           \/ ReleaseConcurrent(t)
    PROVE  LifeScripts
<1>1. CASE Rate(t) > 0 /\ \E limited \in BOOLEAN : IncrementRate(t, limited)
  <2>1. PICK limited \in BOOLEAN : IncrementRate(t, limited)
    BY <1>1
  <2>2. Elsewhere(t) /\ SlotsKept(t) /\ LifeKept(t)
    BY <1>1, <2>1, RateScript
  <2> QED
    BY <2>2, QuietLife DEF Elsewhere
<1>2. CASE \E limited \in BOOLEAN : AcquireConcurrent(t, limited)
  <2>1. PICK limited \in BOOLEAN : AcquireConcurrent(t, limited)
    BY <1>2
  <2>2. /\ Elsewhere(t) /\ LifeKept(t)
        /\ SlotsKept(t) \/ (Hash(t).ttl)' = Ttl
    BY <2>1, AcquireScript
  <2>3. Ttl >= Ttl
    BY WindowType
  <2>4. \A u \in Tenant : LifeKept(u) /\ (SlotsKept(u) \/ (Hash(u).ttl)' >= Ttl)
    BY <2>2, <2>3 DEF Elsewhere
  <2> QED
    BY <2>4 DEF LifeScripts, SlotsKept
<1>3. CASE ReleaseConcurrent(t)
  <2>1. /\ Elsewhere(t) /\ LifeKept(t)
        /\ (Hash(t).concurrent)' = Less(Hash(t).concurrent)
    BY <1>3, ReleaseScript
  <2>2. Hash(t).concurrent \in Nat
    BY HashType
  <2>3. (Hash(t).concurrent)' > 0 => Hash(t).concurrent > 0
    BY <2>1, <2>2 DEF Less
  <2>4. \A u \in Tenant : u # t => LifeKept(u) /\ SlotsKept(u)
    BY <2>1 DEF Elsewhere
  <2> QED
    BY <2>1, <2>3, <2>4 DEF LifeScripts, SlotsKept
<1> QED
  BY <1>1, <1>2, <1>3

LEMMA LifeKeeping ==
    ASSUME RequestOK, StoreOK, StoreOK', LeaseOK, LeaseOK', LifeInv, config' = config, Redis, LifeScripts,
           \A i \in Instance, t \in Tenant : leases'[i][t].count > 0 =>
               \/ leases[i][t].count > 0 /\ leases'[i][t].due = leases[i][t].due
               \/ (Hash(t).concurrent)' > 0 => (Hash(t).ttl)' >= Ttl,
           \A r \in Req : pc'[r] = "acquired" => pc[r] = "acquired" \/ (Hash(T(r)).ttl)' >= Ttl
    PROVE  LifeInv'
<1>1. \A r \in Req : T(r) \in Tenant
  BY ConfigType DEF RequestOK
<1>2. (Redis' <=> Redis) /\ \A r : T(r)' = T(r)
  BY SameConfig
<1>3. ASSUME NEW i \in Instance, NEW t \in Tenant, leases'[i][t].count > 0, (Hash(t).concurrent)' > 0
      PROVE  (Hash(t).ttl)' > leases'[i][t].due
  <2>1. PICK d \in 0..LeaseInterval : d = leases'[i][t].due
    BY DEF LeaseOK
  <2>2. PICK x \in Nat : x = (Hash(t).ttl)'
    <3>1. CASE t \in DOMAIN states'
      BY <3>1 DEF StoreOK, Hash, State
    <3>2. CASE t \notin DOMAIN states'
      BY <3>2 DEF Hash
    <3> QED
      BY <3>1, <3>2
  <2>3. LeaseInterval \in Nat /\ LeaseInterval < Ttl /\ Ttl \in Nat
    BY LeaseIntervalType, WindowType
  <2>4. CASE x >= Ttl
    BY <2>1, <2>2, <2>3, <2>4
  <2>5. CASE ~(x >= Ttl)
    <3>1. x = Hash(t).ttl /\ Hash(t).concurrent > 0
      BY <1>3, <2>2, <2>5 DEF LifeScripts, LifeKept
    <3>2. leases[i][t].count > 0 /\ d = leases[i][t].due
      BY <1>3, <2>1, <2>2, <2>5
    <3>3. Hash(t).ttl > leases[i][t].due
      BY <3>1, <3>2 DEF LifeInv
    <3> QED
      BY <2>1, <2>2, <3>1, <3>2, <3>3
  <2> QED
    BY <2>4, <2>5
<1>4. ASSUME NEW r \in Req, pc'[r] = "acquired"
      PROVE  (Hash(T(r)).ttl)' >= Ttl
  <2>1. PICK u \in Tenant : u = T(r)
    BY <1>1
  <2>2. CASE pc[r] = "acquired"
    <3>1. Hash(u).ttl >= Ttl
      BY <2>1, <2>2 DEF LifeInv
    <3>2. (Hash(u).ttl)' = Hash(u).ttl \/ (Hash(u).ttl)' >= Ttl
      BY DEF LifeScripts, LifeKept
    <3>3. (Hash(u).ttl)' >= Ttl
      BY <3>1, <3>2
    <3> QED
      BY <1>2, <2>1, <3>3
  <2> QED
    BY <1>4, <2>2
<1> QED
  BY <1>2, <1>3, <1>4 DEF LifeInv

LEMMA LifeNext ==
    ASSUME RequestOK, StoreOK, LeaseOK, StoreOK', LeaseOK', LifeInv, [Next]_vars
    PROVE  LifeInv'
<1>1. \A r \in Req : T(r) \in Tenant /\ At(r) \in Instance
  BY ConfigType DEF RequestOK
<1>2. config' = config
  BY DEF Next, Tick, Crash, RenewLease, BeginCheck, CountHit, TakeSlot, Admit, ShareLease,
         StartLease, LeasesExhausted, BackOut, ReleaseTenant, Finish, Close, CheckFails,
         ReleaseFails, BackOutFails, vars
<1> SUFFICES ASSUME Redis PROVE LifeInv'
  BY <1>2, SameConfig DEF LifeInv
<1>3. (Redis' <=> Redis) /\ \A r : T(r)' = T(r)
  BY <1>2, SameConfig
<1>4. CASE Tick
  <2>1. TickOfHashes /\ pc' = pc /\ \A q \in Req : pc[q] # "acquired"
    BY <1>4 DEF Tick, TickOfHashes, Checking
  <2>2. ASSUME NEW i \in Instance, NEW t \in Tenant, leases'[i][t].count > 0, (Hash(t).concurrent)' > 0
        PROVE  (Hash(t).ttl)' > leases'[i][t].due
    <3>1. PICK d \in Nat : d = leases[i][t].due
      BY LeaseIntervalType DEF LeaseOK
    <3>2. PICK x \in Nat : x = Hash(t).ttl
      BY HashType
    <3>3. leases[i][t].count > 0 /\ leases'[i][t].due = Less(d)
      <4>1. leases'[i][t] = [leases[i][t] EXCEPT !.due = Less(@)]
        BY <1>4 DEF Tick
      <4>2. leases[i][t] \in [count : Nat, due : 0..LeaseInterval]
        BY DEF LeaseOK
      <4> QED
        BY <2>2, <3>1, <4>1, <4>2
    <3>4. x # 1
      BY <1>2, <2>1, <2>2, <3>2, TickHash
    <3>5. (Hash(t).ttl)' = Less(x) /\ Hash(t).concurrent > 0
      BY <1>2, <2>1, <2>2, <3>2, <3>4, TickHash DEF SlotsKept
    <3>6. x > d /\ d > 0
      BY <1>4, <3>1, <3>2, <3>3, <3>5 DEF LifeInv, Tick
    <3> QED
      BY <3>3, <3>5, <3>6 DEF Less
  <2> QED
    BY <1>3, <2>1, <2>2 DEF LifeInv
<1>5. ASSUME NEW j \in Instance, Crash(j) PROVE LifeInv'
  <2>1. /\ states' = states
        /\ leases' = [leases EXCEPT ![j] = [t \in Tenant |-> [count |-> 0, due |-> 0]]]
    BY <1>5 DEF Crash
  <2>2. LifeScripts
    BY <2>1, QuietLife DEF LifeScripts, SlotsKept, LifeKept, Hash
  <2>3. \A i \in Instance, t \in Tenant : leases'[i][t].count > 0 =>
            leases[i][t].count > 0 /\ leases'[i][t].due = leases[i][t].due
    BY <2>1 DEF LeaseOK
  <2>4. \A r \in Req : pc'[r] = "acquired" => pc[r] = "acquired"
    BY <1>5, CrashMoves
  <2> QED
    BY <1>2, <2>2, <2>3, <2>4, LifeKeeping
<1>6. ASSUME NEW j \in Instance, NEW u \in Tenant, RenewLease(j, u) PROVE LifeInv'
  <2>1. /\ leases[j][u].count > 0 /\ cleanup' = cleanup
        /\ leases' = [leases EXCEPT ![j][u].due = LeaseInterval]
        /\ states' = IF Hash(u).concurrent > 0 THEN [states EXCEPT ![u].ttl = Ttl] ELSE states
    BY <1>6 DEF RenewLease
  <2>2. /\ \A t \in Tenant : SlotsKept(t) /\ LifeKept(t)
        /\ Hash(u).concurrent > 0 => (Hash(u).ttl)' = Ttl
    BY <1>2, <2>1, RenewedHash
  <2>3. LifeScripts
    BY <2>2, QuietLife
  <2>4. \A i \in Instance, t \in Tenant : i # j \/ t # u => leases'[i][t] = leases[i][t]
    BY <2>1 DEF LeaseOK
  <2>5. (Hash(u).concurrent)' > 0 => (Hash(u).ttl)' >= Ttl
    BY <2>2, WindowType DEF SlotsKept
  <2>6. \A i \in Instance, t \in Tenant : leases'[i][t].count > 0 =>
            \/ leases[i][t].count > 0 /\ leases'[i][t].due = leases[i][t].due
            \/ (Hash(t).concurrent)' > 0 => (Hash(t).ttl)' >= Ttl
    BY <2>4, <2>5
  <2>7. pc' = pc
    BY <1>6, ClockMoves
  <2> QED
    BY <1>2, <2>3, <2>6, <2>7, LifeKeeping
<1>7. ASSUME NEW r \in Req, ShareLease(r) \/ StartLease(r) PROVE LifeInv'
  <2>0. PICK u \in Tenant : u = T(r)
    BY <1>1
  <2>1. /\ \A j \in Instance, t \in Tenant : j # At(r) \/ t # T(r) => leases'[j][t] = leases[j][t]
        /\ \/ leases[At(r)][T(r)].count > 0 /\ leases'[At(r)][T(r)].due = leases[At(r)][T(r)].due
           \/ leases[At(r)][T(r)].count = 0 /\ leases'[At(r)][T(r)].due = LeaseInterval
    BY <1>7, AdmittedLease
  <2>2. /\ Alone(r) /\ pc[r] = "acquired" /\ states' = states /\ cleanup' = cleanup
    BY <1>7, AdmitMoves
  <2>3. LifeScripts
    BY <1>2, <2>2, QuietStore, QuietLife
  <2>4. Hash(u).ttl >= Ttl /\ (Hash(u).ttl)' = Hash(u).ttl
    BY <2>0, <2>2 DEF LifeInv, Hash
  <2>5. \A j \in Instance, t \in Tenant : leases'[j][t].count > 0 =>
            \/ leases[j][t].count > 0 /\ leases'[j][t].due = leases[j][t].due
            \/ (Hash(t).concurrent)' > 0 => (Hash(t).ttl)' >= Ttl
    BY <2>0, <2>1, <2>4
  <2>6. \A q \in Req : pc'[q] = "acquired" => pc[q] = "acquired"
    BY <2>2 DEF Alone
  <2> QED
    BY <1>2, <2>3, <2>5, <2>6, LifeKeeping
<1>8. ASSUME NEW r \in Req, ReleaseTenant(r) \/ ReleaseFails(r) PROVE LifeInv'
  <2>1. /\ DropLease(At(r), T(r)) /\ pc' = pc
        /\ ReleaseTenant(r) \/ (states' = states /\ cleanup' = cleanup)
    BY <1>8, ReleaseMoves DEF ReleaseTenant, ReleaseFails
  <2>2. LifeScripts
    <3>1. CASE ReleaseTenant(r)
      <4>1. ReleaseConcurrent(T(r))
        BY <3>1 DEF ReleaseTenant
      <4> QED
        BY <1>1, <1>2, <4>1, ScriptsLife
    <3>2. CASE states' = states /\ cleanup' = cleanup
      BY <1>2, <3>2, QuietStore, QuietLife
    <3> QED
      BY <1>8, <3>1, <3>2 DEF ReleaseFails
  <2>3. PICK i \in Instance, t \in Tenant : i = At(r) /\ t = T(r)
    BY <1>1
  <2>4. /\ \A j \in Instance, u \in Tenant : j # i \/ u # t => leases'[j][u] = leases[j][u]
        /\ leases'[i][t].count = Less(leases[i][t].count)
        /\ leases'[i][t].count > 0 => leases'[i][t].due = leases[i][t].due
    BY <1>2, <2>1, <2>3, DroppedLease
  <2>5. leases[i][t].count \in Nat
    BY DEF LeaseOK
  <2>6. leases'[i][t].count > 0 => leases[i][t].count > 0
    BY <2>4, <2>5 DEF Less
  <2>7. \A j \in Instance, u \in Tenant : leases'[j][u].count > 0 =>
            leases[j][u].count > 0 /\ leases'[j][u].due = leases[j][u].due
    BY <2>4, <2>6
  <2> QED
    BY <1>2, <2>1, <2>2, <2>7, LifeKeeping
<1>9. ASSUME leases' = leases, LifeScripts,
             \A r \in Req : pc'[r] = "acquired" => pc[r] = "acquired" \/ (Hash(T(r)).ttl)' >= Ttl
      PROVE  LifeInv'
  BY <1>2, <1>9, LifeKeeping
<1>10. ASSUME NEW r \in Req, BeginCheck(r) \/ LeasesExhausted(r) \/ Finish(r) \/ Close(r)
       PROVE  LifeInv'
  <2>1. leases' = leases /\ states' = states /\ cleanup' = cleanup
    BY <1>10, BeginMoves, AdmitMoves, FinishMoves, CloseMoves
  <2>2. \A q \in Req : pc'[q] = "acquired" => pc[q] = "acquired"
    <3>1. CASE BeginCheck(r)
      BY <3>1, BeginMoves DEF Alone
    <3>2. CASE LeasesExhausted(r)
      BY <3>2, AdmitMoves DEF Alone
    <3>3. CASE Finish(r)
      BY <3>3, FinishMoves DEF Alone
    <3>4. CASE Close(r)
      BY <3>4, CloseMoves DEF Alone
    <3> QED
      BY <1>10, <3>1, <3>2, <3>3, <3>4
  <2> QED
    BY <1>2, <1>9, <2>1, <2>2, QuietStore, QuietLife
<1>11. ASSUME NEW r \in Req, CountHit(r) PROVE LifeInv'
  <2>1. /\ leases' = leases /\ pc[r] = "rate" /\ Alone(r) /\ pc'[r] # "acquired"
        /\ \E limited \in BOOLEAN : IncrementRate(T(r), limited)
    BY <1>11, HitMoves DEF Refused, CountHit
  <2>2. LifeScripts
    BY <1>1, <1>2, <2>1, ScriptsLife, RequestFacts
  <2> QED
    BY <1>9, <2>1, <2>2 DEF Alone
<1>12. ASSUME NEW r \in Req, TakeSlot(r) PROVE LifeInv'
  <2>0. PICK u \in Tenant : u = T(r)
    BY <1>1
  <2>1. /\ leases' = leases /\ Alone(r)
        /\ \/ pc'[r] = "over" /\ AcquireConcurrent(u, TRUE)
           \/ pc'[r] = "acquired" /\ AcquireConcurrent(u, FALSE)
    BY <1>12, <2>0, SlotMoves DEF Refused
  <2>2. LifeScripts
    BY <1>2, <2>1, ScriptsLife
  <2>3. pc'[r] = "acquired" => (Hash(u).ttl)' >= Ttl
    <3>1. pc'[r] = "acquired" => (Hash(u).ttl)' = Ttl
      BY <1>2, <2>1, AcquireScript
    <3> QED
      BY <3>1, WindowType
  <2>4. \A q \in Req : pc'[q] = "acquired" => pc[q] = "acquired" \/ (Hash(T(q)).ttl)' >= Ttl
    <3>1. \A q \in Req : q # r => pc'[q] = pc[q]
      BY <2>1 DEF Alone
    <3>2. pc'[r] = "acquired" => (Hash(T(r)).ttl)' >= Ttl
      BY <1>3, <2>0, <2>3
    <3> QED
      BY <3>1, <3>2
  <2> QED
    BY <1>9, <2>1, <2>2, <2>4
<1>13. ASSUME NEW r \in Req, BackOut(r) PROVE LifeInv'
  <2>1. leases' = leases /\ Alone(r) /\ pc'[r] # "acquired" /\ ReleaseConcurrent(T(r))
    BY <1>13, BackOutMoves DEF Refused
  <2>2. LifeScripts
    BY <1>1, <1>2, <2>1, ScriptsLife
  <2> QED
    BY <1>9, <2>1, <2>2 DEF Alone
<1>14. ASSUME NEW r \in Req, CheckFails(r) PROVE LifeInv'
  <2>1. leases' = leases /\ cleanup' = cleanup /\ Alone(r) /\ pc'[r] # "acquired"
    BY <1>14, CheckFailsMoves DEF Refused
  <2>2. LifeScripts
    BY <1>1, <1>2, <1>14, <2>1, FailedScript, ScriptsLife, QuietStore, QuietLife
  <2> QED
    BY <1>9, <2>1, <2>2 DEF Alone
<1>16. ASSUME NEW r \in Req, BackOutFails(r) PROVE LifeInv'
  <2>1. leases' = leases /\ cleanup' = cleanup /\ Alone(r) /\ pc'[r] # "acquired"
    BY <1>16, BackOutFailsMoves DEF Refused
  <2>2. LifeScripts
    BY <1>1, <1>2, <1>16, <2>1, BackOutFailsMoves, ScriptsLife, QuietStore, QuietLife
  <2> QED
    BY <1>9, <2>1, <2>2 DEF Alone
<1>15. CASE UNCHANGED vars
  <2>1. leases' = leases /\ states' = states /\ cleanup' = cleanup /\ pc' = pc
    BY <1>15 DEF vars
  <2> QED
    BY <1>2, <1>9, <2>1, QuietStore, QuietLife
<1> QED
  BY <1>4, <1>5, <1>6, <1>7, <1>8, <1>10, <1>11, <1>12, <1>13, <1>14, <1>15, <1>16
  DEF Next, Admit

LEMMA LimitInit == Init => LimitInv
<1> SUFFICES ASSUME Init PROVE HoldersInv /\ LeaseholdersInv /\ LifeInv
  BY DEF LimitInv
<1>1. \A r \in Req : /\ pc[r] = "new" /\ releasing[r] = 0 /\ gave[r] = 0 /\ took[r] = 0
                     /\ r \notin released
  BY DEF Init
<1>2. \A i \in Instance, t \in Tenant : leases[i][t].count = 0
  BY DEF Init
<1>3. \A t \in Tenant : Hash(t).concurrent = 0
  BY DEF Init, Hash
<1>4. HoldersInv
  <2> SUFFICES ASSUME NEW t \in Tenant
               PROVE  Cardinality(Holders(t)) <= Hash(t).concurrent + Cardinality(Takers(t))
    BY DEF HoldersInv
  <2>1. Holders(t) = {} /\ Takers(t) = {}
    BY <1>1 DEF Holders, Takers
  <2> QED
    BY <1>3, <2>1, FS_EmptySet
<1>5. LeaseholdersInv
  <2> SUFFICES ASSUME NEW i \in Instance, NEW t \in Tenant
               PROVE  Cardinality(Leaseholders(i, t)) <=
                          leases[i][t].count + Cardinality(LeaseTakers(i, t))
    BY DEF LeaseholdersInv
  <2>1. Leaseholders(i, t) = {} /\ LeaseTakers(i, t) = {}
    BY <1>1 DEF Leaseholders, LeaseTakers
  <2> QED
    BY <1>2, <2>1, FS_EmptySet
<1>6. LifeInv
  BY <1>1, <1>2 DEF LifeInv
<1> QED
  BY <1>4, <1>5, <1>6

LEMMA LimitNext == BaseInv /\ LimitInv /\ [Next]_vars => LimitInv'
<1> SUFFICES ASSUME BaseInv, LimitInv, [Next]_vars PROVE LimitInv'
  OBVIOUS
<1>1. RequestOK /\ StoreOK /\ LeaseOK
  BY BaseParts
<1>2. BaseInv'
  BY BaseNext
<1>3. StoreOK' /\ LeaseOK'
  BY Zenon, <1>2 DEF BaseInv, TypeOK, MemoryInv, StoreOK, LeaseOK
<1> QED
  BY <1>1, <1>3, HoldersNext, LeaseholdersNext, LifeNext DEF LimitInv

\* A tenant has no more requests in flight than its limit, but for one for each
\* request that is counted nowhere or has given back what it did not hold.
ErodesOneByOne ==
    \A t \in Tenant : Limit(t) > 0 =>
        Cardinality(InFlight(t)) <= Limit(t) + Cardinality(Stray(t))

\* However long requests run and whatever else happens, each such request costs
\* the limit one place.  The renewals keep a hash from expiring under the
\* requests it counts.
THEOREM LimitsErodeOneByOne == Spec => []ErodesOneByOne
<1>1. Spec => [](BaseInv /\ LimitInv)
  BY BaseInit, BaseNext, LimitInit, LimitNext, PTL DEF Spec
<1>2. BaseInv /\ LimitInv => ErodesOneByOne
  <2> SUFFICES ASSUME RequestOK, StoreOK, LimitInv, NEW t \in Tenant, Limit(t) > 0
               PROVE  Cardinality(InFlight(t)) <= Limit(t) + Cardinality(Stray(t))
    BY BaseParts DEF ErodesOneByOne
  <2>1. PICK F \in SUBSET Req : F = InFlight(t)
    BY DEF InFlight
  <2>2. PICK S \in SUBSET Req : S = Stray(t)
    BY DEF Stray
  <2>3. PICK A \in SUBSET Req : A = Holders(t)
    BY DEF Holders
  <2>4. PICK D \in SUBSET Req : D = Takers(t)
    BY DEF Takers
  <2>5. PICK m \in Nat : m = Hash(t).concurrent /\ m <= Limit(t)
    BY HashType
  <2>6. Cardinality(A) <= m + Cardinality(D)
    BY <2>3, <2>4, <2>5 DEF LimitInv, HoldersInv
  <2>7. F \ A \subseteq S
    BY <2>1, <2>2, <2>3, RequestFacts DEF InFlight, Stray, Holders
  <2>8. D \subseteq S
    BY <2>2, <2>4 DEF Takers, Stray
  <2>9. D \cap F = {}
    BY <2>1, <2>4 DEF Takers, InFlight
  <2>10. IsFiniteSet(F) /\ IsFiniteSet(A) /\ IsFiniteSet(S) /\ IsFiniteSet(D)
    BY SetsAssumption, FS_Subset
  <2>11. Cardinality(F) <= Cardinality(A) + Cardinality(F \ A)
    <3>1. /\ IsFiniteSet(A \cup (F \ A)) /\ F \subseteq A \cup (F \ A)
      BY <2>10, FS_Union, FS_Subset
    <3>2. IsFiniteSet(F \ A) /\ A \cap (F \ A) = {}
      BY <2>10, FS_Subset
    <3>3. IsFiniteSet({}) /\ Cardinality({}) = 0
      BY FS_EmptySet
    <3>4. Cardinality(A \cup (F \ A)) = Cardinality(A) + Cardinality(F \ A) - 0
      BY <2>10, <3>2, <3>3, FS_Union
    <3>5. Cardinality(F) <= Cardinality(A \cup (F \ A))
      BY <3>1, FS_Subset
    <3> QED
      BY <3>4, <3>5, <2>10, <3>2, FS_CardinalityType
  <2>12. Cardinality(D) + Cardinality(F \ A) <= Cardinality(S)
    <3>1. IsFiniteSet(F \ A) /\ D \cap (F \ A) = {} /\ D \cup (F \ A) \subseteq S
      BY <2>7, <2>8, <2>9, <2>10, FS_Subset
    <3>2. Cardinality({}) = 0
      BY FS_EmptySet
    <3>3. Cardinality(D \cup (F \ A)) = Cardinality(D) + Cardinality(F \ A) - 0
      BY <2>10, <3>1, <3>2, FS_Union
    <3>4. Cardinality(D \cup (F \ A)) <= Cardinality(S)
      BY <2>10, <3>1, FS_Subset
    <3> QED
      BY <3>3, <3>4, <2>10, <3>1, FS_CardinalityType
  <2>13. /\ Cardinality(F) \in Nat /\ Cardinality(A) \in Nat /\ Cardinality(D) \in Nat
         /\ Cardinality(S) \in Nat /\ Cardinality(F \ A) \in Nat /\ Limit(t) \in Nat
    BY <2>10, FS_Subset, FS_CardinalityType, HashType
  <2> QED
    BY <2>1, <2>2, <2>5, <2>6, <2>11, <2>12, <2>13
<1> QED
  BY <1>1, <1>2, PTL

\* A tenant is served no more at once than its limit while no request has given
\* back what it did not hold.
THEOREM LimitsAreKept == Spec => []LimitKept
<1>1. TypeOK /\ ErodesOneByOne => LimitKept
  <2> SUFFICES ASSUME TypeOK, ErodesOneByOne, NEW t \in Tenant, Limit(t) > 0, Stray(t) = {}
               PROVE  Cardinality(InFlight(t)) <= Limit(t)
    BY DEF LimitKept
  <2>1. Cardinality(InFlight(t)) <= Limit(t) + Cardinality(Stray(t))
    BY DEF ErodesOneByOne
  <2>2. Cardinality(Stray(t)) = 0
    BY FS_EmptySet
  <2>3. Limit(t) \in Nat
    BY ConfigType DEF TypeOK
  <2> QED
    BY <2>1, <2>2, <2>3
<1> QED
  BY <1>1, TypeCorrect, LimitsErodeOneByOne, PTL

-----------------------------------------------------------------------------
(* Rates.                                                                  *)

\* The hits of a tenant as a step finds and leaves them.
LEMMA SameHits ==
    ASSUME config' = config, NEW t, \A q \in Req : T(q) = t => accepted'[q] = accepted[q]
    PROVE  \A a, b \in Nat : (Hits(t, a, b))' = Hits(t, a, b)
BY SameConfig DEF Hits

LEMMA NewHit ==
    ASSUME RequestOK, config' = config, NEW r \in Req, NEW t, t = T(r), accepted[r] = Unset,
           accepted'[r] = 0, \A q \in Req : q # r => accepted'[q] = accepted[q]
    PROVE  \A a \in 0..Window, b \in 0..Window :
             /\ r \notin Hits(t, a, b)
             /\ a = 0 /\ b > 0 => (Hits(t, a, b))' = Hits(t, a, b) \cup {r}
             /\ a > 0 \/ b = 0 => (Hits(t, a, b))' = Hits(t, a, b)
<1> SUFFICES ASSUME NEW a \in 0..Window, NEW b \in 0..Window
             PROVE  /\ r \notin Hits(t, a, b)
                    /\ a = 0 /\ b > 0 => (Hits(t, a, b))' = Hits(t, a, b) \cup {r}
                    /\ a > 0 \/ b = 0 => (Hits(t, a, b))' = Hits(t, a, b)
  OBVIOUS
<1>1. Window \in Nat /\ Unset = Window + 1 /\ Age = 0..(Window + 1)
  BY WindowType
<1>2. /\ \A q \in Req : T(q)' = T(q) /\ accepted[q] \in Age
      /\ \A q \in Req : q # r => accepted'[q] = accepted[q]
      /\ accepted'[r] = 0
  BY SameConfig DEF RequestOK
<1>3. r \notin Hits(t, a, b)
  BY <1>1 DEF Hits
<1>4. \A q : q \in (Hits(t, a, b))' <=> q \in Req /\ T(q) = t /\ accepted'[q] >= a /\ accepted'[q] < b
  BY <1>2 DEF Hits
<1>5. \A q : q \in Hits(t, a, b) <=> q \in Req /\ T(q) = t /\ accepted[q] >= a /\ accepted[q] < b
  BY DEF Hits
<1>6. \A q : q # r => (q \in (Hits(t, a, b))' <=> q \in Hits(t, a, b))
  BY <1>2, <1>4, <1>5
<1>7. r \in (Hits(t, a, b))' <=> a = 0 /\ b > 0
  BY <1>2, <1>4
<1>8. a > 0 \/ b = 0 => ~(a = 0 /\ b > 0)
  OBVIOUS
<1> QED
  BY <1>3, <1>6, <1>7, <1>8

LEMMA OlderHits ==
    ASSUME RequestOK, config' = config, accepted' = [r \in Req |-> Older(accepted[r])],
           NEW t, NEW a \in Nat, NEW b \in Nat, b < Window
    PROVE  /\ (Hits(t, a + 1, b + 1))' = Hits(t, a, b)
           /\ (Hits(t, 0, b + 1))' = Hits(t, 0, b)
<1>1. Window \in Nat /\ Age = 0..(Window + 1)
  BY WindowType
<1>2. \A q \in Req : T(q)' = T(q) /\ accepted[q] \in Age /\ accepted'[q] = Older(accepted[q])
  BY SameConfig DEF RequestOK
<1>3. \A c \in Age : Older(c) >= 1 /\ (Older(c) >= a + 1 /\ Older(c) < b + 1 <=> c >= a /\ c < b)
  BY <1>1 DEF Older
<1>4. (Hits(t, a + 1, b + 1))' = Hits(t, a, b)
  BY <1>2, <1>3 DEF Hits
<1>5. \A c \in Age : Older(c) >= 0 /\ c >= 0 /\ (Older(c) < b + 1 <=> c < b)
  BY <1>1 DEF Older
<1>6. (Hits(t, 0, b + 1))' = Hits(t, 0, b)
  BY <1>2, <1>5 DEF Hits
<1> QED
  BY <1>4, <1>6

LEMMA HitsCount ==
    ASSUME RequestOK, NEW t, NEW a \in Nat, NEW b \in Nat
    PROVE  /\ Hits(t, a, b) \in SUBSET Req /\ IsFiniteSet(Hits(t, a, b))
           /\ Cardinality(Hits(t, a, b)) \in Nat
           /\ \A c, d \in Nat : c >= a /\ d <= b =>
                Hits(t, c, d) \subseteq Hits(t, a, b)
                /\ Cardinality(Hits(t, c, d)) <= Cardinality(Hits(t, a, b))
<1>1. \A c, d : Hits(t, c, d) \in SUBSET Req
  BY DEF Hits
<1>2. \A c, d \in Nat : c >= a /\ d <= b => Hits(t, c, d) \subseteq Hits(t, a, b)
  <2>1. \A q \in Req : accepted[q] \in Nat
    BY WindowType DEF RequestOK
  <2> QED
    BY <2>1 DEF Hits
<1> QED
  BY <1>1, <1>2, Counting

LEMMA NextHashType ==
    ASSUME StoreOK', NEW t
    PROVE  /\ (Hash(t).ttl)' \in Nat /\ (Hash(t).concurrent)' \in Nat
           /\ (Hash(t).start)' \in Age /\ (Hash(t).hits)' \in Nat
<1>1. CASE t \in DOMAIN states'
  BY <1>1 DEF StoreOK, Hash, State
<1>2. CASE t \notin DOMAIN states'
  BY <1>2, WindowType DEF Hash
<1> QED
  BY <1>1, <1>2

\* A step that counts no hit of the tenant and leaves its window.
LEMMA KeptWindow ==
    ASSUME RequestOK, StoreOK, StoreOK', RateInv, config' = config, crashed \subseteq crashed',
           NEW t \in Tenant, Rate(t) > 0,
           WindowKept(t), LifeKept(t),
           \A q \in Req : T(q) = t => accepted'[q] = accepted[q],
           Redis => \A q \in Req : T(q) = t /\ pc'[q] = "acquire" => pc[q] = "acquire",
           ~Redis /\ ~Open(t) => /\ CleanupKept /\ AbsentKept(t)
                                 /\ \A q \in Req : T(q) = t /\ pc[q] = "acquire" => pc'[q] = "acquire"
    PROVE  /\ Redis => RedisWindow(t)'
           /\ ~Redis /\ crashed' = {} => MemoryWindow(t)'
<1>1. \A a, b \in Nat : (Hits(t, a, b))' = Hits(t, a, b)
  BY SameHits
<1>2. Window \in Nat \ {0} /\ Ttl \in Nat /\ Window <= Ttl
  BY WindowType
<1>3. (Redis' <=> Redis) /\ Rate(t)' = Rate(t) /\ \A q : T(q)' = T(q)
  BY SameConfig
<1>4. Open(t)' <=> Open(t)
  BY DEF WindowKept
<1>5. \A s, n \in Nat : (OpenWith(t, s, n))' <=> OpenWith(t, s, n)
  BY <1>4 DEF WindowKept, OpenWith
<1>6. ASSUME Redis PROVE RedisWindow(t)'
  <2>1. RedisWindow(t)
    BY <1>6 DEF RateInv
  <2>2. ASSUME NEW s \in Nat, NEW n \in Nat, (OpenWith(t, s, n))'
        PROVE  /\ (Hash(t).ttl)' >= Window - s
               /\ (\E r \in Req : T(r) = t /\ accepted[r] = s)'
               /\ (Cardinality(Hits(t, 0, s + 1)))' <= n
               /\ (Cardinality(Hits(t, s + 1, Window)))' <= (Rate(t) - 1)'
    <3>1. OpenWith(t, s, n)
      BY <1>5, <2>2
    <3>2. /\ Hash(t).ttl >= Window - s
          /\ \E r \in Req : T(r) = t /\ accepted[r] = s
          /\ Cardinality(Hits(t, 0, s + 1)) <= n
          /\ Cardinality(Hits(t, s + 1, Window)) <= Rate(t) - 1
      BY <2>1, <3>1 DEF RedisWindow
    <3>3. (Hash(t).ttl)' >= Window - s
      <4>1. (Hash(t).ttl)' = Hash(t).ttl \/ (Hash(t).ttl)' >= Ttl
        BY <1>6 DEF LifeKept
      <4>3. CASE (Hash(t).ttl)' = Hash(t).ttl
        BY <3>2, <4>3
      <4>4. CASE (Hash(t).ttl)' >= Ttl
        <5>1. Ttl >= Window - s
          BY <1>2
        <5>2. PICK x \in Nat : x = (Hash(t).ttl)'
          BY NextHashType
        <5> QED
          BY <1>2, <4>4, <5>1, <5>2
      <4> QED
        BY <4>1, <4>3, <4>4
    <3>4. (\E r \in Req : T(r) = t /\ accepted[r] = s)'
      BY <1>3, <3>2
    <3> QED
      BY <1>1, <1>2, <1>3, <3>2, <3>3, <3>4
  <2>3. ASSUME ~Open(t)'
        PROVE  /\ (Hits(t, 0, 1))' = {}
               /\ (Cardinality(Hits(t, 1, Window)))' <= (Rate(t) - 1)'
               /\ (\A r \in Req : T(r) = t => pc[r] # "acquire")'
    <3>1. /\ Hits(t, 0, 1) = {}
          /\ Cardinality(Hits(t, 1, Window)) <= Rate(t) - 1
          /\ \A r \in Req : T(r) = t => pc[r] # "acquire"
      BY <1>4, <2>1, <2>3 DEF RedisWindow
    <3> QED
      BY <1>1, <1>2, <1>3, <1>6, <3>1
  <2> QED
    BY <2>2, <2>3 DEF RedisWindow
<1>7. ASSUME ~Redis, crashed' = {} PROVE MemoryWindow(t)'
  <2>1. MemoryWindow(t)
    BY <1>7 DEF RateInv
  <2>2. ASSUME NEW s \in Nat, NEW n \in Nat, (OpenWith(t, s, n))'
        PROVE  /\ (Cardinality(Hits(t, 0, s)))' <= n
               /\ (Cardinality(Hits(t, 0, s + 1)))' <= n + 1
               /\ (Cardinality(Hits(t, s + 1, Window)))' <= Rate(t)'
    <3>1. OpenWith(t, s, n)
      BY <1>5, <2>2
    <3> QED
      BY <1>1, <1>2, <1>3, <2>1, <3>1 DEF MemoryWindow
  <2>3. ASSUME ~Open(t)'
        PROVE  /\ (Cardinality(Hits(t, 0, 1)))' <= 1
               /\ (Cardinality(Hits(t, 1, Window)))' <= Rate(t)'
               /\ \A r \in (Hits(t, 0, 1))' :
                    cleanup' = 0 /\ t \notin DOMAIN states' /\ pc'[r] = "acquire"
    <3>1. /\ Cardinality(Hits(t, 0, 1)) <= 1
          /\ Cardinality(Hits(t, 1, Window)) <= Rate(t)
          /\ \A r \in Hits(t, 0, 1) :
               cleanup = 0 /\ t \notin DOMAIN states /\ pc[r] = "acquire"
      BY <1>4, <2>1, <2>3 DEF MemoryWindow
    <3>2. /\ CleanupKept /\ AbsentKept(t)
          /\ \A q \in Req : T(q) = t /\ pc[q] = "acquire" => pc'[q] = "acquire"
      BY <1>4, <1>7, <2>3
    <3>3. \A r \in Hits(t, 0, 1) : r \in Req /\ T(r) = t
      BY DEF Hits
    <3>4. \A r \in Hits(t, 0, 1) : cleanup' = 0 /\ t \notin DOMAIN states' /\ pc'[r] = "acquire"
      BY <1>7, <3>1, <3>2, <3>3 DEF CleanupKept, AbsentKept
    <3> QED
      BY <1>1, <1>2, <1>3, <3>1, <3>4
  <2> QED
    BY <2>2, <2>3 DEF MemoryWindow
<1> QED
  BY <1>6, <1>7

\* A hit of the tenant.
LEMMA CountedWindow ==
    ASSUME RequestOK, StoreOK, StoreOK', RateInv, config' = config, crashed \subseteq crashed',
           NEW r \in Req, NEW t \in Tenant, t = T(r), Rate(t) > 0, pc[r] = "rate",
           IncrementRate(t, FALSE), accepted' = [accepted EXCEPT ![r] = 0],
           ~Redis => pc'[r] = "acquire" /\ \A q \in Req : q # r => pc'[q] = pc[q]
    PROVE  /\ Redis => RedisWindow(t)'
           /\ ~Redis /\ crashed' = {} => MemoryWindow(t)'
<1>1. Window \in Nat \ {0} /\ Ttl \in Nat /\ Window <= Ttl /\ Age = 0..(Window + 1)
  BY WindowType
<1>2. (Redis' <=> Redis) /\ Rate(t)' = Rate(t) /\ \A q : T(q)' = T(q)
  BY SameConfig
<1>3. accepted[r] = Window + 1
  BY WindowType DEF RateInv, UncountedInv
<1>4. \A a, b \in 0..Window :
        /\ r \notin Hits(t, a, b)
        /\ a = 0 /\ b > 0 => (Hits(t, a, b))' = Hits(t, a, b) \cup {r}
        /\ a > 0 \/ b = 0 => (Hits(t, a, b))' = Hits(t, a, b)
  <2>1. /\ accepted[r] = Unset /\ accepted'[r] = 0
        /\ \A q \in Req : q # r => accepted'[q] = accepted[q]
    BY <1>3, WindowType DEF RequestOK
  <2> QED
    BY <2>1, NewHit
<1>5. \A b \in 1..Window : (Cardinality(Hits(t, 0, b)))' = Cardinality(Hits(t, 0, b)) + 1
  <2> SUFFICES ASSUME NEW b \in 1..Window
               PROVE  (Cardinality(Hits(t, 0, b)))' = Cardinality(Hits(t, 0, b)) + 1
    OBVIOUS
  <2>1. (Hits(t, 0, b))' = Hits(t, 0, b) \cup {r} /\ r \notin Hits(t, 0, b)
    BY <1>1, <1>4
  <2>2. IsFiniteSet(Hits(t, 0, b))
    <3>1. 0 \in Nat /\ b \in Nat
      BY <1>1
    <3> QED
      BY <3>1, HitsCount
  <2> QED
    BY <2>1, <2>2, FS_AddElement
<1>6. \A a \in 1..Window : (Hits(t, a, Window))' = Hits(t, a, Window)
  <2>1. \A a \in 1..Window : a \in 0..Window /\ a > 0 /\ Window \in 0..Window
    BY <1>1
  <2> QED
    BY <1>4, <2>1
<1>7. PICK z \in Age : z = (Hash(t).start)'
  BY NextHashType
<1>8. PICK h \in Nat : h = (Hash(t).hits)'
  BY NextHashType
<1>9. \/ /\ Open(t)' /\ (Redis => (Hash(t).ttl)' >= Ttl)
         /\ Open(t) => z = Hash(t).start /\ h = Hash(t).hits + 1
         /\ ~Open(t) => z = 0 /\ h = 1
      \/ /\ ~Redis /\ Detached(t) /\ ~Open(t)
         /\ ~Open(t)' /\ t \notin DOMAIN states' /\ cleanup' = 0
  BY <1>7, <1>8, RateScript
<1>10. Rate(t) \in Nat
  BY HashType
<1>11. Open(t)' => z < Window
  BY <1>7 DEF Open, InWindow
<1>12. CASE Open(t)' /\ Redis
  <2>1. RedisWindow(t)
    BY <1>12 DEF RateInv
  <2>2. (Hash(t).ttl)' >= Window - z
    <3>1. PICK x \in Nat : x = (Hash(t).ttl)'
      BY NextHashType
    <3> QED
      BY <1>1, <1>9, <1>12, <3>1
  <2>3. /\ \E q \in Req : T(q) = t /\ accepted'[q] = z
        /\ (Cardinality(Hits(t, 0, z + 1)))' <= h
        /\ (Cardinality(Hits(t, z + 1, Window)))' <= Rate(t) - 1
    <3>1. CASE Open(t)
      <4>1. OpenWith(t, z, h - 1) /\ h - 1 \in Nat
        <5>1. PICK n \in Nat : n = Hash(t).hits
          BY HashType
        <5> QED
          BY <1>9, <1>12, <3>1, <5>1 DEF OpenWith
      <4>2. /\ \E q \in Req : T(q) = t /\ accepted[q] = z
            /\ Cardinality(Hits(t, 0, z + 1)) <= h - 1
            /\ Cardinality(Hits(t, z + 1, Window)) <= Rate(t) - 1
        BY <1>1, <2>1, <4>1 DEF RedisWindow
      <4>3. PICK q \in Req : T(q) = t /\ accepted[q] = z
        BY <4>2
      <4>4. accepted'[q] = z
        BY <1>1, <1>3, <1>11, <1>12, <4>3 DEF RequestOK
      <4>5. z + 1 \in 1..Window
        BY <1>1, <1>11, <1>12
      <4>6. Cardinality(Hits(t, 0, z + 1)) \in Nat
        BY <4>5, HitsCount
      <4> QED
        BY <1>5, <1>6, <4>2, <4>3, <4>4, <4>5, <4>6
    <3>2. CASE ~Open(t)
      <4>1. z = 0 /\ h = 1
        BY <1>9, <1>12, <3>2
      <4>2. Hits(t, 0, 1) = {} /\ Cardinality(Hits(t, 1, Window)) <= Rate(t) - 1
        BY <2>1, <3>2 DEF RedisWindow
      <4>3. Cardinality(Hits(t, 0, 1)) = 0
        BY <4>2, FS_EmptySet
      <4>4. accepted'[r] = 0 /\ 1 \in 1..Window
        BY <1>1 DEF RequestOK
      <4> QED
        BY <1>5, <1>6, <4>1, <4>2, <4>3, <4>4
    <3> QED
      BY <3>1, <3>2
  <2>4. \A s, n \in Nat : (OpenWith(t, s, n))' <=> s = z /\ n = h
    BY <1>7, <1>8, <1>12 DEF OpenWith
  <2> QED
    BY <1>2, <1>12, <2>2, <2>3, <2>4 DEF RedisWindow
<1>13. CASE Open(t)' /\ ~Redis /\ crashed' = {}
  <2>1. MemoryWindow(t)
    BY <1>13 DEF RateInv
  <2>2. /\ (Cardinality(Hits(t, 0, z)))' <= h
        /\ (Cardinality(Hits(t, 0, z + 1)))' <= h + 1
        /\ (Cardinality(Hits(t, z + 1, Window)))' <= Rate(t)
    <3>0. z + 1 \in 1..Window
      BY <1>1, <1>11, <1>13
    <3>1. CASE Open(t)
      <4>1. OpenWith(t, z, h - 1) /\ h - 1 \in Nat
        <5>1. PICK n \in Nat : n = Hash(t).hits
          BY HashType
        <5> QED
          BY <1>9, <1>13, <3>1, <5>1 DEF OpenWith
      <4>2. /\ Cardinality(Hits(t, 0, z)) <= h - 1
            /\ Cardinality(Hits(t, 0, z + 1)) <= h
            /\ Cardinality(Hits(t, z + 1, Window)) <= Rate(t)
        <5>1. /\ Cardinality(Hits(t, 0, z)) <= h - 1
              /\ Cardinality(Hits(t, 0, z + 1)) <= h - 1 + 1
              /\ Cardinality(Hits(t, z + 1, Window)) <= Rate(t)
          BY <1>1, <2>1, <4>1 DEF MemoryWindow
        <5> QED
          BY <5>1
      <4>3. Cardinality(Hits(t, 0, z)) \in Nat /\ Cardinality(Hits(t, 0, z + 1)) \in Nat
        <5>1. 0 \in Nat /\ z \in Nat /\ z + 1 \in Nat
          BY <1>1
        <5> QED
          BY <5>1, HitsCount
      <4>4. (Cardinality(Hits(t, 0, z)))' <= h
        <5>1. CASE z = 0
          <6>1. (Hits(t, 0, 0))' = Hits(t, 0, 0)
            BY <1>1, <1>4
          <6> QED
            BY <4>2, <4>3, <5>1, <6>1
        <5>2. CASE z # 0
          <6>1. z \in 1..Window
            BY <1>1, <1>11, <1>13, <5>2
          <6> QED
            BY <1>5, <4>2, <4>3, <6>1
        <5> QED
          BY <5>1, <5>2
      <4> QED
        BY <1>5, <1>6, <3>0, <4>2, <4>3, <4>4
    <3>2. CASE ~Open(t)
      <4>1. z = 0 /\ h = 1
        BY <1>9, <1>13, <3>2
      <4>2. Cardinality(Hits(t, 0, 1)) <= 1 /\ Cardinality(Hits(t, 1, Window)) <= Rate(t)
        BY <2>1, <3>2 DEF MemoryWindow
      <4>3. (Hits(t, 0, 0))' = {}
        <5>1. (Hits(t, 0, 0))' = Hits(t, 0, 0)
          BY <1>1, <1>4
        <5>2. Hits(t, 0, 0) = {}
          BY <1>1 DEF Hits, RequestOK
        <5> QED
          BY <5>1, <5>2
      <4>4. (Cardinality(Hits(t, 0, 0)))' = 0
        BY <4>3, FS_EmptySet
      <4>5. Cardinality(Hits(t, 0, 1)) \in Nat
        BY HitsCount
      <4> QED
        BY <1>5, <1>6, <3>0, <4>1, <4>2, <4>4, <4>5
    <3> QED
      BY <3>1, <3>2
  <2>3. \A s, n \in Nat : (OpenWith(t, s, n))' <=> s = z /\ n = h
    BY <1>7, <1>8, <1>13 DEF OpenWith
  <2> QED
    BY <1>2, <1>13, <2>2, <2>3 DEF MemoryWindow
<1>14. CASE ~Open(t)' /\ ~Redis /\ crashed' = {}
  <2>1. MemoryWindow(t)
    BY <1>14 DEF RateInv
  <2>2. Detached(t) /\ ~Open(t) /\ t \notin DOMAIN states' /\ cleanup' = 0
    BY <1>9, <1>14
  <2>3. cleanup # 0
    BY <1>1, <2>2 DEF Detached, StoreOK
  <2>4. Hits(t, 0, 1) = {} /\ Cardinality(Hits(t, 1, Window)) <= Rate(t)
    BY <2>1, <2>2, <2>3 DEF MemoryWindow
  <2>5. (Hits(t, 0, 1))' = {r} /\ 1 \in 1..Window
    BY <1>1, <1>4, <2>4
  <2>6. (Cardinality(Hits(t, 0, 1)))' = 1
    BY <2>5, FS_Singleton
  <2>7. pc'[r] = "acquire"
    BY <1>14
  <2>8. \A s, n \in Nat : ~(OpenWith(t, s, n))'
    BY <1>14 DEF OpenWith
  <2> QED
    BY <1>2, <1>6, <1>14, <2>2, <2>4, <2>5, <2>6, <2>7, <2>8 DEF MemoryWindow
<1> QED
  BY <1>9, <1>12, <1>13, <1>14

\* A slot that opens a window in memory, and one that does not.
LEMMA TakenWindow ==
    ASSUME RequestOK, StoreOK, StoreOK', RateInv, config' = config, crashed \subseteq crashed',
           NEW t \in Tenant, Rate(t) > 0, ~Redis, ~Open(t), NEW limited \in BOOLEAN,
           AcquireConcurrent(t, limited), accepted' = accepted
    PROVE  crashed' = {} => MemoryWindow(t)'
<1> SUFFICES ASSUME crashed' = {} PROVE MemoryWindow(t)'
  OBVIOUS
<1>1. Window \in Nat \ {0}
  BY WindowType
<1>2. Rate(t)' = Rate(t)
  BY SameConfig
<1>3. MemoryWindow(t)
  BY DEF RateInv
<1>4. \A a, b \in Nat : (Hits(t, a, b))' = Hits(t, a, b)
  BY SameHits
<1>5. \/ t \in DOMAIN states /\ ~Open(t)'
      \/ t \notin DOMAIN states /\ Open(t)' /\ (Hash(t).start)' = 0 /\ (Hash(t).hits)' = 0
  BY AcquireScript
<1>6. /\ Cardinality(Hits(t, 0, 1)) <= 1 /\ Cardinality(Hits(t, 1, Window)) <= Rate(t)
      /\ t \in DOMAIN states => Hits(t, 0, 1) = {}
  BY <1>3 DEF MemoryWindow
<1>7. CASE ~Open(t)'
  <2>1. (Hits(t, 0, 1))' = {}
    BY <1>4, <1>5, <1>6, <1>7
  <2>2. \A s, n \in Nat : ~(OpenWith(t, s, n))'
    BY <1>7 DEF OpenWith
  <2> QED
    BY <1>1, <1>2, <1>4, <1>6, <1>7, <2>1, <2>2 DEF MemoryWindow
<1>8. CASE Open(t)'
  <2>1. \A s, n \in Nat : (OpenWith(t, s, n))' => s = 0 /\ n = 0
    BY <1>5, <1>8 DEF OpenWith
  <2>2. Hits(t, 0, 0) = {}
    BY WindowType DEF Hits, RequestOK
  <2>3. Cardinality(Hits(t, 0, 0)) = 0
    BY <2>2, FS_EmptySet
  <2>4. /\ (Cardinality(Hits(t, 0, 0)))' <= 0
        /\ (Cardinality(Hits(t, 0, 0 + 1)))' <= 0 + 1
        /\ (Cardinality(Hits(t, 0 + 1, Window)))' <= Rate(t)'
    BY <1>1, <1>2, <1>4, <1>6, <2>3
  <2> QED
    BY <1>8, <2>1, <2>4 DEF MemoryWindow
<1> QED
  BY <1>7, <1>8

\* A tick makes each hit older with its window.  The window that ends was begun
\* by a hit in Redis, which is a whole window old now.
LEMMA TickWindow ==
    ASSUME RequestOK, StoreOK, StoreOK', RateInv, Tick, NEW t \in Tenant, Rate(t) > 0
    PROVE  /\ Redis => RedisWindow(t)'
           /\ ~Redis /\ crashed' = {} => MemoryWindow(t)'
<1>0. config' = config /\ crashed' = crashed /\ pc' = pc /\ TickOfHashes
      /\ accepted' = [r \in Req |-> Older(accepted[r])]
      /\ \A q \in Req : pc[q] \notin Checking
  BY DEF Tick, TickOfHashes
<1>1. Window \in Nat \ {0} /\ Age = 0..(Window + 1)
  BY WindowType
<1>2. (Redis' <=> Redis) /\ Rate(t)' = Rate(t) /\ \A q : T(q)' = T(q)
  BY <1>0, SameConfig
<1>3. \A a, b \in Nat : b < Window =>
        /\ (Hits(t, a + 1, b + 1))' = Hits(t, a, b)
        /\ (Hits(t, 0, b + 1))' = Hits(t, 0, b)
  BY <1>0, OlderHits
<1>4. PICK w \in Nat : Window = w + 1
  <2>1. Window - 1 \in Nat /\ Window = (Window - 1) + 1
    BY <1>1
  <2> QED
    BY <2>1
<1>5. Hits(t, 0, 0) = {}
  BY <1>1 DEF Hits, RequestOK
<1>6. (Hits(t, 0, 1))' = {} /\ (Hits(t, 1, Window))' = Hits(t, 0, w)
  <2>1. (Hits(t, 0, 0 + 1))' = Hits(t, 0, 0)
    BY <1>1, <1>3
  <2>2. (Hits(t, 0 + 1, w + 1))' = Hits(t, 0, w)
    BY <1>3, <1>4
  <2> QED
    BY <1>4, <1>5, <2>1, <2>2
<1>7. PICK a \in Age : a = Hash(t).start
  BY <1>1, HashType
<1>8. PICK h \in Nat : h = Hash(t).hits /\ h <= Rate(t)
  BY HashType
<1>9. Rate(t) \in Nat
  BY HashType
<1>10. /\ Hash(t).ttl = 1 => Redis /\ ~Open(t)'
       /\ Hash(t).ttl # 1 =>
            /\ (Hash(t).ttl)' = Less(Hash(t).ttl)
            /\ Open(t)' <=> a + 1 < Window
            /\ Open(t) => (Hash(t).start)' = a + 1 /\ (Hash(t).hits)' = h
  BY <1>0, <1>7, <1>8, TickHash
<1>11. Open(t) <=> a < Window
  BY <1>7 DEF Open, InWindow
<1>12. Open(t)' => Hash(t).ttl # 1 /\ Open(t) /\ a + 1 < Window
  BY <1>1, <1>10, <1>11
<1>13. Open(t) => OpenWith(t, a, h)
  BY <1>7, <1>8 DEF OpenWith
<1>14. Open(t)' => /\ \A s, n \in Nat : (OpenWith(t, s, n))' => s = a + 1 /\ n = h
                   /\ (Hits(t, 0, a + 1))' = Hits(t, 0, a)
                   /\ (Hits(t, 0, a + 1 + 1))' = Hits(t, 0, a + 1)
                   /\ (Hits(t, a + 1 + 1, Window))' = Hits(t, a + 1, w)
  <2> SUFFICES ASSUME Open(t)'
               PROVE  /\ \A s, n \in Nat : (OpenWith(t, s, n))' => s = a + 1 /\ n = h
                      /\ (Hits(t, 0, a + 1))' = Hits(t, 0, a)
                      /\ (Hits(t, 0, a + 1 + 1))' = Hits(t, 0, a + 1)
                      /\ (Hits(t, a + 1 + 1, Window))' = Hits(t, a + 1, w)
    OBVIOUS
  <2>1. \A s, n \in Nat : (OpenWith(t, s, n))' => s = a + 1 /\ n = h
    BY <1>10, <1>12 DEF OpenWith
  <2>2. a + 1 \in Nat /\ a \in Nat /\ a < Window /\ a + 1 < Window /\ w < Window
    BY <1>1, <1>4, <1>12
  <2> QED
    BY <1>3, <1>4, <2>1, <2>2
<1>15. \A q \in Req : pc'[q] # "acquire"
  BY <1>0 DEF Checking
<1>16. ~Open(t) /\ Hits(t, 0, 1) = {} => Hits(t, 0, w) \subseteq Hits(t, 1, Window)
  <2>1. \A q \in Req : accepted[q] \in Nat
    BY <1>1 DEF RequestOK
  <2> QED
    BY <1>4, <2>1 DEF Hits
<1>17. ASSUME Redis PROVE RedisWindow(t)'
  <2>1. RedisWindow(t)
    BY <1>17 DEF RateInv
  <2>2. Open(t) => /\ Hash(t).ttl >= Window - a
                   /\ \E r \in Req : T(r) = t /\ accepted[r] = a
                   /\ Cardinality(Hits(t, 0, a + 1)) <= h
                   /\ Cardinality(Hits(t, a + 1, Window)) <= Rate(t) - 1
    BY <1>1, <1>13, <2>1 DEF RedisWindow
  <2>3. CASE Open(t)'
    <3>1. /\ Hash(t).ttl >= Window - a
          /\ \E r \in Req : T(r) = t /\ accepted[r] = a
          /\ Cardinality(Hits(t, 0, a + 1)) <= h
          /\ Cardinality(Hits(t, a + 1, Window)) <= Rate(t) - 1
      BY <1>12, <2>2, <2>3
    <3>2. (Hash(t).ttl)' >= Window - (a + 1)
      <4>1. PICK x \in Nat : x = Hash(t).ttl
        BY HashType
      <4> QED
        BY <1>1, <1>10, <1>12, <2>3, <3>1, <4>1 DEF Less
    <3>3. \E r \in Req : T(r) = t /\ accepted'[r] = a + 1
      <4>1. PICK r \in Req : T(r) = t /\ accepted[r] = a
        BY <3>1
      <4>2. accepted'[r] = a + 1
        BY <1>0, <1>1, <1>12, <2>3, <4>1 DEF Older
      <4> QED
        BY <4>1, <4>2
    <3>4. Cardinality(Hits(t, a + 1, w)) <= Rate(t) - 1
      <4>1. /\ Cardinality(Hits(t, a + 1, w)) <= Cardinality(Hits(t, a + 1, Window))
            /\ Cardinality(Hits(t, a + 1, w)) \in Nat /\ Cardinality(Hits(t, a + 1, Window)) \in Nat
        <5>1. a + 1 \in Nat /\ w \in Nat /\ Window \in Nat /\ w <= Window /\ a + 1 >= a + 1
          BY <1>1, <1>4
        <5> QED
          BY <5>1, HitsCount
      <4> QED
        BY <1>9, <3>1, <4>1
    <3>5. \A s, n \in Nat : (OpenWith(t, s, n))' => s = a + 1 /\ n = h
      BY <1>14, <2>3
    <3>6. /\ (Cardinality(Hits(t, 0, a + 1 + 1)))' <= h
          /\ (Cardinality(Hits(t, a + 1 + 1, Window)))' <= Rate(t)' - 1
      BY <1>2, <1>14, <2>3, <3>1, <3>4
    <3> QED
      BY <1>2, <2>3, <3>2, <3>3, <3>5, <3>6 DEF RedisWindow
  <2>4. CASE ~Open(t)'
    <3>1. Cardinality(Hits(t, 0, w)) <= Rate(t) - 1
      <4>1. CASE Open(t)
        <5>1. a = w
          <6>1. PICK x \in Nat : x = Hash(t).ttl
            BY HashType
          <6> QED
            BY <1>1, <1>4, <1>10, <1>11, <2>2, <2>4, <4>1, <6>1
        <5>2. PICK r \in Req : T(r) = t /\ accepted[r] = w
          BY <2>2, <4>1, <5>1
        <5>3. r \notin Hits(t, 0, w) /\ Hits(t, 0, w) \cup {r} \subseteq Hits(t, 0, w + 1)
          <6>1. \A q \in Req : accepted[q] \in Nat
            BY <1>1 DEF RequestOK
          <6> QED
            BY <5>2, <6>1 DEF Hits
        <5>4. Hits(t, 0, w) \in SUBSET Req /\ Hits(t, 0, w + 1) \in SUBSET Req
          BY DEF Hits
        <5>5. /\ Cardinality(Hits(t, 0, w)) + 1 <= Cardinality(Hits(t, 0, w + 1))
              /\ Cardinality(Hits(t, 0, w)) \in Nat /\ Cardinality(Hits(t, 0, w + 1)) \in Nat
          BY <5>3, <5>4, Counting
        <5>6. Cardinality(Hits(t, 0, w + 1)) <= h
          BY <2>2, <4>1, <5>1
        <5> QED
          BY <1>8, <1>9, <5>5, <5>6
      <4>2. CASE ~Open(t)
        <5>1. Hits(t, 0, 1) = {} /\ Cardinality(Hits(t, 1, Window)) <= Rate(t) - 1
          BY <2>1, <4>2 DEF RedisWindow
        <5>2. Hits(t, 0, w) \subseteq Hits(t, 1, Window)
          BY <1>16, <4>2, <5>1
        <5>3. Hits(t, 0, w) \in SUBSET Req /\ Hits(t, 1, Window) \in SUBSET Req
          BY DEF Hits
        <5>4. /\ Cardinality(Hits(t, 0, w)) <= Cardinality(Hits(t, 1, Window))
              /\ Cardinality(Hits(t, 0, w)) \in Nat /\ Cardinality(Hits(t, 1, Window)) \in Nat
          BY <5>2, <5>3, Counting
        <5> QED
          BY <1>9, <5>1, <5>4
      <4> QED
        BY <4>1, <4>2
    <3>2. \A s, n \in Nat : ~(OpenWith(t, s, n))'
      BY <2>4 DEF OpenWith
    <3> QED
      BY <1>2, <1>6, <1>15, <2>4, <3>1, <3>2 DEF RedisWindow
  <2> QED
    BY <2>3, <2>4
<1>18. ASSUME ~Redis, crashed' = {} PROVE MemoryWindow(t)'
  <2>1. MemoryWindow(t)
    BY <1>0, <1>18 DEF RateInv
  <2>2. Open(t) => /\ Cardinality(Hits(t, 0, a)) <= h
                   /\ Cardinality(Hits(t, 0, a + 1)) <= h + 1
                   /\ Cardinality(Hits(t, a + 1, Window)) <= Rate(t)
    BY <1>1, <1>13, <2>1 DEF MemoryWindow
  <2>3. CASE Open(t)'
    <3>1. /\ Cardinality(Hits(t, 0, a)) <= h
          /\ Cardinality(Hits(t, 0, a + 1)) <= h + 1
          /\ Cardinality(Hits(t, a + 1, Window)) <= Rate(t)
      BY <1>12, <2>2, <2>3
    <3>2. Cardinality(Hits(t, a + 1, w)) <= Rate(t)
      <4>1. /\ Cardinality(Hits(t, a + 1, w)) <= Cardinality(Hits(t, a + 1, Window))
            /\ Cardinality(Hits(t, a + 1, w)) \in Nat /\ Cardinality(Hits(t, a + 1, Window)) \in Nat
        <5>1. a + 1 \in Nat /\ w \in Nat /\ Window \in Nat /\ w <= Window /\ a + 1 >= a + 1
          BY <1>1, <1>4
        <5> QED
          BY <5>1, HitsCount
      <4> QED
        BY <1>9, <3>1, <4>1
    <3>3. \A s, n \in Nat : (OpenWith(t, s, n))' => s = a + 1 /\ n = h
      BY <1>14, <2>3
    <3>4. /\ (Cardinality(Hits(t, 0, a + 1)))' <= h
          /\ (Cardinality(Hits(t, 0, a + 1 + 1)))' <= h + 1
          /\ (Cardinality(Hits(t, a + 1 + 1, Window)))' <= Rate(t)'
      BY <1>2, <1>14, <2>3, <3>1, <3>2
    <3> QED
      BY <2>3, <3>3, <3>4 DEF MemoryWindow
  <2>4. CASE ~Open(t)'
    <3>1. Cardinality(Hits(t, 0, w)) <= Rate(t)
      <4>1. CASE Open(t)
        <5>1. a = w
          BY <1>1, <1>4, <1>10, <1>11, <1>18, <2>4, <4>1
        <5>2. Cardinality(Hits(t, 0, w)) <= h
          BY <2>2, <4>1, <5>1
        <5>3. Cardinality(Hits(t, 0, w)) \in Nat
          BY HitsCount
        <5> QED
          BY <1>8, <1>9, <5>2, <5>3
      <4>2. CASE ~Open(t)
        <5>1. Hits(t, 0, 1) = {} /\ Cardinality(Hits(t, 1, Window)) <= Rate(t)
          BY <1>0, <2>1, <4>2 DEF MemoryWindow, Checking, Hits
        <5>2. Hits(t, 0, w) \subseteq Hits(t, 1, Window)
          BY <1>16, <4>2, <5>1
        <5>3. Hits(t, 0, w) \in SUBSET Req /\ Hits(t, 1, Window) \in SUBSET Req
          BY DEF Hits
        <5>4. /\ Cardinality(Hits(t, 0, w)) <= Cardinality(Hits(t, 1, Window))
              /\ Cardinality(Hits(t, 0, w)) \in Nat /\ Cardinality(Hits(t, 1, Window)) \in Nat
          BY <5>2, <5>3, Counting
        <5> QED
          BY <1>9, <5>1, <5>4
      <4> QED
        BY <4>1, <4>2
    <3>2. \A s, n \in Nat : ~(OpenWith(t, s, n))'
      BY <2>4 DEF OpenWith
    <3>3. (Cardinality(Hits(t, 0, 1)))' <= 1
      BY <1>6, FS_EmptySet
    <3> QED
      BY <1>2, <1>6, <2>4, <3>1, <3>2, <3>3 DEF MemoryWindow
  <2> QED
    BY <2>3, <2>4
<1> QED
  BY <1>17, <1>18

LEMMA UncountedNext ==
    ASSUME RequestOK, UncountedInv, [Next]_vars
    PROVE  UncountedInv'
<1> SUFFICES ASSUME NEW q \in Req, pc'[q] \in {"new", "rate"} PROVE accepted'[q] = Unset
  BY DEF UncountedInv, Unset
<1>1. pc[q] \in {"new", "rate"} => accepted[q] = Unset
  BY DEF UncountedInv
<1>2. CASE Tick
  <2>1. pc' = pc /\ accepted'[q] = Older(accepted[q])
    BY <1>2 DEF Tick
  <2>2. accepted[q] = Window + 1 /\ ~(accepted[q] < Window)
    BY <1>1, <2>1, WindowType
  <2> QED
    BY <2>1, <2>2, WindowType DEF Older
<1>3. ASSUME NEW i \in Instance, Crash(i) PROVE accepted'[q] = Unset
  BY <1>1, <1>3, CrashMoves DEF Crash, history
<1>4. ASSUME NEW r \in Req, CountHit(r) \/ CheckFails(r) PROVE accepted'[q] = Unset
  <2>1. Alone(r) /\ pc'[r] \in {"over", "acquire"}
    BY <1>4, HitMoves, CheckFailsMoves DEF Refused
  <2>2. q # r /\ pc'[q] = pc[q]
    BY <2>1 DEF Alone
  <2>3. accepted' = accepted \/ accepted' = [accepted EXCEPT ![r] = 0]
    BY <1>4 DEF CountHit, CheckFails
  <2> QED
    BY <1>1, <2>2, <2>3 DEF RequestOK
<1>5. ASSUME NEW r \in Req,
             \/ BeginCheck(r) \/ TakeSlot(r) \/ Admit(r) \/ ShareLease(r) \/ StartLease(r)
             \/ LeasesExhausted(r) \/ BackOut(r) \/ ReleaseTenant(r) \/ ReleaseFails(r)
             \/ Finish(r) \/ Close(r)
      PROVE  accepted'[q] = Unset
  <2>1. accepted' = accepted
    BY <1>5 DEF BeginCheck, TakeSlot, Admit, ShareLease, StartLease, LeasesExhausted, BackOut,
                ReleaseTenant, ReleaseFails, Finish, Close, history
  <2>2. CASE BeginCheck(r)
    BY <1>1, <2>1, <2>2, BeginMoves DEF Alone
  <2>3. CASE TakeSlot(r) \/ BackOut(r)
    BY <1>1, <2>1, <2>3, SlotMoves, BackOutMoves DEF Alone, Refused
  <2>4. CASE Admit(r) \/ ShareLease(r) \/ StartLease(r) \/ LeasesExhausted(r)
    BY <1>1, <2>1, <2>4, AdmitMoves DEF Alone
  <2>5. CASE ReleaseTenant(r) \/ ReleaseFails(r)
    BY <1>1, <2>1, <2>5, ReleaseMoves
  <2>6. CASE Finish(r) \/ Close(r)
    BY <1>1, <2>1, <2>6, FinishMoves, CloseMoves DEF Alone
  <2> QED
    BY <1>5, <2>2, <2>3, <2>4, <2>5, <2>6
<1>6. CASE \/ UNCHANGED vars
           \/ \E i \in Instance, t \in Tenant : RenewLease(i, t)
  BY <1>1, <1>6 DEF vars, RenewLease, history
<1>7. ASSUME NEW r \in Req, BackOutFails(r) PROVE accepted'[q] = Unset
  BY <1>1, <1>7, BackOutFailsMoves DEF Alone, Refused
<1> QED
  BY <1>2, <1>3, <1>4, <1>5, <1>6, <1>7 DEF Next

LEMMA WindowNext ==
    ASSUME RequestOK, StoreOK, LeaseOK, StoreOK', RateInv, [Next]_vars,
           NEW t \in Tenant, Rate(t) > 0
    PROVE  /\ Redis => RedisWindow(t)'
           /\ ~Redis /\ crashed' = {} => MemoryWindow(t)'
<1> DEFINE Kept == /\ Redis => RedisWindow(t)'
                   /\ ~Redis /\ crashed' = {} => MemoryWindow(t)'
<1>1. \A r \in Req : T(r) \in Tenant
  BY ConfigType DEF RequestOK
<1>2. config' = config /\ crashed \subseteq crashed'
  BY DEF Next, Tick, Crash, RenewLease, BeginCheck, CountHit, TakeSlot, Admit, ShareLease,
         StartLease, LeasesExhausted, BackOut, ReleaseTenant, Finish, Close, CheckFails,
         ReleaseFails, BackOutFails, vars
<1> SUFFICES Kept
  OBVIOUS
\* A script of the tenant or of another that leaves its window.
<1>3. ASSUME WindowKept(t), LifeKept(t),
             \A q \in Req : T(q) = t => accepted'[q] = accepted[q],
             Redis => \A q \in Req : T(q) = t /\ pc'[q] = "acquire" => pc[q] = "acquire",
             ~Redis /\ ~Open(t) => /\ CleanupKept /\ AbsentKept(t)
                                   /\ \A q \in Req : T(q) = t /\ pc[q] = "acquire" => pc'[q] = "acquire"
      PROVE  Kept
  BY <1>2, <1>3, KeptWindow
<1> HIDE DEF Kept
<1>4. CASE Tick
  BY <1>4, TickWindow DEF Kept
<1>5. ASSUME NEW i \in Instance, Crash(i) PROVE Kept
  <2>1. CASE Redis
    <3>1. states' = states /\ accepted' = accepted
          /\ \A q \in Req : pc'[q] = "acquire" => pc[q] = "acquire"
      BY <1>5, <2>1, CrashMoves DEF Crash, history
    <3>2. WindowKept(t) /\ LifeKept(t)
      BY <3>1 DEF WindowKept, LifeKept, Open, Hash
    <3> QED
      BY <1>3, <2>1, <3>1, <3>2
  <2>2. CASE ~Redis
    BY <1>5, <2>2 DEF Crash, Kept
  <2> QED
    BY <2>1, <2>2
<1>6. ASSUME NEW i \in Instance, NEW u \in Tenant, RenewLease(i, u) PROVE Kept
  <2>1. /\ leases[i][u].count > 0 /\ cleanup' = cleanup
        /\ accepted' = accepted /\ pc' = pc
        /\ states' = IF Hash(u).concurrent > 0 THEN [states EXCEPT ![u].ttl = Ttl] ELSE states
    BY <1>6 DEF RenewLease, history
  <2>2. Redis
    BY <2>1 DEF LeaseOK
  <2>3. WindowKept(t) /\ LifeKept(t)
    BY <1>2, <2>1, <2>2, RenewedHash
  <2> QED
    BY <1>3, <2>1, <2>2, <2>3
<1>7. ASSUME states' = states, cleanup' = cleanup, accepted' = accepted,
             Redis => \A q \in Req : T(q) = t /\ pc'[q] = "acquire" => pc[q] = "acquire",
             ~Redis => \A q \in Req : pc[q] = "acquire" => pc'[q] = "acquire"
      PROVE  Kept
  <2>1. WindowKept(t) /\ LifeKept(t) /\ AbsentKept(t) /\ CleanupKept
    BY <1>2, <1>7, QuietStore DEF CleanupKept
  <2> QED
    BY <1>3, <1>7, <2>1
<1>8. ASSUME NEW r \in Req, BeginCheck(r) PROVE Kept
  <2>1. accepted' = accepted
    BY <1>8 DEF BeginCheck, history
  <2>2. \A q \in Req : T(q) = t /\ pc'[q] = "acquire" => pc[q] = "acquire"
    BY <1>8, BeginMoves DEF Alone
  <2>3. \A q \in Req : pc[q] = "acquire" => pc'[q] = "acquire"
    BY <1>8, BeginMoves DEF Alone
  <2> QED
    BY <1>7, <1>8, <2>1, <2>2, <2>3, BeginMoves
<1>9. ASSUME NEW r \in Req, Admit(r) \/ ShareLease(r) \/ StartLease(r) \/ LeasesExhausted(r)
      PROVE  Kept
  <2>1. accepted' = accepted
    BY <1>9 DEF Admit, ShareLease, StartLease, LeasesExhausted, history
  <2>2. \A q \in Req : pc'[q] = "acquire" <=> pc[q] = "acquire"
    BY <1>9, AdmitMoves DEF Alone
  <2> QED
    BY <1>7, <1>9, <2>1, <2>2, AdmitMoves
<1>10. ASSUME NEW r \in Req, Finish(r) \/ Close(r) PROVE Kept
  <2>1. accepted' = accepted
    BY <1>10 DEF Finish, Close, history
  <2>2. \A q \in Req : pc'[q] = "acquire" => pc[q] = "acquire"
    BY <1>10, FinishMoves, CloseMoves DEF Alone
  <2>3. ~Redis => \A q \in Req : pc[q] # "acquire"
    BY <1>10 DEF Finish, Close, Event, Checking
  <2> QED
    BY <1>7, <1>10, <2>1, <2>2, <2>3, FinishMoves, CloseMoves
<1>11. ASSUME NEW r \in Req, ReleaseFails(r) PROVE Kept
  <2>1. UNCHANGED <<accepted, states, cleanup, pc>>
    BY <1>11 DEF ReleaseFails
  <2> QED
    BY <1>7, <2>1
<1>12. ASSUME NEW r \in Req, BackOut(r) \/ ReleaseTenant(r) PROVE Kept
  <2>0. PICK u \in Tenant : u = T(r)
    BY <1>1
  <2>1. ReleaseConcurrent(u) /\ accepted' = accepted
    BY <1>12, <2>0 DEF BackOut, ReleaseTenant
  <2>2. WindowKept(t) /\ LifeKept(t) /\ AbsentKept(t) /\ CleanupKept
    BY <1>2, <2>1, ReleaseScript DEF Elsewhere
  <2>3. \A q \in Req : pc'[q] = "acquire" <=> pc[q] = "acquire"
    BY <1>12, BackOutMoves, ReleaseMoves DEF Alone, Refused
  <2> QED
    BY <1>3, <2>1, <2>2, <2>3
<1>13. ASSUME NEW r \in Req, CountHit(r) PROVE Kept
  <2>0. PICK u \in Tenant : u = T(r)
    BY <1>1
  <2>1. PICK limited \in BOOLEAN :
          /\ IncrementRate(u, limited)
          /\ limited => accepted' = accepted /\ pc'[r] = "over"
          /\ ~limited => accepted' = [accepted EXCEPT ![r] = 0] /\ pc'[r] = "acquire"
    BY <1>13, <2>0 DEF CountHit, Refuse, Goto, RequestOK
  <2>2. Alone(r) /\ pc[r] = "rate" /\ Rate(u) > 0
    BY <1>13, <2>0, HitMoves, RequestFacts
  <2>3. \A q \in Req : q # r => pc'[q] = pc[q] /\ accepted'[q] = accepted[q]
    BY <2>1, <2>2 DEF Alone, RequestOK
  <2>4. /\ CleanupKept /\ Elsewhere(u) /\ LifeKept(u)
        /\ limited => WindowKept(u) /\ Open(u)
    BY <1>2, <2>1, <2>2, RateScript
  <2>5. CASE u # t
    <3>1. WindowKept(t) /\ LifeKept(t) /\ AbsentKept(t)
      BY <2>4, <2>5 DEF Elsewhere
    <3> QED
      BY <1>3, <2>0, <2>3, <2>4, <2>5, <3>1
  <2>6. CASE u = t /\ limited
    BY <1>3, <2>1, <2>3, <2>4, <2>6
  <2>7. CASE u = t /\ ~limited
    <3>1. IncrementRate(t, FALSE)
      BY <2>1, <2>7
    <3> QED
      BY <1>2, <2>0, <2>1, <2>2, <2>3, <2>7, <3>1, CountedWindow DEF Kept
  <2> QED
    BY <2>5, <2>6, <2>7
<1>14. ASSUME NEW r \in Req, TakeSlot(r) PROVE Kept
  <2>0. PICK u \in Tenant : u = T(r)
    BY <1>1
  <2>1. PICK limited \in BOOLEAN : AcquireConcurrent(u, limited)
    BY <1>14, <2>0 DEF TakeSlot
  <2>2. Alone(r) /\ pc[r] = "acquire" /\ pc'[r] # "acquire" /\ accepted' = accepted
    BY <1>14, SlotMoves DEF TakeSlot, Refused
  <2>3. \A q \in Req : q # r => pc'[q] = pc[q]
    BY <2>2 DEF Alone
  <2>4. CleanupKept /\ Elsewhere(u) /\ LifeKept(u) /\ (Open(u) => WindowKept(u))
    BY <1>2, <2>1, AcquireScript
  <2>5. CASE u # t
    <3>1. WindowKept(t) /\ LifeKept(t) /\ AbsentKept(t)
      BY <2>4, <2>5 DEF Elsewhere
    <3> QED
      BY <1>3, <2>0, <2>2, <2>3, <2>4, <2>5, <3>1
  <2>6. CASE u = t /\ Open(t)
    BY <1>3, <2>2, <2>3, <2>4, <2>6
  <2>7. CASE u = t /\ ~Open(t)
    <3>1. ~Redis
      BY <2>0, <2>2, <2>7 DEF RateInv, RedisWindow
    <3> QED
      BY <1>2, <2>1, <2>2, <2>7, <3>1, TakenWindow DEF Kept
  <2> QED
    BY <2>5, <2>6, <2>7
<1>15. ASSUME NEW r \in Req, CheckFails(r) PROVE Kept
  <2>0. PICK u \in Tenant : u = T(r)
    BY <1>1
  <2>1. /\ Redis /\ Alone(r) /\ pc'[r] = "over" /\ cleanup' = cleanup
        /\ pc[r] \in {"rate", "acquire"}
    BY <1>15, CheckFailsMoves DEF Refused
  <2>2. \A q \in Req : pc'[q] = "acquire" => pc[q] = "acquire"
    BY <2>1 DEF Alone
  <2>3. CASE states' = states /\ accepted' = accepted
    BY <1>7, <2>1, <2>2, <2>3
  <2>4. CASE /\ IncrementRate(u, FALSE) /\ Rate(u) > 0 /\ pc[r] = "rate"
             /\ accepted' = [accepted EXCEPT ![r] = 0]
    <3>1. CASE u = t
      BY <1>2, <2>0, <2>1, <2>4, <3>1, CountedWindow DEF Kept
    <3>2. CASE u # t
      <4>1. WindowKept(t) /\ LifeKept(t)
        BY <1>2, <2>4, <3>2, RateScript DEF Elsewhere
      <4>2. \A q \in Req : T(q) = t => accepted'[q] = accepted[q]
        BY <2>0, <2>4, <3>2 DEF RequestOK
      <4> QED
        BY <1>3, <2>1, <2>2, <4>1, <4>2
    <3> QED
      BY <3>1, <3>2
  <2>6. CASE IncrementRate(u, TRUE) /\ Rate(u) > 0 /\ accepted' = accepted
    <3>1. Elsewhere(u) /\ LifeKept(u) /\ WindowKept(u)
      BY <1>2, <2>6, RateScript
    <3>2. WindowKept(t) /\ LifeKept(t)
      BY <3>1 DEF Elsewhere
    <3> QED
      BY <1>3, <2>1, <2>2, <2>6, <3>2
  <2>5. CASE AcquireConcurrent(u, FALSE) /\ pc[r] = "acquire" /\ accepted' = accepted
    <3>1. Elsewhere(u) /\ LifeKept(u) /\ (Open(u) => WindowKept(u))
      BY <1>2, <2>5, AcquireScript
    <3>2. u = t => Open(t)
      BY <2>0, <2>1, <2>5 DEF RateInv, RedisWindow
    <3>3. WindowKept(t) /\ LifeKept(t)
      BY <3>1, <3>2 DEF Elsewhere
    <3> QED
      BY <1>3, <2>1, <2>2, <2>5, <3>3
  <2> QED
    BY <1>15, <2>0, <2>3, <2>4, <2>5, <2>6, FailedScript
<1>17. ASSUME NEW r \in Req, BackOutFails(r) PROVE Kept
  <2>0. PICK u \in Tenant : u = T(r)
    BY <1>1
  <2>1. /\ Redis /\ Alone(r) /\ pc'[r] = "over" /\ cleanup' = cleanup /\ accepted' = accepted
        /\ states' = states \/ ReleaseConcurrent(u)
    BY <1>17, <2>0, BackOutFailsMoves DEF Refused
  <2>2. \A q \in Req : pc'[q] = "acquire" => pc[q] = "acquire"
    BY <2>1 DEF Alone
  <2>3. CASE states' = states
    BY <1>7, <2>1, <2>2, <2>3
  <2>4. CASE ReleaseConcurrent(u)
    <3>1. WindowKept(t) /\ LifeKept(t)
      BY <1>2, <2>4, ReleaseScript DEF Elsewhere
    <3> QED
      BY <1>3, <2>1, <2>2, <3>1
  <2> QED
    BY <2>1, <2>3, <2>4
<1>16. CASE UNCHANGED vars
  <2>1. UNCHANGED <<accepted, states, cleanup, pc>>
    BY <1>16 DEF vars
  <2> QED
    BY <1>7, <2>1
<1> QED
  BY <1>4, <1>5, <1>6, <1>8, <1>9, <1>10, <1>11, <1>12, <1>13, <1>14, <1>15, <1>16,
     <1>17 DEF Next

LEMMA RateInit == Init => RateInv
<1> SUFFICES ASSUME Init PROVE RateInv
  OBVIOUS
<1>1. UncountedInv
  BY DEF Init, UncountedInv
<1>2. Window \in Nat \ {0} /\ Unset = Window + 1
  BY WindowType
<1>3. \A t : ~Open(t)
  BY <1>2 DEF Init, Open, InWindow, Hash
<1>4. \A t, a : Hits(t, a, 1) = {} /\ Hits(t, a, Window) = {}
  BY <1>2 DEF Init, Hits
<1>5. \A t \in Tenant : Rate(t) \in Nat
  BY ConfigType DEF Init
<1>6. ASSUME NEW t \in Tenant, Rate(t) > 0 PROVE RedisWindow(t) /\ MemoryWindow(t)
  <2>1. \A r \in Req : pc[r] # "acquire"
    BY DEF Init
  <2>2. \A s, n : ~OpenWith(t, s, n)
    BY <1>3 DEF OpenWith
  <2>3. Cardinality({}) = 0
    BY FS_EmptySet
  <2>4. /\ Hits(t, 0, 1) = {} /\ Hits(t, 1, Window) = {}
        /\ Cardinality(Hits(t, 1, Window)) = 0 /\ Cardinality(Hits(t, 0, 1)) = 0
    BY <1>4, <2>3
  <2>5. Rate(t) \in Nat /\ 0 <= Rate(t) - 1 /\ 0 <= Rate(t)
    BY <1>5, <1>6
  <2>6. RedisWindow(t)
    BY <2>1, <2>2, <2>4, <2>5 DEF RedisWindow
  <2>7. MemoryWindow(t)
    BY <2>2, <2>4, <2>5 DEF MemoryWindow
  <2> QED
    BY <2>6, <2>7
<1> QED
  BY <1>1, <1>6 DEF RateInv

LEMMA RateNext == BaseInv /\ RateInv /\ [Next]_vars => RateInv'
<1> SUFFICES ASSUME BaseInv, RateInv, [Next]_vars PROVE RateInv'
  OBVIOUS
<1>1. RequestOK /\ StoreOK /\ LeaseOK
  BY BaseParts
<1>2. BaseInv'
  BY BaseNext
<1>3. StoreOK'
  BY Zenon, <1>2 DEF BaseInv, TypeOK, MemoryInv, StoreOK
<1>4. UncountedInv'
  BY <1>1, UncountedNext DEF RateInv
<1>5. config' = config
  BY DEF Next, Tick, Crash, RenewLease, BeginCheck, CountHit, TakeSlot, Admit, ShareLease,
         StartLease, LeasesExhausted, BackOut, ReleaseTenant, Finish, Close, CheckFails,
         ReleaseFails, BackOutFails, vars
<1>6. (Redis' <=> Redis) /\ \A t : Rate(t)' = Rate(t)
  BY <1>5, SameConfig
<1>7. \A t \in Tenant : Rate(t) > 0 => /\ Redis => RedisWindow(t)'
                                       /\ ~Redis /\ crashed' = {} => MemoryWindow(t)'
  BY <1>1, <1>3, WindowNext
<1> QED
  BY <1>4, <1>6, <1>7 DEF RateInv

\* A window admits the rate, and the hits of those in front of it that are still
\* younger than a window are fewer: the hit that opened the last of them is not.
\* In memory prune detaches one hit from the map.
THEOREM WindowsKeepTheirRate == Spec => []WindowsKeepTheRate
<1>1. Spec => [](BaseInv /\ RateInv)
  BY BaseInit, BaseNext, RateInit, RateNext, PTL DEF Spec
<1>2. BaseInv /\ RateInv => WindowsKeepTheRate
  <2> SUFFICES ASSUME RequestOK, StoreOK, RateInv, crashed = {},
                      NEW t \in Tenant, Rate(t) > 0, InWindow(Hash(t)),
                      NEW extra \in {0, 1}, extra = IF Redis THEN 0 ELSE 1
               PROVE  /\ HitsAged(t, 0..Hash(t).start) <= Rate(t) + extra
                      /\ HitsAged(t, Hash(t).start + 1..Window - 1) <= Rate(t) - 1 + extra
    BY BaseParts DEF WindowsKeepTheRate
  <2>1. Window \in Nat \ {0} /\ Age = 0..(Window + 1)
    BY WindowType
  <2>2. \A q \in Req : accepted[q] \in Nat
    BY <2>1 DEF RequestOK
  <2>3. PICK a \in Nat : a = Hash(t).start
    BY <2>1, HashType
  <2>4. PICK h \in Nat : h = Hash(t).hits /\ h <= Rate(t)
    BY HashType
  <2>5. Open(t) /\ OpenWith(t, a, h)
    BY <2>3, <2>4 DEF OpenWith, Open
  <2>6. HitsAged(t, 0..Hash(t).start) = Cardinality(Hits(t, 0, a + 1))
    <3>1. {r \in Req : T(r) = t /\ accepted[r] \in 0..a} = Hits(t, 0, a + 1)
      BY <2>2 DEF Hits
    <3> QED
      BY <2>3, <3>1 DEF HitsAged
  <2>7. HitsAged(t, Hash(t).start + 1..Window - 1) = Cardinality(Hits(t, a + 1, Window))
    <3>1. {r \in Req : T(r) = t /\ accepted[r] \in a + 1..Window - 1} = Hits(t, a + 1, Window)
      BY <2>1, <2>2 DEF Hits
    <3> QED
      BY <2>3, <3>1 DEF HitsAged
  <2>8. PICK m \in Nat : m = Cardinality(Hits(t, 0, a + 1))
    <3>1. IsFiniteSet(Hits(t, 0, a + 1))
      <4>1. Hits(t, 0, a + 1) \subseteq Req
        BY DEF Hits
      <4> QED
        BY <4>1, FS_Subset, SetsAssumption
    <3>2. Cardinality(Hits(t, 0, a + 1)) \in Nat
      BY <3>1, FS_CardinalityType
    <3> QED
      BY <3>2
  <2>9. PICK n \in Nat : n = Cardinality(Hits(t, a + 1, Window))
    <3>1. IsFiniteSet(Hits(t, a + 1, Window))
      <4>1. Hits(t, a + 1, Window) \subseteq Req
        BY DEF Hits
      <4> QED
        BY <4>1, FS_Subset, SetsAssumption
    <3>2. Cardinality(Hits(t, a + 1, Window)) \in Nat
      BY <3>1, FS_CardinalityType
    <3> QED
      BY <3>2
  <2>10. Rate(t) \in Nat
    BY HashType
  <2>11. CASE Redis
    <3>1. m <= h /\ n <= Rate(t) - 1
      BY <2>5, <2>8, <2>9, <2>11 DEF RateInv, RedisWindow
    <3> QED
      BY <2>4, <2>6, <2>7, <2>8, <2>9, <2>10, <2>11, <3>1
  <2>12. CASE ~Redis
    <3>1. m <= h + 1 /\ n <= Rate(t)
      BY <2>5, <2>8, <2>9, <2>12 DEF RateInv, MemoryWindow
    <3> QED
      BY <2>4, <2>6, <2>7, <2>8, <2>9, <2>10, <2>12, <3>1
  <2> QED
    BY <2>11, <2>12
<1> QED
  BY <1>1, <1>2, PTL
=============================================================================
