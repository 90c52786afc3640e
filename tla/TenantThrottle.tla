--------------------------- MODULE TenantThrottle ---------------------------
(***************************************************************************)
(* Per-tenant throttling: enforceTenantLimit of the entity-set controllers,*)
(* the TenantThrottlerProvider of each application instance and the store  *)
(* behind it, in memory or in Redis.                                       *)
(*                                                                         *)
(* A request asks for a hit of the rate window, then for a slot, and gives *)
(* the slot back on the first of the response's 'finish' and 'close'.  A   *)
(* Redis hash of a tenant lives as long as its lease; each instance that   *)
(* serves the tenant renews it with a timer.                               *)
(*                                                                         *)
(* Time is kept as ages and countdowns, which a Tick moves.  A script is   *)
(* atomic at the Redis server; between sending one and its answer anything *)
(* may happen.  Promises of the in-memory store settle before the next     *)
(* event of the process, so its check is not cut by an event.              *)
(***************************************************************************)
EXTENDS Integers, FiniteSets

CONSTANTS
    Req, Tenant, Instance,
    Window,       \* windowMs
    Ttl,          \* minTtlMs of the Redis store, 2 * windowMs by default
    MinInterval,  \* the shortest interval of a lease timer
    LeaseLimit,   \* tenantQuotas.maxLeaseRefreshers
    MaxFaults,    \* bound: failing commands, and crashes
    Configs       \* quotas, store and requests of a service

\* rate and concurrent are 0 where the tenant has no such limit; the faults are
\* those of the environment: a process may crash, the Redis client may fail.
Config == [store : {"memory", "redis"}, rate : [Tenant -> Nat], concurrent : [Tenant -> Nat],
           tenant : [Req -> Tenant], at : [Req -> Instance],
           faults : SUBSET {"crash", "client"}]

ASSUME SetsAssumption    == IsFiniteSet(Req) /\ IsFiniteSet(Tenant)
ASSUME TimeAssumption    == /\ Window \in Nat \ {0} /\ Ttl \in Nat \ {0}
                            /\ MinInterval \in Nat \ {0}
\* A lease outlives the window and the time to its next renewal: 120 seconds by
\* default, 60 and 60.  A minTtlMs below windowMs or below 5 seconds is outside
\* the model.
ASSUME LeaseAssumption == Window <= Ttl /\ MinInterval < Ttl
ASSUME LimitAssumption   == LeaseLimit \in Nat \ {0} /\ MaxFaults \in Nat
ASSUME ConfigsAssumption == \A c \in Configs :
    /\ c \in Config
    /\ c.store = "memory" => \A r, s \in Req : c.at[r] = c.at[s]

VARIABLES
    config,
    pc,         \* where the check of a request is
    closed,     \* requests whose client went away before their check was over
    released,   \* requests whose release() has run
    releasing,  \* releaseTenant calls under way for the request
    states,     \* what the store holds of the tenants it knows
    cleanup,    \* age of the last prune of the in-memory store
    leases,     \* activeTenants of the instances
    crashed,    \* instances that have crashed once
    took, gave, \* history: slots counted, and given back, for a request
    accepted,   \* history: age of the hit of a request
    failed      \* history: requests one of whose commands failed

vars == <<config, pc, closed, released, releasing, states, cleanup, leases, crashed,
          took, gave, accepted, failed>>
history == <<took, gave, accepted, failed>>

Unset == Window + 1
Age   == 0..Unset
State == [start : Age, hits : Nat, concurrent : Nat, ttl : Nat]

Checking == {"rate", "acquire", "acquired", "backout"}

Init ==
    /\ config \in Configs
    /\ pc = [r \in Req |-> "new"]
    /\ closed = {} /\ released = {} /\ crashed = {} /\ failed = {}
    /\ releasing = [r \in Req |-> 0]
    /\ states = [t \in {} |-> [start |-> 0, hits |-> 0, concurrent |-> 0, ttl |-> 0]]
    /\ cleanup = Window
    /\ leases = [i \in Instance |-> [t \in Tenant |-> [count |-> 0, due |-> 0]]]
    /\ took = [r \in Req |-> 0]
    /\ gave = [r \in Req |-> 0]
    /\ accepted = [r \in Req |-> Unset]

Redis     == config.store = "redis"
T(r)      == config.tenant[r]
At(r)     == config.at[r]
Rate(t)   == config.rate[t]
Limit(t)  == config.concurrent[t]

\* With the in-memory store a release happens inside the call of release(), and
\* an event of the process waits until a check that has begun is over.
Settled == Redis \/ \A r \in Req : releasing[r] = 0
Event   == Settled /\ (Redis \/ \A r \in Req : pc[r] \notin Checking)

Put(t, s) == [x \in DOMAIN states \cup {t} |-> IF x = t THEN s ELSE states[x]]

-----------------------------------------------------------------------------
(* The Redis scripts.  ttl is what is left of the hash's life, 0 for a hash *)
(* without one; the commands read an absent hash as nils.                   *)

RateTtl == IF Ttl > Window THEN Ttl ELSE Window

Hash(t) == IF t \in DOMAIN states THEN states[t]
           ELSE [start |-> Unset, hits |-> 0, concurrent |-> 0, ttl |-> 0]

InWindowShort(s) == s.start < Window - 1  \* mutant

InWindow(s) == s.start < Window

Full(t, s) == Limit(t) > 0 /\ s.concurrent >= Limit(t)

RedisRate(t, limited) ==
    LET s == IF InWindow(Hash(t)) THEN Hash(t) ELSE [Hash(t) EXCEPT !.start = 0, !.hits = 0]
    IN  /\ limited <=> s.hits + 1 > Rate(t)
        /\ states' = IF limited
                     THEN IF t \in DOMAIN states THEN [states EXCEPT ![t].ttl = RateTtl] ELSE states
                     ELSE Put(t, [s EXCEPT !.hits = @ + 1, !.ttl = RateTtl])
        /\ UNCHANGED cleanup

RedisAcquire(t, limited) ==
    LET s == Hash(t) IN
    /\ limited <=> Full(t, s)
    /\ states' = IF limited THEN states
                 ELSE Put(t, [s EXCEPT !.concurrent = @ + 1, !.ttl = Ttl,
                                       !.start = IF s.start = Unset THEN 0 ELSE s.start])
    /\ UNCHANGED cleanup

\* Gives back one slot, if one is taken, and leaves a hash either way.
Less(n) == IF n > 0 THEN n - 1 ELSE 0

RedisReleaseWithoutTtl(t) ==  \* mutant
    /\ states' = Put(t, [Hash(t) EXCEPT !.concurrent = Less(@)])
    /\ UNCHANGED cleanup

RedisRelease(t) ==
    /\ states' = Put(t, [Hash(t) EXCEPT !.concurrent = Less(@), !.ttl = Ttl])
    /\ UNCHANGED cleanup

-----------------------------------------------------------------------------
(* The in-memory store.  ensureState fetches or creates the tenant's state, *)
(* then prune may take it, idle and out of its window, out of the map again *)
(* before it is counted on: the caller then counts on a detached object.    *)

Idle(s) == s.concurrent = 0 /\ ~InWindow(s)

Fresh     == [start |-> 0, hits |-> 0, concurrent |-> 0, ttl |-> 0]
Known(t)  == IF t \in DOMAIN states THEN states[t] ELSE Fresh
Pruned(f) == IF cleanup < Window THEN f
             ELSE [t \in {x \in DOMAIN f : ~Idle(f[x])} |-> f[t]]
Prune     == cleanup' = IF cleanup < Window THEN cleanup ELSE 0
Detached(t) == cleanup >= Window /\ Idle(Known(t))

\* The map after prune, with the tenant's state s where it is still in it.
Store(t, s) ==
    LET kept == Pruned(Put(t, Known(t)))
    IN  IF t \in DOMAIN kept THEN [kept EXCEPT ![t] = s] ELSE kept

MemoryRate(t, limited) ==
    LET s == IF InWindow(Known(t)) THEN Known(t) ELSE [Known(t) EXCEPT !.start = 0, !.hits = 0]
    IN  /\ limited <=> s.hits + 1 > Rate(t)
        /\ states' = Store(t, IF limited THEN s ELSE [s EXCEPT !.hits = @ + 1])
        /\ Prune

MemoryAcquire(t, limited) ==
    LET s == Known(t) IN
    /\ limited <=> Full(t, s)
    /\ states' = Store(t, IF limited THEN s ELSE [s EXCEPT !.concurrent = @ + 1])
    /\ Prune

MemoryRelease(t) ==
    IF t \notin DOMAIN states THEN UNCHANGED <<states, cleanup>>
    ELSE LET s == [states[t] EXCEPT !.concurrent = Less(@)]
             kept == Pruned([states EXCEPT ![t] = s])
         IN  /\ states' = [x \in DOMAIN kept \ (IF Idle(s) THEN {t} ELSE {}) |-> kept[x]]
             /\ Prune

IncrementRate(t, limited)     == IF Redis THEN RedisRate(t, limited) ELSE MemoryRate(t, limited)
AcquireConcurrent(t, limited) == IF Redis THEN RedisAcquire(t, limited) ELSE MemoryAcquire(t, limited)
ReleaseConcurrent(t)          == IF Redis THEN RedisRelease(t) ELSE MemoryRelease(t)

\* Whether the slot just acquired is on a state the store still holds.
Counted(r) == took' = [took EXCEPT ![r] = IF Redis \/ ~Detached(T(r)) THEN 1 ELSE 0]

-----------------------------------------------------------------------------
(* A request.                                                              *)

Goto(r, place) == pc' = [pc EXCEPT ![r] = place]

ReleaseOnErrorOnly(r) ==  \* mutant
    IF r \in released \/ pc[r] = "active" THEN UNCHANGED <<released, releasing>>
    ELSE /\ released' = released \cup {r}
         /\ releasing' = [releasing EXCEPT ![r] = @ + 1]

\* release(): the first call hands the tenant to releaseTenant.
Release(r) ==
    IF r \in released THEN UNCHANGED <<released, releasing>>
    ELSE /\ released' = released \cup {r}
         /\ releasing' = [releasing EXCEPT ![r] = @ + 1]

\* catch (error) { release(); ... throw }
Refuse(r) == Goto(r, "over") /\ Release(r)

BeginCheck(r) ==
    /\ Settled
    /\ pc[r] = "new"
    /\ \/ Rate(T(r)) = 0 /\ Limit(T(r)) = 0 /\ Goto(r, "active")
       \/ Rate(T(r)) > 0 /\ Goto(r, "rate")
       \/ Rate(T(r)) = 0 /\ Limit(T(r)) > 0 /\ Goto(r, "acquire")
    /\ UNCHANGED <<config, closed, released, releasing, states, cleanup, leases, crashed, history>>

CountHit(r) ==
    /\ Settled
    /\ pc[r] = "rate"
    /\ \E limited \in BOOLEAN :
        /\ IncrementRate(T(r), limited)
        /\ \/ /\ limited
              /\ Refuse(r)
              /\ UNCHANGED accepted
           \/ /\ ~limited
              /\ Goto(r, "acquire")
              /\ accepted' = [accepted EXCEPT ![r] = 0]
              /\ UNCHANGED <<released, releasing>>
    /\ UNCHANGED <<config, closed, leases, crashed, took, gave, failed>>

TakeSlot(r) ==
    /\ Settled
    /\ pc[r] = "acquire"
    /\ \E limited \in BOOLEAN :
        /\ AcquireConcurrent(T(r), limited)
        /\ \/ /\ limited
              /\ Refuse(r)
              /\ UNCHANGED took
           \/ /\ ~limited
              /\ Goto(r, "acquired")
              /\ Counted(r)
              /\ UNCHANGED <<released, releasing>>
    /\ UNCHANGED <<config, closed, leases, crashed, gave, accepted, failed>>

-----------------------------------------------------------------------------
(* The lease timers of an instance: one per tenant it serves.              *)

LeaseIntervalWhole == Ttl  \* mutant

LeaseInterval == IF Ttl \div 2 > MinInterval THEN Ttl \div 2 ELSE MinInterval
Timers(i)     == {t \in Tenant : leases[i][t].count > 0}

Admitted(r) == Settled /\ pc[r] = "acquired"

Admit(r) ==
    /\ Admitted(r)
    /\ ~Redis
    /\ Goto(r, "active")
    /\ UNCHANGED <<config, closed, released, releasing, states, cleanup, leases, crashed, history>>

ShareLease(r) ==
    /\ Admitted(r) /\ Redis
    /\ T(r) \in Timers(At(r))
    /\ leases' = [leases EXCEPT ![At(r)][T(r)].count = @ + 1]
    /\ Goto(r, "active")
    /\ UNCHANGED <<config, closed, released, releasing, states, cleanup, crashed, history>>

StartLease(r) ==
    /\ Admitted(r) /\ Redis
    /\ T(r) \notin Timers(At(r))
    /\ Cardinality(Timers(At(r))) < LeaseLimit
    /\ leases' = [leases EXCEPT ![At(r)][T(r)] = [count |-> 1, due |-> LeaseInterval]]
    /\ Goto(r, "active")
    /\ UNCHANGED <<config, closed, released, releasing, states, cleanup, crashed, history>>

LeasesExhausted(r) ==
    /\ Admitted(r) /\ Redis
    /\ T(r) \notin Timers(At(r))
    /\ Cardinality(Timers(At(r))) >= LeaseLimit
    /\ Goto(r, "backout")
    /\ UNCHANGED <<config, closed, released, releasing, states, cleanup, leases, crashed, history>>

\* check() gives the slot back itself, and its error makes release() do it again.
BackOut(r) ==
    /\ pc[r] = "backout"
    /\ ReleaseConcurrent(T(r))
    /\ gave' = [gave EXCEPT ![r] = @ + 1]
    /\ Refuse(r)
    /\ UNCHANGED <<config, closed, leases, crashed, took, accepted, failed>>

DropLeaseButLast(i, t) ==  \* mutant
    leases' = IF ~Redis \/ leases[i][t].count <= 1 THEN leases
              ELSE [leases EXCEPT ![i][t].count = @ - 1]

DropLease(i, t) ==
    leases' = IF ~Redis \/ leases[i][t].count = 0 THEN leases
              ELSE IF leases[i][t].count = 1
                   THEN [leases EXCEPT ![i][t] = [count |-> 0, due |-> 0]]
                   ELSE [leases EXCEPT ![i][t].count = @ - 1]

\* releaseTenant: the store's part and, whatever becomes of it, the lease's.
ReleaseTenant(r) ==
    /\ releasing[r] > 0
    /\ releasing' = [releasing EXCEPT ![r] = @ - 1]
    /\ ReleaseConcurrent(T(r))
    /\ gave' = [gave EXCEPT ![r] = @ + 1]
    /\ DropLease(At(r), T(r))
    /\ UNCHANGED <<config, pc, closed, released, crashed, took, accepted, failed>>

RenewLease(i, t) ==
    /\ leases[i][t].count > 0
    /\ leases[i][t].due = 0
    /\ leases' = [leases EXCEPT ![i][t].due = LeaseInterval]
    /\ states' = IF Hash(t).concurrent > 0 THEN [states EXCEPT ![t].ttl = Ttl] ELSE states
    /\ UNCHANGED <<config, pc, closed, released, releasing, cleanup, crashed, history>>

-----------------------------------------------------------------------------
(* The response, the clock and the environment.                            *)

\* The handler answers; 'finish' is not emitted on a response that was closed.
Finish(r) ==
    /\ Event
    /\ pc[r] = "active"
    /\ Goto(r, "over")
    /\ IF r \in closed THEN UNCHANGED <<released, releasing>> ELSE Release(r)
    /\ UNCHANGED <<config, closed, states, cleanup, leases, crashed, history>>

\* The connection closes: before BeginCheck, when nobody listens to it yet, in
\* the middle of the check, or later, when the handler no longer matters.
Close(r) ==
    /\ Event
    /\ r \notin closed
    /\ \/ /\ pc[r] = "new"
          /\ closed' = closed \cup {r}
          /\ UNCHANGED <<pc, released, releasing>>
       \/ /\ pc[r] \in Checking
          /\ closed' = closed \cup {r}
          /\ Release(r)
          /\ UNCHANGED pc
       \/ /\ pc[r] \in {"active", "over"}
          /\ Goto(r, "over")
          /\ Release(r)
          /\ UNCHANGED closed
    /\ UNCHANGED <<config, states, cleanup, leases, crashed, history>>

\* A hash whose life is over is gone.  Timers that are due run before time goes
\* on, and the commands under way are answered before it does.
Older(a) == IF a < Window THEN a + 1 ELSE a

Tick ==
    /\ \A r \in Req : pc[r] \notin Checking /\ releasing[r] = 0
    /\ \A i \in Instance, t \in Tenant : leases[i][t].count > 0 => leases[i][t].due > 0
    /\ states' = [t \in {x \in DOMAIN states : states[x].ttl # 1} |->
                    [states[t] EXCEPT !.start = Older(@), !.ttl = Less(@)]]
    /\ leases' = [i \in Instance |-> [t \in Tenant |->
                    [leases[i][t] EXCEPT !.due = Less(@)]]]
    /\ cleanup' = Older(cleanup)
    /\ accepted' = [r \in Req |-> Older(accepted[r])]
    /\ UNCHANGED <<config, pc, closed, released, releasing, crashed, took, gave, failed>>

\* The Redis client rejects, whether or not the script ran.
ClientFails(r) ==
    /\ Redis /\ "client" \in config.faults /\ Cardinality(failed) < MaxFaults
    /\ failed' = failed \cup {r}

CheckFails(r) ==
    /\ ClientFails(r)
    /\ pc[r] \in {"rate", "acquire"}
    /\ \/ UNCHANGED <<states, took, accepted>>
       \/ /\ pc[r] = "rate"
          /\ \E limited \in BOOLEAN :
              /\ RedisRate(T(r), limited)
              /\ accepted' = IF limited THEN accepted ELSE [accepted EXCEPT ![r] = 0]
          /\ UNCHANGED took
       \/ /\ pc[r] = "acquire" /\ RedisAcquire(T(r), FALSE) /\ Counted(r)
          /\ UNCHANGED accepted
    /\ Refuse(r)
    /\ UNCHANGED <<config, closed, cleanup, leases, crashed, gave>>

BackOutFails(r) ==
    /\ ClientFails(r)
    /\ pc[r] = "backout"
    /\ \/ UNCHANGED <<states, gave>>
       \/ RedisRelease(T(r)) /\ gave' = [gave EXCEPT ![r] = @ + 1]
    /\ Refuse(r)
    /\ UNCHANGED <<config, closed, cleanup, leases, crashed, took, accepted>>

ReleaseFails(r) ==
    /\ ClientFails(r)
    /\ releasing[r] > 0
    /\ releasing' = [releasing EXCEPT ![r] = @ - 1]
    /\ DropLease(At(r), T(r))
    /\ UNCHANGED <<config, pc, closed, released, states, cleanup, crashed, took, gave, accepted>>

\* An instance dies with its requests and its timers, and a fresh one follows.
Crash(i) ==
    /\ "crash" \in config.faults
    /\ Cardinality(crashed) < MaxFaults
    /\ i \in {At(r) : r \in Req} \ crashed
    /\ crashed' = crashed \cup {i}
    /\ LET lost == {r \in Req : At(r) = i /\ pc[r] # "new"}
       IN  /\ pc' = [r \in Req |-> IF r \in lost THEN "over" ELSE pc[r]]
           /\ closed' = closed \ lost
           /\ released' = released \cup lost
           /\ releasing' = [r \in Req |-> IF r \in lost THEN 0 ELSE releasing[r]]
    /\ leases' = [leases EXCEPT ![i] = [t \in Tenant |-> [count |-> 0, due |-> 0]]]
    /\ states' = IF Redis THEN states ELSE [t \in {} |-> Fresh]
    /\ cleanup' = Window
    /\ UNCHANGED <<config, history>>

Next ==
    \/ Tick
    \/ \E i \in Instance : Crash(i)
    \/ \E i \in Instance, t \in Tenant : RenewLease(i, t)
    \/ \E r \in Req :
        \/ BeginCheck(r) \/ CountHit(r) \/ TakeSlot(r)
        \/ Admit(r) \/ ShareLease(r) \/ StartLease(r) \/ LeasesExhausted(r) \/ BackOut(r)
        \/ ReleaseTenant(r) \/ Finish(r) \/ Close(r)
        \/ CheckFails(r) \/ BackOutFails(r) \/ ReleaseFails(r)

Spec == Init /\ [][Next]_vars /\ WF_vars(Tick)

-----------------------------------------------------------------------------
(* Properties.                                                             *)

\* The counters of the stores stay within the quotas, the timers of an instance
\* within maxLeaseRefreshers.
TypeOK ==
    /\ config \in Configs
    /\ pc \in [Req -> Checking \cup {"new", "active", "over"}]
    /\ closed \subseteq Req /\ released \subseteq Req
    /\ failed \subseteq Req /\ crashed \subseteq Instance
    /\ releasing \in [Req -> 0..1]
    /\ DOMAIN states \subseteq Tenant
    /\ \A t \in DOMAIN states :
        /\ states[t] \in State
        /\ Rate(t) > 0 => states[t].hits <= Rate(t)
        /\ Limit(t) > 0 => states[t].concurrent <= Limit(t)
    /\ cleanup \in 0..Window
    /\ leases \in [Instance -> [Tenant -> [count : Nat, due : 0..LeaseInterval]]]
    /\ \A i \in Instance : Cardinality(Timers(i)) <= LeaseLimit
    /\ took \in [Req -> 0..1] /\ gave \in [Req -> 0..2]
    /\ accepted \in [Req -> Age]

\* Requests in flight that passed the check, and requests that cost the others a
\* slot or its lease: counted nowhere, or released without a slot they held, for
\* they were refused, backed out, failed or went away in the middle of the check.
InFlight(t) == {r \in Req : T(r) = t /\ pc[r] \in {"acquired", "active"} /\ r \notin released}
Stray(t)    ==
    {r \in Req : /\ T(r) = t
                 /\ \/ r \in InFlight(t) /\ took[r] = 0
                    \/ /\ r \in released
                       /\ took[r] = 0 \/ gave[r] > took[r] \/ r \in closed \cup failed}

\* However long requests run and however often leases are renewed, a tenant is
\* served no more at once than its limit; only such requests pass it.
LimitKept ==
    \A t \in Tenant : Limit(t) > 0 /\ Stray(t) = {} => Cardinality(InFlight(t)) <= Limit(t)

Orderly == closed = {} /\ failed = {} /\ crashed = {}

\* A tenant is not refused for slots nobody uses, unless a client went away in
\* the middle of a check, the Redis client failed or a process died.
NoFalseRefusal ==
    Orderly => \A t \in DOMAIN states :
        states[t].concurrent <=
            Cardinality({r \in Req : T(r) = t /\ ( \/ pc[r] \in {"acquired", "backout", "active"}
                                                     \/ releasing[r] > 0)})

\* src/types.ts:358: "Maximum concurrent in-flight requests per tenant bucket."
InFlightWithinLimit ==
    Orderly => \A t \in Tenant : Limit(t) > 0 => Cardinality(InFlight(t)) <= Limit(t)

\* A window admits the rate, and does not begin before the one in front of it has
\* lasted windowMs: the hit that opened that one is a window old.  In memory one
\* hit more is let through, which prune detaches from the map, and a window that
\* a slot opened need not begin with a hit.
HitsAged(t, S) == Cardinality({r \in Req : T(r) = t /\ accepted[r] \in S})
WindowsKeepTheRate ==
    crashed = {} => \A t \in Tenant : Rate(t) > 0 /\ InWindow(Hash(t)) =>
        LET start == Hash(t).start
            extra == IF Redis THEN 0 ELSE 1
        IN  /\ HitsAged(t, 0..start) <= Rate(t) + extra
            /\ HitsAged(t, start + 1..Window - 1) <= Rate(t) - 1 + extra

\* src/types.ts:356: "Rolling request-per-minute limit applied to each tenant bucket."
RollingRate ==
    Orderly => \A t \in Tenant : Rate(t) > 0 => HitsAged(t, 0..Window - 1) <= Rate(t)

\* Once the requests of a tenant are over on an instance, no lease timer of it
\* is left there, unless a client went away in the middle of a check.
LeasesReturned ==
    closed = {} => \A i \in Instance : \A t \in Timers(i) :
        \E r \in Req : At(r) = i /\ T(r) = t /\ (pc[r] = "active" \/ releasing[r] > 0)

\* Once nothing is in flight and no timer runs, the hashes of the tenants leave
\* Redis, whatever was lost before.
Quiescent ==
    /\ \A r \in Req : pc[r] \in {"new", "over"} /\ releasing[r] = 0
    /\ \A i \in Instance : Timers(i) = {}
HashesExpire == (Redis /\ Quiescent) ~> (~Quiescent \/ states = [t \in {} |-> Fresh])

=============================================================================
