-------------------------- MODULE MCTenantThrottle --------------------------
(* Instances of TenantThrottle for TLC.  A tick is half a window of        *)
(* 60 seconds; a lease lasts 120 seconds and is renewed every 60.          *)
EXTENDS TenantThrottle

MCReq      == 1..3
MCTenant   == {"a", "b"}
MCInstance == {"p", "q"}

Quota(rate, concurrent) == [rate |-> [t \in MCTenant |-> IF t = "a" THEN rate ELSE 0],
                            concurrent |-> [t \in MCTenant |-> concurrent]]

Service(store, quota, tenant, at, faults) ==
    [store |-> store, rate |-> quota.rate, concurrent |-> quota.concurrent,
     tenant |-> tenant, at |-> at, faults |-> faults]

All(value) == [r \in MCReq |-> value]

\* One process with its own counters: a rate, a number of slots, both.
InMemory(faults) ==
    {Service("memory", Quota(1, 0), All("a"), All("p"), faults),
     Service("memory", Quota(0, 1), All("a"), All("p"), faults),
     Service("memory", Quota(2, 1), All("a"), All("p"), faults)}

\* One tenant on two instances.
InRedis(quota, faults) == Service("redis", quota, All("a"), <<"p", "q", "p">>, faults)

\* Two tenants that compete for the one timer of an instance.
Competing == Service("redis", Quota(0, 2), <<"a", "b", "b">>, <<"p", "p", "q">>, {"client"})

MCConfigs ==
    InMemory({"crash"})
        \cup {InRedis(Quota(1, 0), {}), InRedis(Quota(0, 1), {"crash"}),
              InRedis(Quota(0, 1), {"client"}), Competing}

\* One slot, no fault; two requests a minute, of which four are made.
MCOneSlot   == {InRedis(Quota(0, 1), {})}
MCFour      == 1..4
MCPerMinute == {[store |-> "redis", rate |-> Quota(2, 0).rate, concurrent |-> Quota(2, 0).concurrent,
                 tenant |-> [r \in MCFour |-> "a"], at |-> [r \in MCFour |-> "p"], faults |-> {}]}
=============================================================================
