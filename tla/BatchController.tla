--------------------------- MODULE BatchController ---------------------------
(***************************************************************************)
(* One run of ODataBatchController.handleBatch: the loop over the          *)
(* requests of a $batch payload, the atomicity groups (changesets) it      *)
(* executes in a datasource transaction, and the in-process handlers of    *)
(* the sub-requests.  A handler is a process of its own: the controller    *)
(* only races its response against a timer, so a handler whose answer is   *)
(* no longer awaited keeps running.                                        *)
(*                                                                         *)
(* Abstractions: a request is identified by its position in the payload    *)
(* (ids are unique once validated), a response by the class of its status, *)
(* and a write by the position of the request that performed it.           *)
(***************************************************************************)
EXTENDS Integers, Sequences, FiniteSets

CONSTANTS
    N,                       \* requests in the payload
    Groups,                  \* atomicityGroup tokens
    NoGroup,                 \* a request without atomicityGroup
    Batches,                 \* the payloads a client may send
    TimeoutEnabled           \* cfg.batch.subRequestTimeoutMs > 0

Req == 1..N

(***************************************************************************)
(* A payload: the group of each request, the requests it dependsOn, the    *)
(* request its Content-ID reference names (0: none) and whether that       *)
(* reference is the first URL segment, whether it writes, and whether its  *)
(* success names an entity (a Location, an @odata.id or a key; the 204 of  *)
(* a PATCH or DELETE has none).  With it the configuration it meets:       *)
(* maxResponsePayloadBytes, counted in entries, maxChangesetOperations     *)
(* (0: no limit), and whether writes outside a changeset have a            *)
(* transaction (cfg.writeTransactions and a datasource that can).          *)
(***************************************************************************)
Payload == [grp     : [Req -> Groups \cup {NoGroup}],
            deps    : [Req -> SUBSET Nat],
            ref     : [Req -> 0..N],
            refUrl  : [Req -> BOOLEAN],
            write   : [Req -> BOOLEAN],
            entity  : [Req -> BOOLEAN],
            limit   : Nat,
            changesetLimit : Nat,
            transactions   : BOOLEAN]

ASSUME NAssumption       == N \in Nat \ {0}
ASSUME GroupsAssumption  == NoGroup \notin Groups
ASSUME BatchesAssumption == Batches \subseteq Payload
ASSUME FlagsAssumption   == TimeoutEnabled \in BOOLEAN

VARIABLES
    batch,       \* the payload being executed
    phase,       \* where handleBatch is
    pos,         \* the request the loop of handleBatch is at
    cur,         \* the request executeGroup is at
    entries,     \* entries executeGroup has produced
    depRes,      \* dependencyResults
    executed,    \* keys of executedGroups
    pending,     \* values of executedGroups
    responses,   \* responses pushed so far
    tracked,     \* responseSizeTracker, in entries
    contentIds,  \* ids registered in the shared contentIdMap
    localIds,    \* ids registered in the changeset's copy of it
    tx,          \* the transaction of each group, as the datasource sees it
    txFx,        \* writes performed in a group's transaction
    durable,     \* committed writes
    handler      \* the handler of each sub-request

control == <<phase, pos, cur>>
results == <<entries, depRes, executed, pending, responses, tracked>>
ids     == <<contentIds, localIds>>
store   == <<tx, txFx, durable>>
vars    == <<batch, control, results, ids, store, handler>>

NoEntry == "none"
Failed  == {"fail", "timeout", "tooLarge", "failedDep", "unsupported", "error"}
Status  == {"ok"} \cup Failed
Entry   == [id : Req, status : Status]

InGroup(i) == batch.grp[i] # NoGroup
Members(g) == {i \in Req : batch.grp[i] = g}
CurGroup   == batch.grp[pos]

TypeOK ==
    /\ batch \in Payload
    /\ phase \in {"validate", "loop", "open", "exec", "await", "settle", "abort",
                  "answered", "rejected"}
    /\ pos \in 1..(N + 1)
    /\ cur \in Req
    /\ entries \in [Req -> Status \cup {NoEntry}]
    /\ depRes \in [Req -> Status \cup {NoEntry}]
    /\ executed \subseteq Groups
    /\ pending \in [Groups -> Seq(Entry)]
    /\ responses \in Seq(Entry)
    /\ tracked \in Nat
    /\ contentIds \subseteq Req
    /\ localIds \subseteq Req
    /\ tx \in [Groups -> {"none", "active", "committed", "rolledback", "leaked"}]
    /\ txFx \subseteq Req
    /\ durable \subseteq Req
    /\ handler \in [Req -> {"idle", "running", "wrote", "committed", "ended"}]

\* A payload nothing has been done for.
Unstarted ==
    /\ batch \in Batches
    /\ pos = 1
    /\ cur = 1
    /\ entries = [i \in Req |-> NoEntry]
    /\ depRes = [i \in Req |-> NoEntry]
    /\ executed = {}
    /\ pending = [g \in Groups |-> <<>>]
    /\ responses = <<>>
    /\ tracked = 0
    /\ contentIds = {}
    /\ localIds = {}
    /\ tx = [g \in Groups |-> "none"]
    /\ txFx = {}
    /\ durable = {}
    /\ handler = [i \in Req |-> "idle"]

Init == Unstarted /\ phase = "validate"

-----------------------------------------------------------------------------
(* Validation of the payload, before anything is executed.                 *)

\* validateJsonDependsOn: every dependency is the id of an earlier request.
DependsOnValid == \A i \in Req : \A d \in batch.deps[i] : d \in Req /\ d < i

\* validateContiguousAtomicityGroups: between two members there is only the group.
GroupsContiguous ==
    \A g \in Groups : \A i, k \in Members(g) :
        \A j \in Req : i < j /\ j < k => batch.grp[j] = g

ChangesetSizesValid ==
    batch.changesetLimit > 0 =>
        \A g \in Groups : Cardinality(Members(g)) <= batch.changesetLimit

Validate ==
    /\ phase = "validate"
    /\ phase' = IF DependsOnValid /\ GroupsContiguous /\ ChangesetSizesValid
                THEN "loop" ELSE "rejected"
    /\ UNCHANGED <<batch, pos, cur, results, ids, store, handler>>

-----------------------------------------------------------------------------
(* The loop of handleBatch.                                                *)

\* A request of a group that was executed already: its entry is shifted off.
ShiftPending ==
    /\ phase = "loop"
    /\ pos <= N
    /\ CurGroup \in executed
    /\ pos' = pos + 1
    /\ IF pending[CurGroup] # <<>>
       THEN /\ responses' = Append(responses, Head(pending[CurGroup]))
            /\ pending' = [pending EXCEPT ![CurGroup] = Tail(@)]
       ELSE UNCHANGED <<responses, pending>>
    /\ UNCHANGED <<batch, phase, cur, entries, depRes, executed, tracked, ids, store, handler>>

EnterGroup ==
    /\ phase = "loop"
    /\ pos <= N
    /\ CurGroup \in Groups \ executed
    /\ phase' = "open"
    /\ cur' = pos
    /\ UNCHANGED <<batch, pos, results, ids, store, handler>>

EnterSingle ==
    /\ phase = "loop"
    /\ pos <= N
    /\ CurGroup = NoGroup
    /\ phase' = "exec"
    /\ cur' = pos
    /\ UNCHANGED <<batch, pos, results, ids, store, handler>>

\* finalizeResponseSizeTracker, and the response (or 413) of the whole batch.
Answer ==
    /\ phase = "loop"
    /\ pos = N + 1
    /\ phase' = "answered"
    /\ UNCHANGED <<batch, pos, cur, results, ids, store, handler>>

-----------------------------------------------------------------------------
(* executeAtomicGroup: opening the group.                                  *)

ExecutedEntries(f) ==  \* mutant: no synthetic entries
    LET executedOnes == {i \in Members(CurGroup) : f[i] # "failedDep"}
    IN  [k \in 1..Cardinality(executedOnes) |->
            [id |-> pos + k - 1, status |-> f[pos + k - 1]]]

\* The entries of the whole group, in payload order; pos is its first request.
GroupEntries(f) ==
    [k \in 1..Cardinality(Members(CurGroup)) |->
        [id |-> pos + k - 1, status |-> f[pos + k - 1]]]

OnlyWrites == \A i \in Members(CurGroup) : batch.write[i]

\* resolveAtomicityGroupEntitySetName: a URL that starts with a Content-ID
\* reference must name an earlier request of the same changeset.
UrlReferencesResolve ==
    \A i \in Members(CurGroup) :
        batch.refUrl[i] /\ batch.ref[i] # 0 =>
            batch.ref[i] \in Members(CurGroup) /\ batch.ref[i] < i

GroupWouldOpen == OnlyWrites /\ UrlReferencesResolve

\* A 400 while the group is prepared rejects the whole batch.
OpenInvalid ==
    /\ phase = "open"
    /\ ~GroupWouldOpen
    /\ phase' = "rejected"
    /\ UNCHANGED <<batch, pos, cur, results, ids, store, handler>>

\* describeAtomicityGroupRejection: several datasources, or an entity set that
\* cannot be resolved.  The 501 entries are tracked and recorded as results.
OpenRejected ==
    /\ phase = "open"
    /\ GroupWouldOpen
    /\ LET rejected == [i \in Req |-> IF i \in Members(CurGroup) THEN "unsupported"
                                      ELSE depRes[i]]
           count == tracked + Cardinality(Members(CurGroup))
       IN  /\ tracked' = count
           /\ IF batch.limit > 0 /\ count > batch.limit
              THEN /\ phase' = "rejected"
                   /\ UNCHANGED <<depRes, executed, pending>>
              ELSE /\ phase' = "loop"
                   /\ depRes' = rejected
                   /\ executed' = executed \cup {CurGroup}
                   /\ pending' = [pending EXCEPT ![CurGroup] = GroupEntries(rejected)]
    /\ UNCHANGED <<batch, pos, cur, entries, responses, ids, store, handler>>

\* The group's promise was rejected with an error that is no 4xx: handleBatch
\* answers every request of the group with it.  dependencyResults and the size
\* tracker keep what executeGroup put there.
FailGroup ==
    /\ phase' = "loop"
    /\ executed' = executed \cup {CurGroup}
    /\ pending' = [pending EXCEPT ![CurGroup] = GroupEntries([i \in Req |-> "error"])]

\* No transaction: the datasource has none, or beginTransaction failed.
OpenFails ==
    /\ phase = "open"
    /\ GroupWouldOpen
    /\ FailGroup
    /\ UNCHANGED <<batch, pos, cur, entries, depRes, responses, tracked, ids, store, handler>>

OpenGroup ==
    /\ phase = "open"
    /\ GroupWouldOpen
    /\ phase' = "exec"
    /\ tx' = [tx EXCEPT ![CurGroup] = "active"]
    /\ localIds' = contentIds
    /\ UNCHANGED <<batch, pos, cur, results, contentIds, txFx, durable, handler>>

-----------------------------------------------------------------------------
(* executeGroup: one request of the group, or a request on its own.        *)

EveryId == contentIds \cup localIds  \* mutant
VisibleIds == IF InGroup(cur) THEN localIds ELSE contentIds

\* assertContentIdAvailability throws a 400.  On its own the request rejects
\* the batch at once; in a group the transaction is rolled back first.
UnknownContentId ==
    /\ phase = "exec"
    /\ batch.ref[cur] # 0
    /\ batch.ref[cur] \notin VisibleIds
    /\ phase' = IF InGroup(cur) THEN "abort" ELSE "rejected"
    /\ UNCHANGED <<batch, pos, cur, results, ids, store, handler>>

ReferenceKnown == batch.ref[cur] = 0 \/ batch.ref[cur] \in VisibleIds

\* evaluateDependsOn
DependenciesExecuted == \A d \in batch.deps[cur] : depRes[d] # NoEntry  \* mutant
DependenciesOk == \A d \in batch.deps[cur] : depRes[d] = "ok"

LastOfGroup(i) == i + 1 \notin Members(batch.grp[i])

\* trackResponseSize pushes the batch over its limit: PayloadTooLarge is thrown.
RecordOverflow ==
    /\ batch.limit > 0
    /\ tracked + 1 > batch.limit
    /\ tracked' = tracked + 1
    /\ phase' = IF InGroup(cur) THEN "abort" ELSE "rejected"
    /\ UNCHANGED <<pos, cur, entries, depRes, executed, pending, responses, ids>>

\* recordContentIdResult: a success that names an entity registers its id.
Registered(s) == IF s = "ok" /\ batch.entity[cur] THEN {cur} ELSE {}

\* The entry of request cur: tracked, kept for its dependants, its Content-ID
\* registered.  A failure ends the changeset.
RecordEntry(s) ==
    /\ batch.limit > 0 => tracked + 1 <= batch.limit
    /\ tracked' = tracked + 1
    /\ entries' = [entries EXCEPT ![cur] = s]
    /\ depRes' = [depRes EXCEPT ![cur] = s]
    /\ UNCHANGED <<executed, pending>>
    /\ IF InGroup(cur)
       THEN /\ localIds' = localIds \cup Registered(s)
            /\ phase' = IF s # "ok" \/ LastOfGroup(cur) THEN "settle" ELSE "exec"
            /\ cur' = IF s # "ok" \/ LastOfGroup(cur) THEN cur ELSE cur + 1
            /\ UNCHANGED <<pos, responses, contentIds>>
       ELSE /\ contentIds' = contentIds \cup Registered(s)
            /\ responses' = Append(responses, [id |-> cur, status |-> s])
            /\ phase' = "loop"
            /\ pos' = pos + 1
            /\ UNCHANGED <<cur, localIds>>

Record(s) == RecordOverflow \/ RecordEntry(s)

SkipDependent ==
    /\ phase = "exec"
    /\ ReferenceKnown
    /\ ~DependenciesOk
    /\ Record("failedDep")
    /\ UNCHANGED <<batch, store, handler>>

\* A URL that leaves the service or a missing method: 400 without a handler.
InvalidRequest ==
    /\ phase = "exec"
    /\ ReferenceKnown
    /\ DependenciesOk
    /\ Record("fail")
    /\ UNCHANGED <<batch, store, handler>>

\* executeWithHandler hands the sub-request to the REST server.
StartHandler ==
    /\ phase = "exec"
    /\ ReferenceKnown
    /\ DependenciesOk
    /\ phase' = "await"
    /\ handler' = [handler EXCEPT ![cur] = "running"]
    /\ UNCHANGED <<batch, pos, cur, results, ids, store>>

HandlerTimeoutInGroupsOnly ==  \* mutant
    /\ TimeoutEnabled
    /\ phase = "await"
    /\ InGroup(cur)
    /\ Record("timeout")
    /\ UNCHANGED <<batch, store, handler>>

\* The timer wins the race: the sub-request is answered with 504.  Request,
\* response and socket are destroyed; the handler's promise is not.
HandlerTimeout ==
    /\ TimeoutEnabled
    /\ phase = "await"
    /\ Record("timeout")
    /\ UNCHANGED <<batch, store, handler>>

\* maxResponseBodyBytes: the response is cut off and answered with 413.
ResponseTooLarge ==
    /\ phase = "await"
    /\ handler[cur] \in {"running", "wrote", "committed"}
    /\ Record("tooLarge")
    /\ UNCHANGED <<batch, store, handler>>

-----------------------------------------------------------------------------
(* The handlers.  A write runs in the group's transaction when the         *)
(* request carries an atomicity state, else in a transaction of its own    *)
(* (withWriteTransaction) or, without one, directly.                       *)

\* The request is still the one the controller waits for.
Awaited(i) == phase = "await" /\ cur = i

HandlerWriteOutside(i) ==  \* mutant: the write misses the group's transaction
    /\ handler[i] = "running"
    /\ batch.write[i]
    /\ handler' = [handler EXCEPT ![i] = "wrote"]
    /\ durable' = durable \cup {i}
    /\ UNCHANGED <<batch, control, results, ids, tx, txFx>>

HandlerWrite(i) ==
    /\ handler[i] = "running"
    /\ batch.write[i]
    /\ InGroup(i) => tx[batch.grp[i]] = "active"
    /\ handler' = [handler EXCEPT ![i] = "wrote"]
    /\ IF InGroup(i)
       THEN txFx' = txFx \cup {i} /\ UNCHANGED durable
       ELSE /\ durable' = IF batch.transactions THEN durable ELSE durable \cup {i}
            /\ UNCHANGED txFx
    /\ UNCHANGED <<batch, control, results, ids, tx>>

\* The commit at the end of withWriteTransaction.
HandlerCommit(i) ==
    /\ handler[i] = "wrote"
    /\ ~InGroup(i)
    /\ batch.transactions
    /\ handler' = [handler EXCEPT ![i] = "committed"]
    /\ durable' = durable \cup {i}
    /\ UNCHANGED <<batch, control, results, ids, tx, txFx>>

AnswersBeforeCommit(i) == handler[i] = IF batch.write[i] THEN "wrote" ELSE "running"  \* mutant

CanSucceed(i) ==
    IF ~batch.write[i] THEN handler[i] = "running"
    ELSE IF ~InGroup(i) /\ batch.transactions THEN handler[i] = "committed"
    ELSE handler[i] = "wrote"

CanFail(i) == handler[i] \in {"running", "wrote"}

\* The handler ends, with a response the controller awaits or without one
\* anybody listens to.
HandlerRespond(i) ==
    /\ handler' = [handler EXCEPT ![i] = "ended"]
    /\ \/ Awaited(i) /\ CanSucceed(i) /\ Record("ok")
       \/ Awaited(i) /\ CanFail(i) /\ Record("fail")
    /\ UNCHANGED <<batch, store>>

HandlerEndUnheard(i) ==
    /\ ~Awaited(i)
    /\ CanSucceed(i) \/ CanFail(i)
    /\ handler' = [handler EXCEPT ![i] = "ended"]
    /\ UNCHANGED <<batch, control, results, ids, store>>

-----------------------------------------------------------------------------
(* executeAtomicGroup: settling the group.                                 *)

LastEntryFailed == entries[cur] = "fail"  \* mutant: a 504 or 413 goes unnoticed
GroupFailed == \E i \in Members(CurGroup) : entries[i] \in Failed

Unexecuted == {i \in Members(CurGroup) : entries[i] = NoEntry}

DropEffects == txFx' = txFx \ Members(CurGroup)

\* A failure in the group: rollback, and synthetic 424 entries for the requests
\* that were not executed.  The entries of those that were stay as they are.
RollbackGroup ==
    /\ phase = "settle"
    /\ GroupFailed
    /\ tx' = [tx EXCEPT ![CurGroup] = "rolledback"]
    /\ DropEffects
    /\ LET count == tracked + Cardinality(Unexecuted)
           filled(f) == [i \in Req |-> IF i \in Unexecuted THEN "failedDep" ELSE f[i]]
       IN  /\ tracked' = count
           /\ IF batch.limit > 0 /\ Unexecuted # {} /\ count > batch.limit
              THEN /\ phase' = "rejected"
                   /\ UNCHANGED <<entries, depRes, executed, pending>>
              ELSE /\ phase' = "loop"
                   /\ entries' = filled(entries)
                   /\ depRes' = filled(depRes)
                   /\ executed' = executed \cup {CurGroup}
                   /\ pending' = [pending EXCEPT ![CurGroup] = GroupEntries(entries')]
    /\ UNCHANGED <<batch, pos, cur, responses, ids, durable, handler>>

\* tx.rollback() throws: the transaction is left to the datasource.
RollbackFails ==
    /\ \/ phase = "settle" /\ GroupFailed
       \/ phase = "abort"
    /\ tx' = [tx EXCEPT ![CurGroup] = "leaked"]
    /\ DropEffects
    /\ FailGroup
    /\ UNCHANGED <<batch, pos, cur, entries, depRes, responses, tracked, ids, durable, handler>>

AbortWithoutRollback ==  \* mutant
    /\ phase = "abort"
    /\ phase' = "rejected"
    /\ UNCHANGED <<batch, pos, cur, results, ids, store, handler>>

\* A 400 or 413 thrown inside the group: rollback, then the batch is rejected.
AbortGroup ==
    /\ phase = "abort"
    /\ tx' = [tx EXCEPT ![CurGroup] = "rolledback"]
    /\ DropEffects
    /\ phase' = "rejected"
    /\ UNCHANGED <<batch, pos, cur, results, ids, durable, handler>>

CommitGroup ==
    /\ phase = "settle"
    /\ ~GroupFailed
    /\ tx' = [tx EXCEPT ![CurGroup] = "committed"]
    /\ durable' = durable \cup (txFx \cap Members(CurGroup))
    /\ DropEffects
    /\ contentIds' = contentIds \cup localIds
    /\ executed' = executed \cup {CurGroup}
    /\ pending' = [pending EXCEPT ![CurGroup] = GroupEntries(entries)]
    /\ phase' = "loop"
    /\ UNCHANGED <<batch, pos, cur, entries, depRes, responses, tracked, localIds, handler>>

\* tx.commit() throws.  The commit may have reached the datasource or not; the
\* rollback that follows succeeds, or fails and its error is swallowed.
CommitFails ==
    /\ phase = "settle"
    /\ ~GroupFailed
    /\ DropEffects
    /\ \/ /\ tx' = [tx EXCEPT ![CurGroup] = "committed"]
          /\ durable' = durable \cup (txFx \cap Members(CurGroup))
       \/ /\ \E t \in {"rolledback", "leaked"} : tx' = [tx EXCEPT ![CurGroup] = t]
          /\ UNCHANGED durable
    /\ FailGroup
    /\ UNCHANGED <<batch, pos, cur, entries, depRes, responses, tracked, ids, handler>>

-----------------------------------------------------------------------------

Controller ==
    \/ Validate \/ ShiftPending \/ EnterGroup \/ EnterSingle \/ Answer
    \/ OpenInvalid \/ OpenRejected \/ OpenFails \/ OpenGroup
    \/ UnknownContentId \/ SkipDependent \/ InvalidRequest \/ StartHandler
    \/ RollbackGroup \/ RollbackFails \/ AbortGroup \/ CommitGroup \/ CommitFails

Handler(i) ==
    HandlerWrite(i) \/ HandlerCommit(i) \/ HandlerRespond(i) \/ HandlerEndUnheard(i)

\* The batch was answered; handlers nobody waits for may still be running.
Settled == phase \in {"answered", "rejected"}

Next ==
    \/ Controller
    \/ HandlerTimeout
    \/ ResponseTooLarge
    \/ \E i \in Req : Handler(i)

\* The event loop runs the controller's continuations, and the timer fires; no
\* handler is obliged to make progress.
Spec == Init /\ [][Next]_vars /\ WF_vars(Controller) /\ WF_vars(HandlerTimeout)

-----------------------------------------------------------------------------
(* What a batch promises.                                                  *)

\* A changeset is committed whole or not at all (CommitGroup, RollbackGroup and
\* every error path between them), whatever its late handlers still do.
GroupAllOrNothing ==
    \A g \in Groups : Members(g) \cap durable \in {{}, Members(g)}

\* Once a member of a changeset has a failed entry nothing of the changeset is
\* ever committed: neither by the settling of the group nor by a handler that
\* timed out and wrote afterwards.
FailedGroupLeavesNothing ==
    \A g \in Groups :
        (\E i \in Members(g) : entries[i] \in Failed) => Members(g) \cap durable = {}

\* A transaction is open only while executeAtomicGroup runs its group; no error
\* path leaves one behind, except a rollback the datasource itself refuses.
NoDanglingTransaction ==
    \A g \in Groups : tx[g] = "active" =>
        /\ phase \in {"exec", "await", "settle", "abort"}
        /\ CurGroup = g

\* Responses keep the order of the payload, one for each request: the entries a
\* group leaves in executedGroups are shifted off exactly at its members.
ResponsesInOrder ==
    /\ \A k \in DOMAIN responses : responses[k].id = k
    /\ Len(responses) = IF phase = "answered" THEN N ELSE pos - 1

Starts(i) == handler[i] = "idle" /\ handler'[i] = "running"

\* The responses tell the client that the changeset g failed.
ToldFailed(g) ==
    \E k \in DOMAIN responses : responses[k].id \in Members(g) /\ responses[k].status \in Failed

\* When a handler starts, the write of each request it dependsOn can be seen by
\* it: performed in the transaction the handler shares (the same changeset), else
\* committed.  evaluateDependsOn looks at the result each request had when it was
\* executed, so a member of another changeset may have been rolled back since;
\* then the failure of that changeset is among the responses already.
DependencyEffectVisible ==
    [][\A i \in Req : Starts(i) =>
         \A d \in batch.deps[i] : batch.write[d] =>
             IF InGroup(d) /\ batch.grp[d] = batch.grp[i]
             THEN d \in txFx
             ELSE d \in durable \/ (InGroup(d) /\ ToldFailed(batch.grp[d]))]_vars

\* A Content-ID reference is only ever replaced by the URL of an entity that
\* exists for the handler: ids of a changeset that rolled back or whose commit
\* failed never reach the requests after it.
ContentIdTargetExists ==
    [][\A i \in Req :
         Starts(i) /\ batch.ref[i] # 0 /\ batch.write[batch.ref[i]] =>
             \/ batch.ref[i] \in durable
             \/ /\ InGroup(i)
                /\ batch.grp[batch.ref[i]] = batch.grp[i]
                /\ batch.ref[i] \in txFx]_vars

\* A sub-request answered with 504 writes nothing any more: its handler was
\* cancelled and the transaction of its write rolled back.
TimedOutHandlersAreCancelled ==
    [][\A i \in Req : depRes[i] = "timeout" /\ batch.transactions =>
         (i \in durable' <=> i \in durable)]_vars

\* With a sub-request timeout every batch that has been read is answered or
\* rejected, even when its handlers hang.
EventuallyAnswered == TimeoutEnabled => (phase = "validate" ~> Settled)

-----------------------------------------------------------------------------
(* The abstract promise, AtomicUnits: what is durable, and what the client *)
(* has been told is.                                                       *)

Changesets == {Members(g) : g \in {h \in Groups : Members(h) # {}}}
Singles    == {{i} : i \in {j \in Req : ~InGroup(j)}}

AnsweredOk(i) == \E k \in DOMAIN responses : responses[k] = [id |-> i, status |-> "ok"]
AllWrite(u)   == \A i \in u : batch.write[i]

Acknowledged == {u \in Changesets \cup Singles : AllWrite(u) /\ \A i \in u : AnsweredOk(i)}

Answered == {i \in Req : \E k \in DOMAIN responses : responses[k].id = i}

\* Its handler may still write, and nobody waits for it (HandlerTimeout,
\* ResponseTooLarge).
Forsaken(i) == ~InGroup(i) /\ ~Awaited(i) /\ handler[i] \in {"running", "wrote"}
Abandoned   == {{i} : i \in {j \in Req : Forsaken(j)}}

Abstract == INSTANCE AtomicUnits
                WITH changesets <- Changesets, singles <- Singles,
                     answered <- Answered, acknowledged <- Acknowledged,
                     abandoned <- Abandoned, open <- ~Settled

\* Every step of a batch is a step of AtomicUnits or changes nothing there: no
\* unit becomes durable in part, after an answer or after the batch, but for a
\* write whose answer was a timeout or a response over a limit.
AtomicUnitsSpec == Abstract!Spec
=============================================================================
