-------------------------- MODULE CompositionDelete --------------------------
(***************************************************************************)
(* Application-enforced composition deletes of ODataCrudController: the    *)
(* delete handler with planCascadeForEntity, ensureNoRestrictChildren,     *)
(* executeCascadeNode and withCompositionWriteTransaction.                 *)
(*                                                                         *)
(* A cascade first plans: it walks the composition tree depth first, one   *)
(* query at a time, a page of each hasMany relation after the other, and   *)
(* only then deletes, children before their parent.  Requests and other    *)
(* clients that insert children interleave at every query.  No foreign     *)
(* key backs the relations: that is what this mode of the service is for.  *)
(*                                                                         *)
(* The datasource, as in EntityWrites: a read sees committed rows and the  *)
(* reader's own deletes; an uncommitted delete locks its row; pages are    *)
(* cut from the rows in the order of their ids; the ids of deleted rows    *)
(* are not used again; the foreign key of a hasOne relation is unique.     *)
(***************************************************************************)
EXTENDS Integers, FiniteSets, Sequences

CONSTANTS
    N,            \* requests
    Node,         \* entities of all sets, as numbers
    Relation,     \* composition relations
    Scenarios,    \* schema, links and rows the service may hold
    Deletes,      \* what a request may ask for
    Configs,      \* the configurations of the service
    PageSize,     \* rows per query of a hasMany relation
    MaxDepth,     \* composition.maxDepth
    MaxEntities   \* composition.maxEntities

Req == 1..N

\* What an instance holds: the relations of each entity by delete policy, those
\* that are hasOne, which foreign keys point where, the rows that exist, the
\* rows clients may still insert, and the rows of another datasource.
Scenario == [cascade : [Node -> Seq(Relation)], restrict : [Node -> SUBSET Relation],
             single : SUBSET Relation, links : SUBSET (Node \X Relation \X Node),
             present : SUBSET Node, fresh : SUBSET Node, foreign : SUBSET Node]

\* The entity to delete, and whether If-Match names versions of it.
Delete == [target : Node, guarded : BOOLEAN]

\* Whether the datasource has transactions, composition.requireTransactionSupport
\* (and its namesake of writeTransactions), and writeTransactions.enabled.
Config == [tx : BOOLEAN, require : BOOLEAN, write : BOOLEAN]

\* The foreign key of a hasOne relation is unique among the rows in store.
AtMostOne(s, held) ==
    \A link \in s.links : \A c \in held :
        /\ link[2] \in s.single /\ link[3] \in held
        /\ <<link[1], link[2], c>> \in s.links
        => c = link[3]

ASSUME NAssumption         == N \in Nat \ {0}
ASSUME NodeAssumption      == Node \subseteq Nat
ASSUME ScenariosAssumption == \A s \in Scenarios :
    /\ s \in Scenario
    /\ s.present \cap s.fresh = {}
    /\ IsFiniteSet(s.present)
    /\ AtMostOne(s, s.present)
    /\ \A d \in Deletes : d.target \notin s.foreign
ASSUME DeletesAssumption   == Deletes \subseteq Delete
ASSUME ConfigsAssumption   == Configs \subseteq Config
ASSUME LimitsAssumption    == /\ PageSize \in Nat \ {0}
                              /\ MaxDepth \in Nat
                              /\ MaxEntities \in Nat \ {0}

VARIABLES
    cfg, world,  \* the configuration and the instance
    rows,        \* committed rows
    fresh,       \* rows that were never inserted
    delete,      \* what each request asks for
    pc, tx,      \* where the handler is, and its transaction
    stack,       \* the calls of planCascadeForEntity, innermost first
    planned,     \* state.entitiesPlanned
    plan,        \* the planned nodes, children first
    next,        \* the position of executeCascadeNode in plan
    dead,        \* rows deleted and not committed: they are locked
    erased,      \* rows each request deleted for good
    read,        \* relations of an entity a request has read to the end
    late,        \* rows inserted under a relation after a request read it
    status       \* the answer

request  == <<cfg, world, delete>>
store    == <<rows, fresh, dead, erased, late>>
planning == <<stack, planned, plan, read>>
vars     == <<request, store, planning, pc, tx, next, status>>

Frame == [node : Node, checked : BOOLEAN, rels : Seq(Relation), skip : Nat,
          page : SUBSET Node]

Answers == {"success", "404", "409", "412", "400", "501", "error"}

TypeOK ==
    /\ cfg \in Config /\ world \in Scenario
    /\ rows \subseteq Node /\ fresh \subseteq Node
    /\ delete \in [Req -> Delete]
    /\ pc \in [Req -> {"new", "load", "plan", "execute", "finish", "rollback", "done"}]
    /\ tx \in [Req -> {"none", "open", "committed", "rolledback"}]
    /\ stack \in [Req -> Seq(Frame)]
    /\ planned \in [Req -> 0..MaxEntities]
    /\ plan \in [Req -> Seq(Node)]
    /\ next \in [Req -> Nat \ {0}]
    /\ dead \in [Req -> SUBSET Node]
    /\ erased \in [Req -> SUBSET Node]
    /\ read \in [Req -> SUBSET (Node \X Relation)]
    /\ late \in [Req -> SUBSET Node]
    /\ status \in [Req -> {"pending"} \cup Answers]

Init ==
    /\ cfg \in Configs
    /\ world \in Scenarios
    /\ delete \in [Req -> Deletes]
    /\ rows = world.present
    /\ fresh = world.fresh
    /\ pc = [r \in Req |-> "new"]
    /\ tx = [r \in Req |-> "none"]
    /\ stack = [r \in Req |-> <<>>]
    /\ planned = [r \in Req |-> 0]
    /\ plan = [r \in Req |-> <<>>]
    /\ next = [r \in Req |-> 1]
    /\ dead = [r \in Req |-> {}]
    /\ erased = [r \in Req |-> {}]
    /\ read = [r \in Req |-> {}]
    /\ late = [r \in Req |-> {}]
    /\ status = [r \in Req |-> "pending"]

-----------------------------------------------------------------------------

Kept(n) == {world.cascade[n][i] : i \in DOMAIN world.cascade[n]} \cup world.restrict[n]

Target(r)  == delete[r].target
Guarded(r) == delete[r].guarded

\* compositionConfigHasCascade, and whether the set has a composition at all.
Cascading(n) == world.cascade[n] # <<>>
Composed(n)  == Kept(n) # {}

\* What a read of request r finds under a relation of n.
Visible(r)          == rows \ dead[r]
Children(r, n, rel) == {c \in Visible(r) : <<n, rel, c>> \in world.links}

\* find({limit, skip}): the rows from rank skip on, in the order of their ids.
Rank(found, c) == Cardinality({d \in found : d < c})

Page(r, n, rel, skip) ==
    LET found == Children(r, n, rel)
    IN  {c \in found : Rank(found, c) \in skip..(skip + PageSize - 1)}

First(page) == CHOOSE c \in page : \A d \in page : c <= d

Top(r) == Head(stack[r])

Go(r, place) == pc' = [pc EXCEPT ![r] = place]

FailWithoutRollback(r, answer) ==  \* mutant
    /\ Go(r, "done")
    /\ status' = [status EXCEPT ![r] = answer]

\* The handler throws: the transaction is rolled back before the answer leaves.
Fail(r, answer) ==
    /\ Go(r, IF tx[r] = "open" THEN "rollback" ELSE "done")
    /\ status' = [status EXCEPT ![r] = answer]

-----------------------------------------------------------------------------
(* withCompositionWriteTransaction and withWriteTransaction.               *)

WantsTransaction(r) == Cascading(Target(r)) \/ cfg.write

Begin(r) ==
    /\ pc[r] = "new"
    /\ WantsTransaction(r) /\ cfg.tx
    /\ tx' = [tx EXCEPT ![r] = "open"]
    /\ Go(r, "load")
    /\ UNCHANGED <<request, store, planning, next, status>>

\* Not wanted, not supported, or beginTransaction rejects, and not required.
BeginUnprotected(r) ==
    /\ pc[r] = "new"
    /\ WantsTransaction(r) => ~cfg.require
    /\ Go(r, "load")
    /\ UNCHANGED <<request, store, planning, tx, next, status>>

BeginRefused(r) ==
    /\ pc[r] = "new"
    /\ WantsTransaction(r) /\ cfg.require
    /\ Fail(r, "501")
    /\ UNCHANGED <<request, store, planning, tx, next>>

-----------------------------------------------------------------------------
(* The plan.                                                               *)

EnterFrame(n) == [node |-> n, checked |-> world.restrict[n] = {}, rels |-> world.cascade[n],
                  skip |-> 0, page |-> {}]

\* delete reads the root, by its id or by the versions of If-Match, when the
\* entity set has a composition.  A set that has restrict relations only is
\* checked like a node of a cascade, and counts nothing.
LoadRoot(r) ==
    /\ pc[r] = "load"
    /\ Composed(Target(r))
    /\ Target(r) \in Visible(r)
    /\ stack' = [stack EXCEPT ![r] = <<EnterFrame(Target(r))>>]
    /\ planned' = [planned EXCEPT ![r] = IF Cascading(Target(r)) THEN 1 ELSE 0]
    /\ Go(r, "plan")
    /\ UNCHANGED <<request, store, plan, read, tx, next, status>>

RootMissing(r) ==
    /\ pc[r] = "load"
    /\ Composed(Target(r))
    /\ Guarded(r) \/ Target(r) \notin Visible(r)
    /\ Fail(r, IF Guarded(r) THEN "412" ELSE "404")
    /\ UNCHANGED <<request, store, planning, tx, next>>

\* A set without compositions is deleted from at once.
PlainDelete(r) ==
    /\ pc[r] = "load"
    /\ ~Composed(Target(r))
    /\ plan' = [plan EXCEPT ![r] = <<Target(r)>>]
    /\ Go(r, "execute")
    /\ UNCHANGED <<request, store, stack, planned, read, tx, next, status>>

Planning(r) == pc[r] = "plan" /\ stack[r] # <<>>

\* ensureNoRestrictChildren.
Blocked(r, n) == \E rel \in world.restrict[n] : Children(r, n, rel) # {}

CheckRestrict(r) ==
    /\ Planning(r)
    /\ ~Top(r).checked
    /\ IF Blocked(r, Top(r).node)
       THEN /\ Fail(r, "409")
            /\ UNCHANGED <<stack, read>>
       ELSE /\ stack' = [stack EXCEPT ![r][1].checked = TRUE]
            /\ read' = [read EXCEPT ![r] = @ \cup ({Top(r).node} \X world.restrict[Top(r).node])]
            /\ UNCHANGED <<pc, status>>
    /\ UNCHANGED <<request, store, planned, plan, tx, next>>

Querying(r) == Planning(r) /\ Top(r).checked /\ Top(r).page = {} /\ Top(r).rels # <<>>

\* The maxEntities guardrail in front of every page of a hasMany relation.
PageRefused(r) ==
    /\ Querying(r)
    /\ Head(Top(r).rels) \notin world.single
    /\ planned[r] >= MaxEntities
    /\ Fail(r, "400")
    /\ UNCHANGED <<request, store, planning, tx, next>>

ShortAlways(found, rel) == TRUE  \* mutant

\* A short page is the last of its relation.
Short(found, rel) == rel \in world.single \/ Cardinality(found) < PageSize

ReadPage(r) ==
    /\ Querying(r)
    /\ LET frame == Top(r)
           rel   == Head(frame.rels)
           found == Page(r, frame.node, rel, frame.skip)
       IN  /\ rel \in world.single \/ planned[r] < MaxEntities
           /\ IF Short(found, rel)
              THEN /\ stack' = [stack EXCEPT ![r][1] = [frame EXCEPT !.page = found,
                                                    !.skip = 0, !.rels = Tail(frame.rels)]]
                   /\ read' = [read EXCEPT ![r] = @ \cup {<<frame.node, rel>>}]
              ELSE /\ stack' = [stack EXCEPT ![r][1] = [frame EXCEPT !.page = found,
                                                    !.skip = frame.skip + PageSize]]
                   /\ UNCHANGED read
    /\ UNCHANGED <<request, store, planned, plan, pc, tx, next, status>>

\* The guards at the head of planCascadeForEntity.
TooDeep(r)       == Len(stack[r]) > MaxDepth
TooMany(r)       == planned[r] + 1 > MaxEntities
OnPath(r, child) == \E i \in DOMAIN stack[r] : stack[r][i].node = child

\* planCascadeForEntity on the next row of the page.
Descend(r) ==
    /\ Planning(r)
    /\ Top(r).page # {}
    /\ LET child == First(Top(r).page)
       IN  IF TooDeep(r) \/ TooMany(r) \/ OnPath(r, child)
           THEN /\ Fail(r, "400")
                /\ UNCHANGED <<stack, planned>>
           ELSE /\ stack' = [stack EXCEPT ![r] =
                        <<EnterFrame(child), [Top(r) EXCEPT !.page = Top(r).page \ {child}]>>
                            \o Tail(stack[r])]
                /\ planned' = [planned EXCEPT ![r] = @ + 1]
                /\ UNCHANGED <<pc, status>>
    /\ UNCHANGED <<request, store, plan, read, tx, next>>

\* A node is complete: its children stand before it in the plan.
FinishNode(r) ==
    /\ Planning(r)
    /\ Top(r).checked /\ Top(r).page = {} /\ Top(r).rels = <<>>
    /\ plan' = [plan EXCEPT ![r] = Append(@, Top(r).node)]
    /\ stack' = [stack EXCEPT ![r] = Tail(@)]
    /\ pc' = IF Len(stack[r]) = 1 THEN [pc EXCEPT ![r] = "execute"] ELSE pc
    /\ UNCHANGED <<request, store, planned, read, tx, next, status>>

-----------------------------------------------------------------------------
(* executeCascadeNode for the children, and the delete of the root.        *)

Current(r) == plan[r][next[r]]
Locked(r)  == \E q \in Req \ {r} : Current(r) \in dead[q]
IsRoot(r)  == next[r] = Len(plan[r])

\* assertCompositionWriteDataSource, in front of every delete of a cascade.
CrossesDatasource(r) ==
    /\ pc[r] = "execute"
    /\ Current(r) \in world.foreign
    /\ Fail(r, "501")
    /\ UNCHANGED <<request, store, planning, tx, next>>

Deleting(r) == pc[r] = "execute" /\ Current(r) \notin world.foreign

NothingDeletedIgnored(r) == FALSE  \* mutant

\* deleteById rejects, and deleteAll counts 0, when no row was there to delete.
NothingDeleted(r) == Current(r) \notin Visible(r)

DeleteMisses(r) ==
    /\ Deleting(r) /\ ~Locked(r)
    /\ NothingDeleted(r) \/ (IsRoot(r) /\ Guarded(r))
    /\ Fail(r, IF IsRoot(r) /\ Guarded(r) THEN "412" ELSE "404")
    /\ UNCHANGED <<request, store, planning, tx, next>>

RemoveWithoutOptions(r) ==  \* mutant
    /\ rows' = rows \ {Current(r)}
    /\ erased' = [erased EXCEPT ![r] = @ \cup {Current(r)}]
    /\ UNCHANGED dead

\* options carry the transaction, if there is one.
Remove(r) ==
    IF tx[r] = "open"
    THEN /\ dead' = [dead EXCEPT ![r] = @ \cup {Current(r)}]
         /\ UNCHANGED <<rows, erased>>
    ELSE /\ rows' = rows \ {Current(r)}
         /\ erased' = [erased EXCEPT ![r] = @ \cup {Current(r)}]
         /\ UNCHANGED dead

DeleteApplies(r) ==
    /\ Deleting(r) /\ ~Locked(r)
    /\ ~NothingDeleted(r)
    /\ Remove(r)
    /\ next' = [next EXCEPT ![r] = @ + 1]
    /\ pc' = IF IsRoot(r) THEN [pc EXCEPT ![r] = "finish"] ELSE pc
    /\ UNCHANGED <<request, fresh, late, planning, tx, status>>

\* The datasource breaks a cycle of transactions that wait for one another.
WaitsFor(r, q) == pc[r] = "execute" /\ r # q /\ Current(r) \in dead[q]

Deadlocked(r) ==
    /\ \E S \in SUBSET Req :
        /\ r \in S
        /\ \A q \in S : (\E p \in S : WaitsFor(q, p)) /\ (\E p \in S : WaitsFor(p, q))
    /\ Fail(r, "error")
    /\ UNCHANGED <<request, store, planning, tx, next>>

\* A hook of the root or of a child, or a query of the datasource, throws.
StepFails(r) ==
    /\ pc[r] \in {"load", "plan", "execute", "finish"}
    /\ Fail(r, "error")
    /\ UNCHANGED <<request, store, planning, tx, next>>

-----------------------------------------------------------------------------
(* The end of the transaction.                                             *)

Answer(r) ==
    /\ pc[r] = "finish" /\ tx[r] # "open"
    /\ Go(r, "done")
    /\ status' = [status EXCEPT ![r] = "success"]
    /\ UNCHANGED <<request, store, planning, tx, next>>

Commit(r) ==
    /\ pc[r] = "finish" /\ tx[r] = "open"
    /\ rows' = rows \ dead[r]
    /\ erased' = [erased EXCEPT ![r] = @ \cup dead[r]]
    /\ dead' = [dead EXCEPT ![r] = {}]
    /\ tx' = [tx EXCEPT ![r] = "committed"]
    /\ Go(r, "done")
    /\ status' = [status EXCEPT ![r] = "success"]
    /\ UNCHANGED <<request, fresh, late, planning, next>>

Abandon(r) ==
    /\ dead' = [dead EXCEPT ![r] = {}]
    /\ tx' = [tx EXCEPT ![r] = "rolledback"]
    /\ Go(r, "done")

\* A commit that rejects has dropped the transaction.
CommitFails(r) ==
    /\ pc[r] = "finish" /\ tx[r] = "open"
    /\ Abandon(r)
    /\ status' = [status EXCEPT ![r] = "error"]
    /\ UNCHANGED <<request, rows, fresh, erased, late, planning, next>>

Rollback(r) ==
    /\ pc[r] = "rollback"
    /\ Abandon(r)
    /\ UNCHANGED <<request, rows, fresh, erased, late, planning, next, status>>

-----------------------------------------------------------------------------
(* Another client creates a row; create does not look at the parent.  A    *)
(* second row of a hasOne relation is refused by its unique foreign key.   *)

Insert(n) ==
    /\ n \in fresh
    /\ AtMostOne(world, rows \cup {n})
    /\ rows' = rows \cup {n}
    /\ fresh' = fresh \ {n}
    /\ late' = [r \in Req |->
            IF \E k \in read[r] : <<k[1], k[2], n>> \in world.links
            THEN late[r] \cup {n} ELSE late[r]]
    /\ UNCHANGED <<request, dead, erased, planning, pc, tx, next, status>>

Progress(r) ==
    \/ Begin(r) \/ BeginUnprotected(r) \/ BeginRefused(r)
    \/ LoadRoot(r) \/ RootMissing(r) \/ PlainDelete(r)
    \/ CheckRestrict(r) \/ PageRefused(r) \/ ReadPage(r) \/ Descend(r) \/ FinishNode(r)
    \/ CrossesDatasource(r) \/ DeleteMisses(r) \/ DeleteApplies(r) \/ Deadlocked(r)
    \/ Answer(r) \/ Commit(r) \/ CommitFails(r) \/ Rollback(r)

Handle(r) == Progress(r) \/ StepFails(r)

Next == (\E r \in Req : Handle(r)) \/ (\E n \in Node : Insert(n))

\* Every promise of the datasource settles and the event loop runs its
\* continuation, so a handler that can take a step takes one.  Nothing makes a
\* step fail: a handler that waits for a row lock waits until it is free.
Spec == Init /\ [][Next]_vars /\ \A r \in Req : WF_vars(Progress(r))

-----------------------------------------------------------------------------

\* A deleted entity leaves no child behind: every row that still points at it
\* through a composition relation was inserted after the cascade had read that
\* relation to its end.  The plan pages with an offset while other requests
\* insert and delete rows of the same relation, and a cascade without a
\* transaction may stop half way.  A row that is inserted later is not found:
\* no foreign key is there to refuse it.
NoOrphans ==
    \A r \in Req : \A link \in world.links :
        /\ link[1] \in erased[r] /\ link[2] \in Kept(link[1])
        /\ link[3] \in rows
        => link[3] \in late[r]

\* entitiesDeleted + 1 = entitiesPlanned at the end of a cascade: a success has
\* deleted all it planned, and nothing was counted that another request deleted.
CascadeComplete ==
    \A r \in Req : status[r] = "success" =>
        /\ Target(r) \in erased[r]
        /\ Cascading(Target(r)) => Cardinality(erased[r]) = planned[r]
        /\ \A q \in Req \ {r} : erased[r] \cap erased[q] = {}

\* withCompositionWriteTransaction: a cascade that fails in a transaction, at
\* whatever node and for whatever reason, has deleted nothing.
FailedCascadeLeavesNothing ==
    \A r \in Req : tx[r] \in {"open", "rolledback"} => erased[r] = {}

\* Every delete is answered, whoever it waits for: no path of the handler ends
\* with its row locks held.
EventuallyAnswered == \A r \in Req : (pc[r] = "new") ~> (pc[r] = "done")

=============================================================================
