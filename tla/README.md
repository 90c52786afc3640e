# A verification development for loopback4-odata

loopback4-odata turns LoopBack 4 models into an OData 4.01 service: a booter
registers entity sets, a factory generates a controller for each of them, and a
batch controller executes `$batch` payloads by sending sub-requests through the
application's own handler. Nearly all of it runs in one process that awaits a
datasource (and, for quotas, Redis) between almost any two lines, and that is where
it is hard to test. The TLA+ modules beside this file model those parts; TLC
checks them on small instances, and for seven of the ten parts TLAPS proves every
safety property the runs check, for every value of the constants; for an eighth, the
multipart parser, it proves all but one. `PROJECT.json` records, for each definition, the
lines of the source it stands for.

All source paths below are relative to `src/src/`.

- [Inventory](#inventory) · [Modules](#modules) · [Runs](#runs) ·
  [Fairness and deadlock](#fairness-and-deadlock) · [Proofs](#proofs) ·
  [Findings](#findings) · [Not modelled](#not-modelled) · [Plan](#plan)

To check everything, in this directory:

    tlc -workers 2 -config BatchRequest.cfg MCBatchRequest.tla
    # likewise EntityWrites, CompositionDelete, TenantThrottle, ChangeTracking, RelatedWrites,
    # EntitySetRead, and the violations:
    tlc -workers 2 -config BatchController_Timeout.cfg MCBatchController.tla
    # likewise MultipartParser_Split, TenantThrottle_Limit, TenantThrottle_Rolling,
    # ChangeTracking_NextLink
    tlapm BatchController_proofs.tla
    # likewise EntityWrites_proofs, CompositionDelete_proofs, TenantThrottle_proofs,
    # ChangeTracking_proofs, RelatedWrites_proofs, CollectionQuery_proofs, MultipartParser_proofs

## Inventory

| component | state it keeps | operations | what makes it correct |
|---|---|---|---|
| Batch controller (`controllers/batch.controller.ts`) | per batch: the Content-ID map, `dependencyResults`, `executedGroups`, the response size tracker, one transaction per changeset | `handleBatch`, `executeAtomicGroup`, `executeGroup`, `executeWithHandler` | a changeset is applied whole or not at all; one response per request, in order; a request runs only after what it depends on; Content-IDs name existing entities; a batch is always answered and leaves no open transaction |
| Entity writes (`controllers/crud-controller-factory.ts`, `util/etag.ts`) | the write transaction of a request, the ETag it answers with | `create`, `replaceById`, `updateById`, `deleteById` | no conditional write is lost or overwrites a version it did not name; answer and ETag tell what was committed |
| Composition deletes (same file, `util/composition-*.ts`) | the plan of a cascade: path, counters, pages | `planCascadeForEntity`, `ensureNoRestrictChildren`, `executeCascadeNode` | no child survives its parent; a cascade that fails has deleted nothing; one that succeeds is complete |
| Tenant throttling (`providers/tenant-throttler.provider.ts`, `services/*tenant-throttle*`) | windows and slots per tenant in memory or in Redis; lease timers per instance | `check`, `release`, the three scripts, lease renewal | limits hold up to what is lost; no tenant is refused for slots nobody uses; timers and hashes go away |
| Transaction capability (`util/datasource-transactions.ts`) | `supportsTransactions`, `transactionCapabilityLocked` of an entity set | probe at boot, refresh at the first changeset | a capability is locked only when it is known |
| Change tracking (`list`, `util/delta-token*.ts`, `util/token-signing.ts`) | none on the server: skip and delta tokens carry it | `list` with `$skiptoken` or `$deltatoken`, `loadDeltaRemovals` | following the links reports every entity once and every later change and deletion |
| Collection queries (`list`, `count`) | none | splitting a filter, counting, selecting ids, finding, filtering and paging in memory | only matches are answered; all pages together are the matches; `$count` agrees |
| Navigation references and deep writes (`linkNavigationRef`, `persistDeepInsertGraph`, `applyDeepUpdateRelations`) | the foreign keys of a graph of entities, the transaction | link, unlink, deep insert, deep update | only the link changes; all of a payload or none of it; a composed child stays with its parent |
| Filters (`services/odata-query-parser.service.ts`, `util/postgres-*-pushdown.ts`) | none | text to tree, tree to where clause, post-filter and navigation filter, these to SQL | the text is read as it was meant; memory, where clause and SQL keep the same rows |
| `$apply` (`services/odata-apply-planner.service.ts`, `services/postgres-apply-executor.ts`) | none; tokens again | pipeline to plan, plan to stages or SQL, paging, delta of aggregates | the answer is what the pipeline means, whoever computes it; paging ends and repeats nothing |
| Multipart batches (`services/multipart-batch.parser.ts`, `util/buffer-queue.ts`) | buffered chunks, parser state | `parseMultipartBatch`, `consume`, `indexOf`, `byteAt` | the result does not depend on how the body is cut into chunks |
| Media streams (`services/odata-media-handler.ts`) | content, type, ETag, length | `$value` GET, PUT, DELETE | description and content belong together; a stream ends |
| Path rewriter, request context, errors, logging, configuration, booter, registry, decorators, metadata documents, singleton controller | start-up state or none | see [Not modelled](#not-modelled) | |

How they interact. A request passes the path rewriter and the request context, then
a generated controller, which first asks the throttler (`enforceTenantLimit`), then
runs hooks and repository calls inside `withWriteTransaction`, or inside the
transaction of a changeset that the batch controller put into the request's state.
The batch controller calls `httpHandler.handleRequest` for each sub-request with
mock request and response objects, waits for the response or for its own timer,
and shares with the handler only the transaction and the Content-ID maps. The
registry is written by the booter and read by everything else.

What is hard: handlers that nobody waits for any more go on running (batch
timeouts); each controller's check and write are separate statements (ETags,
cascades, links); compensation after a failure may fail itself (commit, rollback,
release); state is read before an await and used after it (plans, tokens, leases).
`PROJECT.json` lists each such hazard at its line, with the properties that would
catch it going wrong, or with a note where none does.

## Modules

| module | models | state | actions |
|---|---|---|---|
| `AtomicUnits` | the abstract promise of a batch about data | durable writes, the requests answered, acknowledged units, writes given up but not stopped, whether the batch is open | a unit is applied; a request is answered; the batch closes; a write that was given up ends |
| `BatchController` | `handleBatch` and below | loop positions (`phase`, `pos`, `cur`), `entries`, `depRes`, `executed`/`pending`, `responses`, Content-IDs, transactions and their effects, `handler` | one per branch of the loops, of opening and settling a group, and of a handler |
| `BatchController_proofs` | its theorems: changesets and their transactions; order, dependencies, Content-IDs; the refinement of `AtomicUnits` | | |
| `EntityWrites` | the four write handlers racing on one entity | the row: committed, uncommitted, locked by; per request the stage, snapshot, version, ETag, answer | one per await of a handler |
| `EntityWrites_proofs` | its theorems | | |
| `CompositionDelete` | deletes with composition rules, racing on trees | rows, uncommitted deletes, the stack of frames of the planner, the plan, counters | one per query and per decision between queries |
| `CompositionDelete_proofs` | its theorems | | |
| `TenantThrottle` | quota check, stores, leases | per request the stage of its check; per tenant the hash; per instance the timers | one per script, event, timer and fault |
| `TenantThrottle_proofs` | its theorems | | |
| `ChangeTracking` | lists with skip and delta tokens among writers | committed rows, writes that wait to commit, the request and its tokens, the client's view | the read of a page, the lookups of deletions, a refused token, the writes of others |
| `ChangeTracking_proofs` | its theorems | | |
| `RelatedWrites` | `$ref` links, deep inserts and updates racing with PATCH and PUT | rows with foreign key and version, per request its stage, walk, snapshot and uncommitted rows | begin, read, write, walk one step, commit, fail |
| `RelatedWrites_proofs` | its theorems | | |
| `CollectionQuery` | `list` and `count` with filters divided between datasource, SQL and memory | the rows, the request, ids selected, the answer | the statements of a request one by one, the client's next page, deletions |
| `CollectionQuery_proofs` | its theorems | | |
| `EntitySetRead` | GET of an entity set: composes `FilterPlans`, `CollectionQuery` and `ApplyPipeline` | theirs | theirs, and `List`, from the plan of a filter to the paths of `list` |
| `FilterGrammar` | the recursive descent parser of `$filter` and the passes over its tree | operators only | |
| `FilterPlans` | where clause, post-filters, SQL translators, evaluation in memory | text, tree, parts, plan, rows kept | parse, split, plan, one action per way to answer |
| `ApplyPlans` | reading, planning and executing a `$apply` pipeline | operators only | |
| `ApplyPipeline` | a `$apply` feed page by page, from SQL or from memory | the table, the plan, tokens, what was answered | one per way to answer, the client's next request, the writes of others |
| `BufferQueue` | the queue of chunks | operators on a queue value | |
| `MultipartParser` | the parser of a chunked payload | chunks that arrived, the stack of parsers, shared counts | a chunk, the end, the limit; one per state of a parser |
| `BatchRequest` | POST `$batch`: composes `MultipartParser` and `BatchController` | theirs | theirs, and `Execute` and `RefusePayload`, what `handleBatch` does with what the parser returned |
| `MultipartParser_proofs` | theorems about both: the queue is the bytes not consumed; decisions stand; limits hold | | |
| `MC…` | the instances for TLC | | |

**BatchController.** A payload gives each request a group, the requests it depends
on, a Content-ID reference (in the body or in the URL) and whether it writes; the
payloads are a constant, `Batches`, and each says whether the datasource has transactions
and what `maxChangesetOperations` is. `Validate` is `collectAtomicityGroups` and the checks
beside it, which may reject. Then `handleBatch` walks the list: `ShiftPending`
pushes the entries an earlier member of the group left in `executedGroups`,
`EnterGroup` and `EnterSingle` start the others, `OpenGroup` (with `OpenInvalid`,
`OpenRejected`, `OpenFails`) is the start of `executeAtomicGroup`. `executeGroup` is
`SkipDependent`, `UnknownContentId`, `InvalidRequest` or `StartHandler`, and then what
comes first: the handler's response, `HandlerTimeout` or `ResponseTooLarge`. A handler
writes, commits its own transaction if the group has none, and responds; its later
steps remain enabled when nobody waits for it any more. `RollbackGroup`,
`CommitGroup`, `AbortGroup` and the failing variants settle the group.
A success registers its Content-ID only if the response names an entity (`entity` of the payload):
`recordContentIdResult` takes a Location, an `@odata.id` or the key in the body, so a 204 registers
nothing. `enforceMaxResponsePayloadBytes` counts entries, not bytes. A commit that rejects is
taken as dropped by the datasource; a rollback that rejects leaves the transaction
`leaked`, and its effects are never visible. A changeset contains writes only, which
is what the code requires before it opens a transaction.

**AtomicUnits** is what a client may rely on: a unit is a changeset, or a write on its own. It
becomes durable whole, at most once, and before its requests and the batch are answered; a
success is given only for what is durable. One exception is stated in its state: a write on its own
that is answered with a failure because nobody waits for it any more (a timeout, the limit on
responses, a batch rejected meanwhile) is `abandoned` until its handler ends, and may still become
durable. A changeset never is. The documentation has no such exception; `batch_timeout` shows the
disagreement (see [Findings](#findings)).

**BatchRequest.** A multipart payload is read chunk by chunk and what `parseMultipartBatch`
returned is executed. The changesets of `AtomicUnits` are those the client meant; those that are
executed are the ones that were read, so a request read into the wrong changeset would break
the refinement. Payloads of `N` requests are executed; others end with the parser's answer, which
`CutsDoNotMatter` judges. A payload in JSON is there at once.

**EntityWrites.** One entity and its versions: the ETag property is a number no two
writes share. `BeginTransaction`, `BeginUnprotected`, `BeginRefused` are
`withWriteTransaction`; `RefuseUnconditional` the strict rule (428);
`ReplaceCheck` the comparison `replaceById` makes with a `findById` it did before;
`ForeignKeyCheck` the 409 for a composition foreign key; `RepresentationRead` the read
of a delete that returns what it deletes; `SendWrite` the statement and what the
datasource makes of it (`WriteMisses`, `WriteConflicts`, `WriteApplies`); a PATCH with an empty
payload sends no statement, unless it is conditional: then one that sets nothing, which finds the
entity and locks it but leaves its version (`NewVersion`); `ReadBack` the
read for the ETag of the answer; then `Respond`, `Commit`, `CommitFails`, `Rollback`. A
row is locked by the transaction that wrote it. At READ_COMMITTED a waiting write looks
at the new row; above it the snapshot counts, and a newer version is refused. An
unconditional delete that returns a representation may return an older version than the
one it deletes at READ_COMMITTED; only the conditional one promises more.

**CompositionDelete.** A scenario holds the schema (which relations of which entity
cascade, in order, or restrict), the links and the rows. The stack of frames is the
recursion of `planCascadeForEntity`: `CheckRestrict`, `ReadPage` and `PageRefused` are its
queries, `Descend` and `FinishNode` its recursion with the depth, entity and path
checks. `DeleteApplies`, `DeleteMisses`, `CrossesDatasource` and `Deadlocked` are
`executeCascadeNode`. Clients insert children at any time (`Insert`), and any step may
fail (`StepFails`). Assumed: READ_COMMITTED; pages cut in the order of ids, which are
not used again; the foreign key of a hasOne relation is unique (`AtMostOne`, at first and
in `Insert`), so the one row such a relation is asked for is all it has; children do not change
parents; finitely many rows at first; one flag stands for both `requireTransactionSupport`s; a cascade inside a
changeset's transaction is left to the batch model; the If-Match of the root is a 412
that may come when the request is guarded.

**TenantThrottle.** `BeginCheck`, `CountHit`, `TakeSlot`, `ShareLease`, `StartLease`,
`LeasesExhausted`, `BackOut` are `check`, with `CheckFails` and `BackOutFails` for a command that
fails, executed or not; `Release` and `ReleaseTenant` its undoing, called on
`Finish`, on `Close`, and by the catch of `enforceTenantLimit`. A state holds the age of
the window, hits, slots and the remaining life of the hash. `Tick` is half a window
(30 s with the default `windowMs`); a lease lives four ticks and is renewed every two, as
`getLeaseRefreshInterval` computes from the default 120 s. Assumed: a command under way is
answered within a tick; the clocks of the instances agree; a lease renewal reaches
Redis; a script runs at most once per call; Node emits no `finish` for a response that
is already closed, so a client gone before the listeners are registered takes its slot
along; the promises of the in-memory store settle before the next event of the process.
A lease outlives a window and the time to its next renewal (`LeaseAssumption`): 120 s against
60 s and 60 s by default. A `minTtlMs` below `windowMs`, or below the 5 s under which
`getLeaseRefreshInterval` does not go, is outside the model.

**ChangeTracking.** A row has a sort value, perhaps null, and a change stamp. `Serve` is one
read of `list`: keyset paging in the order of the client, with the delta stamp in front where
the code puts it, or the rows a delta token asks for, followed by one lookup per key of the
token's page (`loadDeltaRemovals`). `Write` takes a stamp and commits later, so a stamp may become
visible after a larger one: a row is `late` when it commits behind the stamp and key up to which
rows have committed, or before an empty first page was read whose token takes the time of
the answer. Null is a value of its own that sorts after the others, and never compares with
a token, as in SQL; only rows that pass the filter are the client's. The client follows every `nextLink`, keeps the `deltaLink` of the
first page and calls it later, as README.md describes. A token is its contents; signing is
what makes `SkipTokenRefused` and `TokenExpired` the only other outcomes. The properties compare
histories: rows that have stayed as they were, how often each was reported, writes that
committed behind a token (`late`).

**RelatedWrites.** Entities on three levels; a relation leads from a level to the next through the
foreign key of the lower row. A link reads the target, sets the key and replaces the row by
its id. A deep write has a stack of what is still to do and takes one statement per step
(`CreateNode`, `PatchNode`, and `GetOnly` and `PatchOnly` for the child of a hasOne), as
`persistDeepInsertGraph` and `applyDeepUpdateRelations` order them. An update without a value of
its own (`Sets`) is not sent, and the walk goes on below it. The nodes payloads are made
of are a constant, `Nodes`. Assumed: rows are locked
until the transaction that wrote them ends; at a snapshot level a row changed since is
refused; the foreign key of a hasOne relation is unique; ids of a sequence are not reused.
`StepFails` stands for hooks, validation, constraints and commits that fail.

**CollectionQuery.** A filter has four parts (what every datasource understands, a post-filter,
to-one paths, collections), each the set of rows that satisfy it. `Serve` goes through the
statements of `list`: the count, the selection of ids or the scan of at most `maxScan`
rows, the find by these ids, paging in memory. `Delete` may come between any two of them. What a part
means is left to `FilterPlans`, values and tokens to `ChangeTracking`.

**EntitySetRead** puts the three ways of reading together. A filter is parsed, split and planned
as in `FilterPlans`; `List` then hands its parts to `CollectionQuery`: for each the rows that
satisfy it and whether the SQL builders take it (`PostPart`, `NavPart`, `LambdaPart`).
`AnswersMeanTheFilter` says of these parts, and so of what the pages and counts are about, that
together they are the rows the written filter is true of. A part is one set of rows, so the
filters that are listed are such that memory and SQL agree on the rows of the table; where
they do not (for `owner/n lt 1 or n eq 1` and rows without an owner the inline count comes from
SQL and `$count` perhaps from memory) is a matter of `FilterPlans`. `$apply` takes no part in
this: its pipelines are `ApplyPipeline`.

**FilterGrammar** and **FilterPlans.** A filter is a sequence of tokens; the rules of the grammar
return a tree and the place of the next token, or a failure, in the order in which the code tries
them. `SplitLambdas` and `Plan` are the passes of the controller (`splitLambdaExpressions`,
`splitParsedExpression`, `buildWhere`), and the `Answer…` actions (with
`CountNavigationInSql` for `$count`) what it may then do: the memory (`evaluatePredicate`, `compareValues`) or one of the three translators to PostgreSQL, whose
result is a predicate with three truth values. `Means` says directly over a row what an
expression is about. Numbers are multiples of a quarter, so that rounding is exact; strings are
short sequences of letters in two cases; a date is a year and one of two parts of it.

**ApplyPlans** and **ApplyPipeline.** A pipeline is parsed, collected into stages and a final
part (`buildApplyExecutionPlan`), then answered from SQL (`AnswerBySql`, if the executor
accepts it), in memory (`AnswerInMemory`) or as a plain list. A page may come from SQL and the
next from memory, because any statement may fail. A where clause and HAVING compare as SQL does (`SqlHolds`): a comparison with null is not true.
Counts, sums and averages come from the driver as text, which shows in the keys of buckets
(`TextColumns`) and nowhere else. `Meaning` is a fold of the
transformations from left to right, where a group counts a row once for each choice of a
target of the relations it navigates. What the two do not agree on is excluded
by name and listed under [Findings](#findings).

**BufferQueue** and **MultipartParser.** The queue is a value: chunks, the offset in the first,
the remembered place of `byteAt`. The parsers at work are a stack of frames, the outer first; a
changeset is a part whose body another frame reads. The actions are the states of
`processBuffer`: looking for the first boundary, reading headers, waiting for a body, reading a
part. A chunk, the end of the stream and a payload that becomes too large come at any time a
stream may deliver them. Line breaks and dashes are bytes; a word that no operation looks into
is one byte. Bytes and such words are the constant `Word`; payloads are sequences of them, and
limits are natural numbers, 0 for none (`CasesAssumption`).

## Runs

| run | instance | distinct states | what it shows |
|---|---|---|---|
| `batch` | JSON: three requests, all splits into two changesets, all `dependsOn` on earlier requests and all Content-ID references, at most one of the first two reads, response limit 0 or 2; responses that name no entity; a smaller set without transactions and with `maxChangesetOperations` 2; hanging handlers. Multipart: 28 payloads, readable, malformed and at their limits, cut everywhere into three to five chunks (up to nine for the shortest), and three more that are executed | 1 117 177 | the cuts do not matter, the queue loses and repeats nothing; atomicity, order, dependencies, Content-IDs, no dangling transaction, refinement of `AtomicUnits`, every batch is answered |
| `batch_timeout` | the JSON payloads | violation | a handler answered with 504 commits |
| `multipart_split` | a payload of one request, cut everywhere | violation | a cut behind the closing boundary's name |
| `writes` | two requests of every kind, two earlier versions, three configurations | 466 175 | no lost update, truthful answers and ETags, everybody is answered |
| `cascade` | two deletes, seven scenarios of up to six entities, page size 2, `maxDepth` 2, `maxEntities` 5, with and without transactions | 405 411 | no orphans, complete or without effect, answered |
| `throttle` | three requests, seven services: in memory with crashes; Redis with two instances, a crash or a failing client; two tenants and one timer | 1 589 826 | a tenant is served no more at once than its limit but for requests that gave back what they did not hold; a window keeps the rate and lasts `windowMs`; no false refusals, timers and hashes go away |
| `throttle_limit` | three requests for one slot in Redis, no faults | violation | a refusal frees the slot of another request |
| `throttle_rolling` | four requests, two a minute, no faults | violation | more than the rate passes within `windowMs` |
| `tracking` | two or three rows, sort values 1, 2 or null, two stamps and two writers at a time, pages of one and two, four orders, delta on and off, one delta list with a filter | 643 799 | a feed reports each stable row once, misses only writes that commit behind the token, reports deletions of its page, catches up |
| `tracking_nextlink` | the same | violation | the nextLink of a delta-enabled list is refused |
| `related` | two or three requests on four parents, four children and four grandchildren, three kinds of transaction, collections and hasOne, composed or not, payloads that set something and payloads that only lead further | 569 553 | a payload is written whole or not at all, a composed child stays, a link changes only the link |
| `reads` | filters: about 2 000 expressions in two renderings, 19 garbled texts, seven rows with nulls and missing relations. Lists: four rows, chosen ones of these filters and three given by their rows, five ways to give `$skip` and `$top`, six settings, scans of at most three, two deletions. `$apply`: about a hundred pipelines over a table of four rows and variants with nulls, without related rows, or empty; pages of 1, 2, 3, 4 and 8; up to two changes by others | 286 598 | texts are read as meant, every way to answer keeps the rows meant; only matches, complete feeds, counts that agree; a `$apply` feed is the meaning, stable buckets once, gone ones reported, the feed ends |

Why the bounds are enough. Three requests are the least with a changeset of two and a
request before, between or after it, so every order of "depends on", "refers to" and
"settles" occurs; two groups let both groups fail differently. Two writers on a row are
the least that race, and the versions before them let an ETag be stale from the start;
the proofs lift both bounds. The cascade scenarios were chosen so that each branch of
the planner is taken: a page that is full, one that shifts because a row of it is
deleted or inserted, a hasOne, a limit exceeded by an insertion, a circle, a shared
child, a restricting relation and a foreign datasource. For the throttler three requests
are two that compete for one slot and one that shows that it was given back twice, and two
windows with a rate of one and a hit to spare in memory; a fourth, in `throttle_rolling`, fills two windows
of two. The ages stop counting one step after everything that depends on them has happened.
`MaxFaults` bounds failing commands.

Three rows give a feed with a page before and one after the page on which something happens; two
writers (`MaxWriters`) commit in either order of their stamps (`MaxClock`). Two requests are the
least that race on a link, and a third (where it is given) moves a row in between; three levels
are the least with a payload that nests, so that a child is both written and written below. Two
scan limits of three (`MaxScan`, `MaxLambdaScan`) under four rows make the limits bite. The
written filters are all leaves, their negations, and all pairs and some triples of one leaf of
each kind, because the split, the plan and the translators look at no more than a node and its
children; `MaxJoins` 2, `MaxLambdaDepth` 2 and `MaxDepth` 3 are each exceeded by one of them.
The pipelines are each transformation alone, those pairs that the planner treats differently,
and two and three in the order it accepts, with `MaxResult`, `MaxFanout` and `MaxScan` each
exceeded by one. Five chunks put cuts before, in and behind a boundary with one more on either
side; `CompactAfter` is 0 where the code has 64, so that the queue compacts at all.

Everything else is finite by itself: no state constraint cuts a run.

Each property of a passing run has a mutant in `PROJECT.json`: a plausible bug in one
mapped definition under which the same run finds the property violated. The definitions
marked `\* mutant` are their bodies and are used nowhere else.

## Fairness and deadlock

- `BatchController`: `WF(Controller)` because a continuation that can run does run, and
  `WF(HandlerTimeout)` because timers fire. No handler is obliged to take a step; so
  `EventuallyAnswered` says that the timeout alone is enough.
- `EntityWrites`: `WF(Handle(r))` because each promise of the datasource settles. That no
  handler waits for ever for the row lock is then a consequence.
- `CompositionDelete`: `WF(Progress(r))`, everything a handler does but failing, so that
  an answer never depends on a failure. A deadlock of two cascades is broken by the
  database, which is an action of its own.
- `TenantThrottle`: `WF(Tick)` only. Nothing makes a client finish, a timer tick with it.
- `ChangeTracking`: `WF(Serve)`: a client that has a link calls it and is answered. Nobody is
  obliged to write or to commit.
- `ApplyPipeline`, and `EntitySetRead` for it: `WF` of `Served` and `ReadOn`, by what they do to
  `phase`: a request is answered, by whichever way, and the client goes on while there is a link.
- `MultipartParser` has `WF(ParserNext)`, its stream delivers its chunks and its end; `BatchRequest` asks
  nothing of the network, and its liveness begins when a payload has been read.
- `RelatedWrites` and `FilterPlans` check safety only and assume no fairness.

`CHECK_DEADLOCK FALSE` stands in a configuration because the system stops once its
requests are answered; a handler stuck before that is what the liveness
properties (and, for the throttler, the invariants over ages) would show.

## Proofs

Every safety invariant and action property that the runs check of the eight parts below is a
theorem, except `CutsDoNotMatter`, and so is the refinement of `AtomicUnits`. Each proof module extends the module it is
about and goes the same way: a base invariant types the state and says where each request
stands; on top of it stands one invariant for each promise, which is inductive relative to the
base; each action has a lemma or a step of its own; the promise then follows from its
invariant, and the temporal step is one line. Each invariant was first checked by TLC on the
instance of the run. The only hypotheses are the assumptions of the module (`NAssumption`, …),
which TLC evaluates in each run; they are named where they say more than what a constant is.

**`BatchController_proofs`**, for every number of requests, groups and payloads:
`Invariance`, `TypeCorrect` (`TypeOK`), `ChangesetAtomicity` (`GroupAllOrNothing`),
`FailureRollsBack` (`FailedGroupLeavesNothing`), `TransactionsAreSettled`
(`NoDanglingTransaction`). Atomicity is not inductive: whether a commit takes the whole
changeset depends on where the loops stand. `PosInv` says that while a group runs `cur` is a
member of it, not before `pos`, and that all earlier groups are in `executed`; `TxInv` that a
transaction is open only for the group that runs; `MemberInv` that each member of a group
with an open transaction that has succeeded has its effect in it, and that what is durable
of a group is decided by the state of its transaction; `ProgressInv` that the members up
to `cur` have succeeded. At `CommitGroup` these give that every member's effect is in the
transaction. The typing of the responses needs that a contiguous group of n members
starting at `pos` is `pos..pos+n-1` (`GroupIsInterval`), proved by counting.

The second part of the module rests on the first: `OrderOfResponses` (`ResponsesInOrder`),
`DependenciesAreVisible` (`DependencyEffectVisible`), `ContentIdsExist`
(`ContentIdTargetExists`), `ImplementsAtomicUnits` (`AtomicUnitsSpec`). `OrderInv`: one
response for each request passed, and what an executed group still owes are its members from
`pos` on, its head the request the loop is at. `StartInv`: which handlers may have been
started at all. A request that depends on a member of another changeset may start although that
changeset was rolled back since; `DependencyEffectVisible` then asks that the responses already
tell its failure (`ToldFailed`). This follows from `AckInv`: of a changeset that was executed and not
committed some member is not answered with a success, and the loop has passed all of them. `SingleInv`: how far the write of a request outside groups has come.
`AckInv`: a success is given only for what is committed. `IdInv`: a registered Content-ID is
durable or in the transaction of the group that runs. For the refinement each action is shown
to apply one unit whole (a commit of a changeset, a write on its own), to answer a request, to close
the batch, to end an abandoned handler, or to stutter; what may be applied late is exactly
what was abandoned by name.

**`EntityWrites_proofs`**, for every number of requests, every mix of kinds and every
configuration: `Invariance`, `TypeCorrect`, `AnswersTellTheTruth` (`AnswerMatchesEffect`),
`EtagsAreOwn` (`EtagIsOwn`), `LostUpdatesExcluded` (`NoLostUpdate`), `DeletedIsShown`
(`DeletesWhatItShows`). `FreshInv`: versions are new, and what is committed is never the version
in work. `LockInv`: the holder of the row lock has written, has not published, and the row is
still the version its write was allowed to replace; this is what carries the comparison from the
statement to the commit. `PcInv`: what each stage of a handler knows about its transaction, its
answer and its effect. `CheckInv`: what a handler compared before it writes. `EtagInv`: an ETag
still to be sent is committed, or is the version its own transaction is about to commit.
`ShowInv`, proved on top of `IInv`: the ETag of a conditional delete that holds the lock is the
row it will remove. Lemmas that most steps leave the store alone (`QuietKeeps`,
`QuietElsewhere`) keep the case analysis short.

**`CompositionDelete_proofs`**, for every schema, instance, page size and limit: `TypeCorrect`,
`FailuresLeaveNothing` (`FailedCascadeLeavesNothing`), `SuccessesAreComplete`
(`CascadeComplete`), `NoOrphansLeft` (`NoOrphans`). `StoreInv`: an uncommitted delete is locked
by its one transaction, and ids do not come back. `PlaceInv` and `DeletedInv`: a request has
deleted exactly the nodes of its plan in front of `next`, each once. `PlanInv` and `FramesInv`
are about the planner: a relation that has been read to its end has each of its rows in the
plan, or the row came later, or the plan holds a row twice or one that is gone and will fail.
In the middle of a relation the reason that paging by offset loses nothing is a count: at least
as many rows of the relation as `skip` says have come into the plan and are still there
(`FrameInv`), so that the rows the next page passes over are rows that have come (`Ranks`).
Deletes of other requests shift the pages, but only by rows whose delete makes this plan fail.
Assumed beyond types: what `AtMostOne` says of hasOne relations, and that the first rows are
finitely many (`ScenariosAssumption`).

**`TenantThrottle_proofs`**, for every number of requests, tenants and instances and all quotas:
`TypeCorrect`, `LeasesAreReturned` (`LeasesReturned`), `RefusalsAreTrue` (`NoFalseRefusal`),
`LimitsAreKept` (`LimitKept`), `WindowsKeepTheirRate` (`WindowsKeepTheRate`). Each promise is a
comparison of a counter with a set of requests. `LeaseInv` bounds the count of a timer by its
users, `SlotInv` the slots of a hash by their keepers. `LimitInv` is the converse: the holders of
a slot are no more than the slots counted and the requests that gave back what they did
not hold (`HoldersInv`); it needs that a hash does not expire while a timer of it runs, which
takes the same count of leases (`LeaseholdersInv`) and that the hash outlives the next renewal
of each (`LifeInv`). `RateInv` says how many hits of which ages there may be while a window is
open or closed. Redis: a window begins with a hit and its hash outlives it. Memory: prune may
take a state out of the map between the hit and the slot, and the hit is then counted in a
window that is forgotten. Assumed beyond types: `SetsAssumption` (finitely many requests
and tenants) and `LeaseAssumption` (see above).

**`RelatedWrites_proofs`**, for every set of entities, payload and number of requests:
`TypeCorrect`, `ComposedChildrenStay` (`ComposedChildStays`), `LinksKeepTheRow`
(`LinksChangeOnlyTheLink`, an action property), `GraphsAreWholeOrNothing`
(`GraphWholeOrNothing`). The base is `StageInv`, `LocksInv` (no row is written by two open
transactions) and `UsedInv` (fresh ids). `ComposedInv` follows the foreign key through the
table, the snapshots and the uncommitted rows. `UncommittedInv`: nobody has a row of a
transaction that has not committed. `SnapshotInv`: a snapshot is the present state of every row
nobody has touched since, so a link that is not refused writes back what is there.
`GraphInv`: the nodes created and the nodes still to do are together the size of the payload.
The size is a function `Count` on sequences of nodes, one more than what is left when the first node
is replaced by its children; the theorem has it as a parameter with these two facts
(`Counting`, `Sized`) as hypotheses. For finite payloads there is such a function, by
recursion, which is what cannot be derived here; `PayloadsAreCounted` makes TLC compute it for
the payloads of the run.

**`CollectionQuery_proofs`**, for every table, every division of a filter, page size and limit:
`TypeCorrect`, `MatchesAreAnswered` (`OnlyMatchesAreAnswered`), `CountsAreRight` (`CountsAgree`),
`FeedsAreComplete` (`FeedIsComplete`). Sequences of rows are described by what they hold and by
being in order, never by how they were computed: an ordered sequence is determined by its set, and
one exists for each finite set because a row may be put at the number of rows before it. A
selection, a page and a window are then sets of rows. `MatchInv`: ids selected match.
`TotalInv`: the count is taken before the rows. For the feed, `ServerFeed` says of a client that
follows links that it has seen what it wants up to its token, the page in the making has the
next ones, and a link is given unless nothing is left; `ClientFeed` says of one that pages by
`$skip` and `$top` which positions it has seen.

**`ChangeTracking_proofs`**, for every table, order, page size and number of writers:
`TypeCorrect`, `StableRowsAreCovered` (`PagesCoverStableRows`), `OnlyLateIsMissed`
(`OnlyLateChangesAreMissed`), `DeletionsAreReported` (`DeletionsOfThePageAreReported`). The place
of a row is the vector of its values in the fields of the order. Places are strictly and
totally ordered (`PlacesAreOrdered`), a sorted sequence of every set of rows exists, and a
skip token is a place, so that `TokensLeadBehind` can relate the predicate
`buildSkipTokenConstraint` makes of it to the order: they are equal for the tokens that are
accepted, except for null paging upwards. `PagingInv`: a row that stays has been reported, or lies
behind the token; while a request is under way it is in the page or behind its last row.
`GhostInv`: a row of the token's page that is gone is still to be looked for, or reported.
`HorizonInv`: everything committed, read or in a token lies up to the horizon of stamps,
so that what commits behind it is found by every token. `TrackInv` is what
`OnlyLateChangesAreMissed` needs in the middle of a feed: each row is known as it is, or will be
found by the next page, by the delta token kept from the first page, or by the request in
progress.

**`MultipartParser_proofs`**, for every payload, every way to cut it, all limits and every
`CompactAfter`: `QueueIsTheRest` (`QueueHoldsTheRest`), `QueueImplementsSequence`,
`FirstBoundaryStands`, `SeparatorStands`, `NextBoundaryStands`, `EarlyRefusalIsRight`,
`StartCommutes`, `HeadersCommute`, `PartCommutes`, `DecisionsStand` and `ReadWithinLimits`.
A queue stands for a sequence of bytes (`Represents`): each byte of each chunk stands in the sequence where the chunk begins, counted from the head, and the cached place is
the one a walk from the head would find. Where chunks begin is the recursive function `Starts`.
The module shows that such a function exists and is increasing, both by least counterexample, as
no induction is at hand. Each operation of the queue is then one lemma about the sequence;
`ConsumeDrops` and `CompactedKeeps` are the ones that need the cache to be forgotten. Together
they are `QueueImplementsSequence`. The invariant `IInv` says that the payload's queue stands
for the last bytes of what has arrived (`Unread`). It is inductive because changesets are parsed
by frames above the payload's own, which leave its queue alone (`StackPushed`,
`StackPopped`).

The theorems called `…Stands` say that the parser decides nothing too early: whatever chunk follows,
what it has found it would find again, in the same place, and what it has excluded stays
excluded. For a part boundary this needs room for the closing boundary's two dashes behind it, and
`multipart_split` shows what happens without them. `EarlyRefusalIsRight` says that `Headroom` is
large enough. The theorems called `…Commutes` add what is left to read: if a chunk arrives before or
after the first boundary, the headers or a part is read (`Ahead`), the two queues are again
apart by that chunk. `DecisionsStand` lifts them to the behaviours of `ParserSpec`: in every reachable
state the payload's own parser decides as it would with all bytes of the payload before it
(`DecidesAsOnTheWhole`). These are the steps by which `CutsDoNotMatter` holds. They leave out
the two bytes behind a boundary, closing dashes or a line break: a line break that comes later is
read as the beginning of the headers.

`LInv` (of `LimitsHold`) is a second invariant: the frames hold, each its own, as many requests as
`counts.operations` says (`Held`, a running total over the stack), and no limit is exceeded; in the
middle of a changeset the payload's own frame has only a part of them. Hence `ReadWithinLimits`:
a payload that is taken has arrived whole, gives all requests its parsers have read, and is
within the limits of bytes, operations and nesting it was called with.
Assumed beyond types: nothing; `CasesAssumption` is a type.

Model-checked only:
- every liveness property: the prover has no support for fairness and `ENABLED`;
- `ReadAsWritten`, `AnswersMeanTheFilter`, `FeedIsTheMeaning`, `StableBucketsReadOnce` and
  `GoneBucketsAreReported`: the grammar, the translators and the planners are written with
  RECURSIVE operators, as their sources are written with recursive functions; what such
  a definition computes for every input needs induction over data, which is out of the
  prover's reach for good;
- `CutsDoNotMatter`: what a payload means is given with it, for the payloads of the run; that every
  text is read as it means takes induction over its parts, and only the decisions are proved
  (`DecisionsStand`);
- the violations under [Findings](#findings), which are counterexamples.

The `TypeOK` of the modules without theorems documents their state.

## Findings

Each is a run in which TLC finds a property violated that the repository states.

1. `batch_timeout`: a sub-request outside a changeset that exceeds its timeout is answered 504, but its
   handler goes on and commits (controllers/batch.controller.ts:2392); README.md:1427 says that it is
   cancelled and its transaction rolled back. In a changeset the shared transaction is rolled back.
2. `multipart_split`: a chunk that ends between the closing boundary and its dashes makes the
   parser take it for the beginning of a part, and a well-formed payload is refused.
3. `throttle_limit`: a request that was refused releases a slot it never had
   (controllers/crud-controller-factory.ts:8130), so more requests are in flight than the "maximum"
   of types.ts:358, one for each refusal.
4. `throttle_rolling`: the limit called "rolling" in types.ts:356 counts in fixed windows, and
   up to 2 * rate - 1 requests pass within one `windowMs`.
5. `tracking_nextlink`: with delta links enabled the server answers 400 to the `nextLink` it gave,
   unless `$orderby` already begins with the change stamp descending: the token is signed
   for the order with the stamp in front and verified for the order of the client.

### Seen while modelling, without a run

Noticed in the code that the modules translate. The properties are stated so that they hold beside
these, and the definitions that leave one of them out say so.

Batches:
- members of a changeset that ran before the one that failed keep their 2xx status although the
  changeset is rolled back (controllers/batch.controller.ts:1487; README.md:765, 2360);
- entries of a changeset that failed as a whole are not counted against `maxResponsePayloadBytes`
  (434; README.md:1429);
- requests that depend on a changeset run although it was rolled back (1543);
- the 413 of `enforceJsonPayloadSize` is caught by its own `try` (536).

Multipart parsing:
- the boundary of a nested payload is lower-cased (multipart-batch.parser.ts:353), so a changeset with
  upper-case letters in its boundary is refused;
- two adjacent changesets with the same boundary and no Content-ID become one atomicity group (360);
- a part without header lines loses its body (435); the separator of headers is found differently by the
  parser (491) and by the queue; the state that reads headers has no limit but the payload's.

Entity writes and relations:
- two conditional PUTs that name the same version both succeed: `replaceById` compares, then
  replaces by id alone (crud-controller-factory.ts:11811; docs/client-integration.md:163); PATCH
  and DELETE are not affected;
- one malformed composite ETag among good ones makes a PATCH a 412 while a PUT accepts it;
  README.md:442 says that a missing If-Match is answered 428, README.md:1118 that it is
  optional, and the code demands it in strict mode only;
- a child reached by two cascading relations is planned twice, so the delete of its parent
  always ends in 404 (13123; README.md:2174);
- a keyed child of another parent is silently not patched by a deep update (2310;
  README.md:2018), but its own children are then written (2313-2337).

Lists and change tracking:
- a page of ids of which a row is deleted before it is read ends the feed without a `nextLink`,
  and a page selected by a lambda in memory ends without one too (9938; README.md:1417);
- `$top=0` returns a full page; `requireTopWhenPostFilter` never bites (10051-10074;
  README.md:1598); the clamp of `maxSkip` outside strict mode makes a client read the same page
  again; with a post-filter `$skip` is applied before the filter (README.md:1419);
- `$count` refuses filters that a list accepts, with navigation and post-filters mixed, and
  scans in strict mode;
- paging upwards loses rows whose sort value is null (7441; README.md:1796); deletions are
  reported only for the keys of the token's page (README.md:1821); `$count=true` with a
  `$skiptoken` counts the rest (10138); README.md:1802 says 400 for an expired delta token,
  README.md:1819 and the code 410.

Filters:
- `ceiling(f) eq` becomes a where clause with an operator `le` that no datasource knows, and
  `gt`, `le` and `lt` other sets than they mean; in memory the functions of a number ignore
  their comparator; a `not` over one is not inverted;
- `indexof(f, s) ge N` with N above 0 is taken for contains, and `not (indexof(f, s) gt -1)` is
  refused (README.md:600); a `substring` with a length other than the literal's compares a
  prefix;
- rows with null are kept differently by SQL and by the memory; undefined and null compare as
  unequal;
- fields named like a function cannot be compared outside a lambda; a bare word on the right is
  a string; translated lambdas decline in-lists; a list counts distinct joins where `$count`
  sums them; a `not` of a `not` that De Morgan's laws leave behind is refused (README.md:1276);
  `buildPostgresNavigationFilterIdQuery` has no caller.

`$apply`:
- two `groupby` in one pipeline are refused with 400 (odata-query-parser.service.ts:2463;
  README.md:1880, 1885); the stages run in a fixed order whatever the pipeline says;
- a final `orderby` is the whole order of paging, so ties at the cut are lost; a page from SQL
  without `orderby` has LIMIT without ORDER BY; the LIMIT of a page replaces a final `top` and
  its OFFSET is applied again on each page (README.md:1887); without aggregation `orderby` is
  undone and `top` applied per page;
- a filter that leads a branch of `concat` is never applied when a where clause could express
  it; earlier branches are repeated on each page;
- the memory counts null as 0 and groups no rows into no row, SQL into one; aggregates over
  relations are never translated (README.md:1888); a HAVING on an alias fails in PostgreSQL;
- the delta of an aggregate reports buckets that did not change or lie on another page as
  removed (README.md:1830), and its token never advances; groups by a path give a token that
  ends in 500, a null in a descending order a `nextLink` that ends in 400; `$skip` and
  `$orderby` beside `$apply` are ignored.

## Not modelled

Listed with reasons in `PROJECT.json`. In short: generation of text (CSDL, service document,
OpenAPI, the wording of SQL statements) has no state; decorators, types and constants are
declarations; logging and telemetry are output; errors and request context are maps per request;
configuration checks restrict the constants; boot runs once, before anything else. Within the
modelled parts these are left out: spelling of Content-ID URLs and alias forms, headers and
redirects of sub-requests, bytes of serialised responses; payload coercion and hooks other than
as steps that may fail; validation of the composition configuration; the encoding and signatures
of tokens; the lexical level of `$filter`; `$select`, `$expand` and `$search`; the MySQL
executor of `$apply`; header lines inside a part.

## Plan

Modules still worth writing, in this order:

1. `TransactionCapability`: the probe, the refresh at the first changeset and the lock of its
   result. An abstract "known" capability, refined by what the entity set records; the run has
   a datasource whose begin fails for a while.
2. Content-ID ETags: `contentIdEtags` added to `BatchController` (a stale ETag after a
   changeset).
3. `MediaStream`: content and its description, streams that fail, are too large or close early.
4. The MySQL executor of `$apply` beside the one of PostgreSQL in `ApplyPipeline`.

Theorems to come with these modules: a recorded capability is a known one, and content and its
description belong together. What stays with TLC is listed at the end of [Proofs](#proofs).
