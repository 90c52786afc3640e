---------------------------- MODULE ApplyPipeline ----------------------------
(***************************************************************************)
(* GET of an entity set with $apply, page after page: list of the CRUD     *)
(* controller, the executor of services/postgres-apply-executor.ts that    *)
(* may answer a page from SQL, and the fallback in memory.  The executor   *)
(* declines what it cannot translate and any statement of it may fail, so  *)
(* one feed can have pages of both.  Other requests change the rows        *)
(* between two pages, and a client may come back with the delta link.      *)
(*                                                                         *)
(* ApplyPlans reads the pipeline, plans it and carries it out in memory.   *)
(***************************************************************************)
EXTENDS ApplyPlans

CONSTANTS
    Cases,      \* [pipeline, size, strict, sql, delta, table, changes]: a request,
                \* the page size, strict mode, whether an executor is set up, delta
                \* links, the rows there are and how many changes others make
    Spare,      \* a row other requests may add
    NewValues,  \* what they set a field to: [field, value]
    MaxScan,    \* maxPostFilterScanRows
    MaxPages    \* as many pages the histories follow; no feed has more

VARIABLES
    case,       \* one of Cases
    plan,       \* the plan, made on every request from the same pipeline
    table,      \* the rows there are, in the order of their keys
    clock,      \* the change stamp given last
    token,      \* the $skiptoken of the request: values, or <<>>
    deltaToken, \* the $deltatoken of the request, or NoDelta
    phase,      \* asked, answered, done, refused
    link,       \* the $skiptoken of the last answer's next link, or <<>>
    deltaLink,  \* the $deltatoken of its delta link
    \* histories, read by properties only
    seen,       \* the rows answered since the feed began
    removed,    \* the buckets reported as removed since then
    pages,      \* the pages answered since then
    bySql,      \* whether one of them came from SQL
    writes,     \* the changes made so far
    meaning,    \* what the pipeline says of the rows there are
    kept,       \* the rows that were part of the result all the time since then
    known       \* the buckets of the feed the delta link came with

request == <<case, plan, token, deltaToken, seen, removed, pages, bySql, known>>
vars == <<table, clock, phase, link, deltaLink, writes, meaning, kept, request>>

NoDelta == [last |-> NotGiven, buckets |-> {}]

-----------------------------------------------------------------------------
(* What the request is answered from, and in which order it is paged.      *)

RECURSIVE FinalStages(_)
\* findFinalPlanStage: the last stage of the plan, or of its first branch that has
\* one.  A sequence of at most one.
FinalStages(p) ==
  IF p.stages # <<>> THEN <<Last(p.stages)>>
  ELSE LET found == SelectSeq([k \in DOMAIN p.concat |-> FinalStages(p.concat[k])],
                              LAMBDA s : s # <<>>)
       IN  IF found = <<>> THEN <<>> ELSE found[1]

Ascending(field) == [field |-> field, desc |-> FALSE]

\* buildApplyOrderDescriptors: the order of the final stage alone, and without one
\* its keys and its aggregates; the key when nothing is aggregated.
DescriptorsOf(stages) ==
  LET Of(stage) ==
        IF stage.order # <<>> THEN stage.order
        ELSE [i \in DOMAIN stage.groupBy |-> Ascending(stage.groupBy[i])]
             \o [k \in DOMAIN stage.aggregates |-> Ascending(stage.aggregates[k].alias)]
  IN  IF stages = <<>> THEN <<Ascending("id")>> ELSE Of(stages[1])

Aggregated == plan.final # <<>>
FinalStage == plan.final[1]
Descriptors == plan.descriptors

\* The page is no larger than the top() of the final stage.
PageSize ==
  IF Aggregated /\ FinalStage.top # NotGiven /\ FinalStage.top < case.size THEN FinalStage.top
  ELSE case.size

\* A path is followed from property to property, so the column of an aggregated
\* row that is named by a path is not found.
extractFieldValue(row, field) == IF field \in Paths THEN Undefined ELSE Get(row, field)

TokenOf(row) == [i \in DOMAIN Descriptors |-> extractFieldValue(row, Descriptors[i].field)]

\* The i-th value of the token is the first a row differs in.
DiffersAt(row, i) == /\ TokenOf(row)[i] # token[i]
                     /\ \A k \in 1..(i - 1) : TokenOf(row)[k] = token[k]

Behind(row, i) ==
  LET order == compareValues(TokenOf(row)[i], token[i])
  IN  DiffersAt(row, i) /\ IF Descriptors[i].desc THEN order < 0 ELSE order > 0

AtOrAfterToken(row) == TokenOf(row) = token \/ \E i \in DOMAIN token : Behind(row, i)  \* mutant

\* compareRowAgainstToken.
AfterToken(row) == \E i \in DOMAIN token : Behind(row, i)

\* coerceTokenValue: a number is compared with the text of no value.
TokenUnfit(row) == \E i \in DOMAIN token : DiffersAt(row, i) /\ NoValue(token[i])

filterRowsAfterSkipToken(rows) == IF token = <<>> THEN rows ELSE SelectSeq(rows, AfterToken)

\* applyServerDrivenPaging; without a value for the token it fails.
Paged(rows) ==
  IF PageSize <= 0 \/ Len(rows) <= PageSize THEN [rows |-> rows, link |-> <<>>, fails |-> FALSE]
  ELSE [rows |-> SubSeq(rows, 1, PageSize), link |-> TokenOf(rows[PageSize]),
        fails |-> Undefined \in ToSet(TokenOf(rows[PageSize]))]

RECURSIVE SqlHolds(_, _)
\* In SQL a comparison with null is not true, whichever it is.
SqlHolds(e, row) ==
  CASE e.op = "cmp" -> ~NoValue(Get(row, e.field)) /\ Holds(e, row)
    [] e.op = "and" -> \A i \in DOMAIN e.parts : SqlHolds(e.parts[i], row)
    [] e.op = "or"  -> \E i \in DOMAIN e.parts : SqlHolds(e.parts[i], row)

\* The rows of the entity set the request reads: the where clause of the plan, and
\* with a delta token those changed since.
Found == SelectSeq(table, LAMBDA row :
           /\ \A i \in DOMAIN plan.where : SqlHolds(plan.where[i], row)
           /\ row.fields.stamp > deltaToken.last)

-----------------------------------------------------------------------------
(* What is refused before anything is read.                                *)

RefusedWith(c, p) == \/ ~Readable(c.pipeline)
                     \/ ~DerivesSpec(c.pipeline)
                     \/ ~p.ok
                     \/ ~ValidFields(p, Fields \cup Paths)
Refused == plan.refused

-----------------------------------------------------------------------------
(* The page from SQL.                                                      *)

RECURSIVE HavingTranslates(_)
HavingTranslates(e) == IF e.op = "cmp" THEN e.comparator \notin {"gte", "lte"}
                       ELSE \A i \in DOMAIN e.parts : HavingTranslates(e.parts[i])

\* tryExecuteApplyPushdown and execute: what neither of them declines.  The
\* aggregate of a stage has no name yet in its HAVING, where the server fails.
Translates ==
  /\ case.sql /\ Aggregated
  /\ plan.stages # <<>> /\ plan.concat = <<>> /\ plan.pre = <<>>
  /\ \A stage \in ToSet(plan.stages) :
       /\ StagePaths(stage) \cap Paths = {}
       /\ \A a \in ToSet(stage.aggregates) : a.kind # "computed"
       /\ \A e \in ToSet(stage.filters) : /\ HavingTranslates(e)
                                          /\ FieldsOf(e) \subseteq ToSet(stage.groupBy)
  /\ ~\E i \in DOMAIN token : NoValue(token[i])

\* The driver hands counts, sums and averages over as text.  No row of a page from SQL
\* is compared in memory, and every value of a token is text, read as a number where
\* the row has one; so such a text counts for its number but in the key of a bucket,
\* where TextColumns marks it.
SqlAggregate(a, members) ==
  LET given == {row \in members : ~NoValue(Get(row, a.field))}
      total == MapThenSumSet(LAMBDA row : Get(row, a.field), given)
      values == {Get(row, a.field) : row \in given}
  IN  CASE a.operator = "count" -> Cardinality(IF a.kind = "rows" THEN members ELSE given)
        [] a.operator = "countdistinct" -> Cardinality(values)
        [] OTHER -> IF given = {} THEN Null
                    ELSE CASE a.operator = "sum" -> total
                           [] a.operator = "average" -> total \div Cardinality(given)
                           [] a.operator = "min" -> Min(values)
                           [] a.operator = "max" -> Max(values)

\* SELECT ... GROUP BY ... HAVING of a stage; its rows differ in their keys.
StageRows(rows, stage) ==
  LET KeyOf(row) == [f \in ToSet(stage.groupBy) |-> Get(row, f)]
      keys == IF stage.groupBy = <<>> THEN {KeyOf(Derived(<<>>))} ELSE {KeyOf(row) : row \in rows}
      aliased(alias) == CHOOSE a \in ToSet(stage.aggregates) : a.alias = alias
      RowOf(key) == LET members == {row \in rows : KeyOf(row) = key} IN
                  Derived(key @@ [alias \in {a.alias : a \in ToSet(stage.aggregates)} |->
                                    SqlAggregate(aliased(alias), members)])
  IN  {row \in {RowOf(key) : key \in keys} : \A e \in ToSet(stage.filters) : SqlHolds(e, row)}

\* The orders a statement may return rows in.
Arrangements(rows, items) ==
  {s \in SetToSeqs(rows) : \A i, k \in DOMAIN s : i < k => ~Before(items, s[k], s[i])}

\* The rows a stage that is not the last one may leave to the next.
StageResults(rows, stage) ==
  LET all == StageRows(rows, stage) IN
  IF stage.skip = NotGiven /\ stage.top = NotGiven THEN {all}
  ELSE {ToSet(sliceResults(s, stage.skip, stage.top)) : s \in Arrangements(all, stage.order)}

PageLimit == IF PageSize <= 0 THEN FinalStage.top ELSE PageSize   \* mutant

\* The LIMIT of the page takes the place of the one of the final stage; the OFFSET
\* of the stage stays on every page.
FinalLimit == IF PageSize <= 0 THEN FinalStage.top
              ELSE IF FinalStage.top # NotGiven /\ FinalStage.top < PageSize + 1 THEN FinalStage.top
              ELSE PageSize + 1

\* buildSkipTokenPredicate: a comparison with no value is not true.
SqlAfterToken(row) ==
  token = <<>> \/ \E i \in DOMAIN token : Behind(row, i) /\ ~NoValue(TokenOf(row)[i])

SqlOutcomes ==
  LET Through(worlds, stage) == UNION {StageResults(rows, stage) : rows \in worlds}
      before == FoldLeft(Through, {ToSet(Found)}, Front(plan.stages))
      Final(rows) == {row \in StageRows(rows, FinalStage) : SqlAfterToken(row)}
  IN  UNION {{sliceResults(s, FinalStage.skip, FinalLimit) : s \in Arrangements(Final(rows), FinalStage.order)}
             : rows \in before}

-----------------------------------------------------------------------------
(* What the pipeline says: its transformations one after the other.  A row *)
(* and a choice of one target of every relation the transformation         *)
(* navigates is a member of a group, as in the LEFT JOINs of the README;   *)
(* aggregates are over the members that have a value.                      *)

RelationsOf(paths) == {Navigation[p].relation : p \in paths \cap Paths}

Members(rows, paths) ==
  LET Targets(i, r) == LET n == IF r \in DOMAIN rows[i].related THEN Len(rows[i].related[r]) ELSE 0
                       IN  IF n = 0 THEN {0} ELSE 1..n
  IN  UNION {{<<i, choice>> : choice \in
               {c \in [RelationsOf(paths) -> 0..MaxFanout] :
                  \A r \in RelationsOf(paths) : c[r] \in Targets(i, r)}} : i \in DOMAIN rows}

ValueAt(rows, member, path) ==
  IF path \notin Paths THEN Get(rows[member[1]], path)
  ELSE LET at == member[2][Navigation[path].relation] IN
       IF at = 0 THEN Undefined
       ELSE rows[member[1]].related[Navigation[path].relation][at][Navigation[path].property]

RECURSIVE Computed(_, _)
\* The operand of an aggregate as a number, from its tokens.
Computed(tokens, values) ==
  LET level(ops) == SelectLastInSeq([i \in DOMAIN tokens |->
                      <<tokens[i], Cardinality({k \in 1..i : tokens[k] = "("})
                                   - Cardinality({k \in 1..i : tokens[k] = ")"})>>],
                      LAMBDA pair : pair[1] \in ops /\ pair[2] = 0)
      split == IF level({"add", "sub"}) > 0 THEN level({"add", "sub"}) ELSE level({"mul", "div", "mod"})
      left  == Computed(SubSeq(tokens, 1, split - 1), values)
      right == Computed(SubSeq(tokens, split + 1, Len(tokens)), values)
  IN  IF Len(tokens) = 1
      THEN IF tokens[1] \in DOMAIN Numbers THEN Numbers[tokens[1]] ELSE values[tokens[1]]
      ELSE IF split = 0 THEN Computed(SubSeq(tokens, 2, Len(tokens) - 1), values)
      ELSE CASE tokens[split] = "add" -> left + right
             [] tokens[split] = "sub" -> left - right
             [] tokens[split] = "mul" -> left * right
             [] tokens[split] = "div" -> left \div right
             [] tokens[split] = "mod" -> left % right

\* The properties and paths an operand names.
Named(a) == ToSet(a.operand) \ ({"$count", "add", "sub", "mul", "div", "mod", "(", ")"} \cup DOMAIN Numbers)

AggregateOf(rows, group, a) ==
  LET ValueIn(m) == IF a.operand = <<"$count">> THEN 0
                    ELSE IF ToSet(a.operand) = Named(a) THEN ValueAt(rows, m, a.operand[1])
                    ELSE Computed(a.operand, [p \in Named(a) |-> ValueAt(rows, m, p)])
      given == {m \in group : ~NoValue(ValueIn(m))}
      total == MapThenSumSet(ValueIn, given)
      values == {ValueIn(m) : m \in given}
  IN  CASE a.operator = "count" -> Cardinality(given)
        [] a.operator = "countdistinct" -> Cardinality(values)
        [] a.operator = "sum" -> total
        [] given = {} /\ a.operator \notin {"count", "countdistinct", "sum"} -> Null
        [] a.operator \in {"average", "avg"} /\ given # {} -> total \div Cardinality(given)
        [] a.operator = "min" /\ given # {} -> Min(values)
        [] a.operator = "max" /\ given # {} -> Max(values)

Grouped(rows, keys, aggregates) ==
  LET members == Members(rows, ToSet(keys) \cup
                   UNION {Named(a) : a \in ToSet(aggregates)})
      KeyOf(m) == [f \in ToSet(keys) |-> ValueAt(rows, m, f)]
      Of(key) == {m \in members : KeyOf(m) = key}
      aliased(alias) == CHOOSE a \in ToSet(aggregates) : a.alias = alias
  IN  SetToSeq({Derived(key @@ [alias \in {a.alias : a \in ToSet(aggregates)} |->
                                  AggregateOf(rows, Of(key), aliased(alias))])
                : key \in {KeyOf(m) : m \in members}})

RECURSIVE Met(_, _)
Met(e, row) ==
  LET found == IF e.field \in DOMAIN row.fields THEN Get(row, e.field) ELSE resolvePath(row, e.field)
  IN  CASE e.op = "cmp" -> Satisfies(e.comparator, compareValues(found, e.value))
        [] e.op = "and" -> \A i \in DOMAIN e.parts : Met(e.parts[i], row)
        [] e.op = "or"  -> \E i \in DOMAIN e.parts : Met(e.parts[i], row)

RECURSIVE Meaning(_, _)
Meaning(pipeline, rows) ==
  LET Step(input, t) ==
        CASE t.type = "filter"  -> SelectSeq(input, LAMBDA row : Met(t.expr, row))
          [] t.type = "groupby" -> Grouped(input, t.keys, t.aggregates)
          [] t.type = "aggregate" -> Grouped(input, <<>>, t.aggregates)
          [] t.type = "orderby" -> SortSeq(input, LAMBDA r, q : Before(t.items, r, q))
          [] t.type = "skip"    -> SubSeq(input, t.count + 1, Len(input))
          [] t.type = "top"     -> SubSeq(input, 1, Min({t.count, Len(input)}))
          [] t.type = "concat"  -> FlattenSeq([k \in DOMAIN t.pipelines |-> Meaning(t.pipelines[k], input)])
  IN  FoldLeft(Step, rows, pipeline)

\* The transformations of a pipeline in the order the plan carries them out.
RECURSIVE Canonical(_)
Canonical(pipeline) ==
  LET rank == [filter |-> 1, orderby |-> 2, skip |-> 3, top |-> 4, concat |-> 5,
               groupby |-> 0, aggregate |-> 0]
      first == SelectInSeq(pipeline, IsAggregation)
  IN  /\ \A i \in 1..(first - 1) : pipeline[i].type = "filter"
      /\ \A i, k \in DOMAIN pipeline :
           i < k /\ (\A j \in (i + 1)..k : ~IsAggregation(pipeline[j])) =>
             \/ rank[pipeline[i].type] < rank[pipeline[k].type]
             \/ pipeline[i].type = "filter" /\ pipeline[k].type = "filter"
      /\ \A i \in DOMAIN pipeline : pipeline[i].type = "concat" =>
           /\ i = Len(pipeline)
           /\ \A b \in ToSet(pipeline[i].pipelines) :
                Canonical(b) /\ ~(b[1].type = "filter" /\ InWhere(b[1].expr))

Total(items, columns) == ToSet(columns) \subseteq OrderedBy(items)

\* A cut is defined when no two rows are alike in the order it is made in.
RECURSIVE CutsDefined(_, _)
CutsDefined(p, columns) ==
  /\ \A stage \in ToSet(p.stages) :
       (stage.skip # NotGiven \/ stage.top # NotGiven) => Total(stage.order, stage.groupBy)
  /\ (p.skip # NotGiven \/ p.top # NotGiven) =>
       p.stages = <<>> /\ p.concat = <<>> /\ Total(p.order, columns)
  /\ \A b \in ToSet(p.concat) : CutsDefined(b, columns)

\* A filter behind a grouping by a path does not find the column of that name.
RECURSIVE FiltersFindColumns(_)
FiltersFindColumns(p) ==
  /\ \A stage \in ToSet(p.stages), e \in UNION {ToSet(s.filters) : s \in ToSet(p.stages)} :
       FieldsOf(e) \cap Paths = {}
  /\ \A b \in ToSet(p.concat) : FiltersFindColumns(b)

\* SQL leaves nulls out of an aggregate, the code in memory takes them for 0.
NoNulls == \A row \in ToSet(table) : \A f \in DOMAIN row.fields : row.fields[f] # Null

\* A count and a computed operand take a relation without targets for a value.
RECURSIVE ValuesGiven(_)
ValuesGiven(p) ==
  /\ \A stage \in ToSet(p.stages), row \in ToSet(table) :
       \/ \A relation \in RelationsOf(StagePaths(stage)) :
            relation \notin DOMAIN row.related \/ row.related[relation] # <<>>
       \/ \A a \in ToSet(stage.aggregates) :
            a.kind = "rows" \/ (a.kind = "field" /\ a.operator \notin {"count", "countdistinct"})
  /\ \A b \in ToSet(p.concat) : ValuesGiven(b)

MeantWith(c, p) == /\ ~RefusedWith(c, p)
                   /\ Canonical(c.pipeline)
                   /\ CutsDefined(p, <<"id">>)
                   /\ FiltersFindColumns(p)

\* Whether the rows can be held to what the pipeline says of them.
Meant == plan.meant /\ ValuesGiven(plan) /\ NoNulls

-----------------------------------------------------------------------------
(* The requests.                                                           *)

\* The plan with what list derives from it.
Planned(c) ==
  LET With(p, final) == [final |-> final, descriptors |-> DescriptorsOf(final),
                         refused |-> RefusedWith(c, p), meant |-> MeantWith(c, p)] @@ p
      From(p) == With(p, FinalStages(p))
  IN  From(buildApplyExecutionPlan(c.pipeline, c.strict, FALSE))

Init ==
  /\ case \in Cases
  /\ plan = Planned(case)
  /\ table = case.table
  /\ clock = 1 /\ writes = 0
  /\ token = <<>> /\ deltaToken = NoDelta /\ deltaLink = NoDelta
  /\ phase = "asked" /\ link = <<>>
  /\ seen = <<>> /\ removed = {} /\ pages = 0 /\ bySql = FALSE /\ known = {}
  /\ meaning = IF Meant THEN Meaning(case.pipeline, table) ELSE <<>>
  /\ kept = ToSet(meaning)

\* The columns that are text in a row from SQL: what an earlier stage has aggregated.
TextColumns(sql) ==
  {a.alias : a \in {b \in UNION {ToSet(stage.aggregates) : stage \in ToSet(plan.stages)} :
                     sql /\ b.operator \notin {"min", "max"}}}

\* buildBucketState: the keys, with the form of their values.
BucketsOf(rows, sql) ==
  {[f \in ToSet(FinalStage.groupBy) |-> <<extractFieldValue(rows[i], f), f \in TextColumns(sql)>>]
     : i \in DOMAIN rows}

\* The keys a client sees, for the history of the feed.
KeysOf(rows) == {[f \in ToSet(FinalStage.groupBy) |-> Get(rows[i], f)] : i \in DOMAIN rows}

RemovedUnlessNothingFound(rows, sql) ==   \* mutant
  IF rows = <<>> THEN {} ELSE deltaToken.buckets \ BucketsOf(rows, sql)

\* buildRemovedBuckets.
RemovedBuckets(rows, sql) == deltaToken.buckets \ BucketsOf(rows, sql)

\* createDeltaTokenForRows: aggregated rows have no change stamp, so a token that
\* was given stays.
NextDeltaToken(rows, sql) ==
  CASE rows = <<>> -> [last |-> IF deltaToken = NoDelta THEN clock ELSE deltaToken.last, buckets |-> {}]
    [] rows # <<>> /\ deltaToken # NoDelta -> deltaToken
    [] OTHER -> [last |-> clock, buckets |-> BucketsOf(rows, sql)]

Fail == /\ phase' = "refused"
        /\ UNCHANGED <<table, clock, link, deltaLink, writes, meaning, kept, request>>

Answer(rows, next, sql) ==
  /\ phase' = "answered"
  /\ link' = next
  /\ deltaLink' = IF case.delta THEN NextDeltaToken(rows, sql) ELSE NoDelta
  /\ removed' = IF case.delta THEN removed \cup RemovedBuckets(rows, sql) ELSE removed
  /\ IF pages < MaxPages THEN seen' = seen \o rows /\ pages' = pages + 1
     ELSE UNCHANGED <<seen, pages>>
  /\ bySql' = (bySql \/ sql)
  /\ UNCHANGED <<case, plan, table, clock, token, deltaToken, writes, meaning, kept, known>>

Refuse == phase = "asked" /\ Refused /\ Fail

AnswerBySql ==
  /\ phase = "asked" /\ ~Refused /\ Translates
  /\ \E rows \in SqlOutcomes :
       LET size == Min({PageSize, Len(rows)}) IN
       IF PageSize <= 0 THEN Answer(rows, <<>>, TRUE)
       ELSE Answer(SubSeq(rows, 1, size), IF Len(rows) > PageSize THEN TokenOf(rows[size]) ELSE <<>>, TRUE)

MemoryPage ==
  LET Page(outcome, front, ordered) ==
        LET page == Paged(filterRowsAfterSkipToken(ordered)) IN
        [rows |-> FlattenSeq(front) \o page.rows, link |-> page.link,
         fails |-> \/ outcome.refused \/ TooMany(outcome.rows)
                   \/ \E row \in ToSet(ordered) : TokenUnfit(row)
                   \/ page.fails]
      Of(outcome) ==
        LET segments == IF outcome.segments = <<>> THEN <<outcome.rows>> ELSE outcome.segments
        IN  Page(outcome, Front(segments), orderResults(Last(segments), Descriptors))
  IN  Of(executeApplyPlanBranch(plan, Found))

\* planRequiresPostProcessing; without an aggregation there is no stage.
RequiresPostProcessing ==
  \/ plan.pre # <<>> \/ plan.filters # <<>> \/ plan.concat # <<>> \/ plan.order # <<>>
  \/ plan.skip # NotGiven \/ plan.top # NotGiven

\* A pipeline without an aggregation: paged by key as any collection, and carried
\* out on the rows from the token on.
PlainPage ==
  LET limit == IF RequiresPostProcessing THEN MaxScan ELSE case.size
      Page(page, refused) == [page EXCEPT !.fails = @ \/ refused]
      Of(outcome, fetched) ==
        Page(Paged(orderResults(outcome.rows, Descriptors)),
             outcome.refused \/ (RequiresPostProcessing /\ Len(fetched) > MaxScan))
      From(fetched) == Of(executeApplyPlanBranch(plan, fetched), fetched)
      Fetched(found) == From(SubSeq(found, 1, Min({limit + 1, Len(found)})))
  IN  Fetched(filterRowsAfterSkipToken(Found))

AnswerFrom(page) == IF page.fails THEN Fail ELSE Answer(page.rows, page.link, FALSE)

\* Also when an executor is set up: it may decline, and its statement may fail.
AnswerInMemory ==
  phase = "asked" /\ ~Refused /\ Aggregated /\ \E page \in {MemoryPage} : AnswerFrom(page)

AnswerPlain ==
  phase = "asked" /\ ~Refused /\ ~Aggregated /\ \E page \in {PlainPage} : AnswerFrom(page)

FollowNextLink ==
  /\ phase = "answered" /\ link # <<>>
  /\ phase' = "asked" /\ token' = link
  /\ UNCHANGED <<case, plan, table, clock, deltaToken, link, deltaLink, seen, removed, pages,
                 bySql, writes, meaning, kept, known>>

Finish == /\ phase = "answered" /\ link = <<>>
          /\ phase' = "done"
          /\ UNCHANGED <<table, clock, link, deltaLink, writes, meaning, kept, request>>

\* The client asks for the changes, once.
FollowDeltaLink ==
  /\ phase = "done" /\ case.delta /\ deltaToken = NoDelta
  /\ phase' = "asked" /\ token' = <<>> /\ deltaToken' = deltaLink
  /\ known' = IF pages = 1 THEN KeysOf(seen) ELSE {}
  /\ seen' = <<>> /\ removed' = {} /\ pages' = 0 /\ bySql' = FALSE
  /\ UNCHANGED <<case, plan, table, clock, link, deltaLink, writes, meaning, kept>>

Stamped(row) == [row EXCEPT !.fields.stamp = clock + 1]

Deletions == {RemoveAt(table, i) : i \in DOMAIN table}
Updates == {[table EXCEPT ![i] = Stamped([@ EXCEPT !.fields[v.field] = v.value])] :
              i \in DOMAIN table, v \in NewValues}
Additions == IF \E row \in ToSet(table) : row.fields.id = Spare.fields.id THEN {}
             ELSE {Append(table, Stamped(Spare))}

\* Another request deletes, updates or adds a row.
OthersWrite ==
  /\ phase # "refused" /\ writes < case.changes
  /\ table' \in Deletions \cup Updates \cup Additions
  /\ clock' = clock + 1 /\ writes' = writes + 1
  /\ UNCHANGED <<phase, link, deltaLink, request>>
  /\ meaning' = IF Meant' THEN Meaning(case.pipeline, table') ELSE <<>>
  /\ kept' = kept \cap ToSet(meaning')

Next == \/ Refuse \/ AnswerBySql \/ AnswerInMemory \/ AnswerPlain
        \/ FollowNextLink \/ Finish \/ FollowDeltaLink
        \/ OthersWrite

\* A request is answered, and the client reads on as long as there is a link: one
\* of the four answers is possible whenever something is asked, and what it is
\* does not matter.
Served == phase = "asked" /\ phase' \in {"answered", "refused"}
ReadOn == phase = "answered" /\ phase' \in {"asked", "done"}

Spec == Init /\ [][Next]_vars /\ WF_phase(Served) /\ WF_phase(ReadOn)

-----------------------------------------------------------------------------
(* Properties.                                                             *)

\* What a feed of several pages can be held to: its rows have a place in the order
\* it is paged in, which is the order they are cut in.
Pageable ==
  pages > 1 =>
    /\ plan.concat = <<>>
    /\ Aggregated => /\ FinalStage.order = <<>> \/ Total(FinalStage.order, FinalStage.groupBy)
                     /\ bySql => /\ FinalStage.order # <<>>
                                 /\ FinalStage.skip = NotGiven /\ FinalStage.top = NotGiven
    /\ ~Aggregated => plan.skip = NotGiven /\ plan.top = NotGiven

\* An aggregate() over no rows has no row in memory and one in SQL.
OverRows == bySql => \/ meaning # <<>>
                     \/ \A stage \in ToSet(plan.stages) : stage.groupBy # <<>>

Occurrences(rows, row) == Cardinality({i \in DOMAIN rows : rows[i] = row})

\* A feed read to its end while no row changes is what the pipeline says: the same
\* rows as often, and in its order when the pipeline fixes one.  Pages from SQL and
\* from memory, keyset tokens, HAVING, LIMIT and OFFSET have to agree with the
\* transformations carried out one after the other.
FeedIsTheMeaning ==
  phase = "done" /\ writes = 0 /\ deltaToken = NoDelta /\ Meant /\ Pageable /\ OverRows =>
    /\ \A row \in ToSet(seen) \cup ToSet(meaning) :
         Occurrences(seen, row) = Occurrences(meaning, row)
    /\ Aggregated /\ plan.concat = <<>> /\ FinalStage.order # <<>>
         /\ Total(FinalStage.order, FinalStage.groupBy) => seen = meaning

\* Whatever other requests change between the pages, a row that is part of the
\* result all the time is read exactly once: the token is a place in the order and
\* not an offset.
StableBucketsReadOnce ==
  phase = "done" /\ deltaToken = NoDelta /\ Meant /\ Pageable /\ OverRows
    /\ Aggregated /\ plan.concat = <<>> /\ FinalStage.skip = NotGiven /\ FinalStage.top = NotGiven =>
    \A row \in kept : Occurrences(seen, row) = 1

\* A client that read a feed in one page and comes back with its delta link is told
\* of every bucket it has read that no longer exists: also when no row has changed
\* but rows were deleted.
GoneBucketsAreReported ==
  [][phase = "asked" /\ phase' = "answered" /\ deltaToken # NoDelta /\ Meant
       /\ plan.concat = <<>> /\ ToSet(FinalStage.groupBy) \cap Paths = {}
       /\ (\A stage \in ToSet(plan.stages) :
             stage.filters = <<>> /\ stage.skip = NotGiven /\ stage.top = NotGiven) =>
       known \ KeysOf(meaning) \subseteq {[f \in DOMAIN key |-> key[f][1]] : key \in removed'}]_vars

\* A client that follows the next links comes to the end of the feed, or to a
\* refusal: no token leads to the page it came from.
FeedEnds == phase = "asked" ~> phase \in {"done", "refused"}

=============================================================================
