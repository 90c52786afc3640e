----------------------------- MODULE ApplyPlans -----------------------------
(***************************************************************************)
(* The $apply option: how a pipeline of transformations is read            *)
(* (services/odata-query-parser.service.ts), made into a plan              *)
(* (services/odata-apply-planner.service.ts) and carried out in memory     *)
(* (executeApplyPlanBranch of the CRUD controller).                        *)
(*                                                                         *)
(* A pipeline is a sequence of transformations, with the operand of an     *)
(* aggregate as a sequence of tokens, and the expression of filter() as a  *)
(* tree: FilterGrammar is about its text.  A row has fields and, when it   *)
(* is an entity, the targets of its relations; the row a stage makes has   *)
(* the fields it is grouped by and the aggregates.                         *)
(***************************************************************************)
EXTENDS Integers, Sequences, SequencesExt, FiniteSetsExt, TLC

CONSTANTS
    Null, Undefined,
    Fields,         \* properties of the entity
    Navigation,     \* path of a property of a related entity -> relation, property,
                    \* and whether the relation is to many
    Numbers,        \* the literals of operands -> their values
    MaxResult,      \* maxApplyResultSize
    MaxFanout       \* maxApplyNavigationFanout

NotGiven == -1
Paths == DOMAIN Navigation

NoValue(x) == x \in {Null, Undefined}
Get(row, field) == IF field \in DOMAIN row.fields THEN row.fields[field] ELSE Undefined

-----------------------------------------------------------------------------
(* Operands of aggregates.  A rule returns <<node, index of the next       *)
(* token>>; Failure is the exception of the code.                          *)

Bad == [type |-> "bad"]
Failure == <<Bad, 0>>
Failed(r) == r[2] = 0
At(ts, i) == IF i \in DOMAIN ts THEN ts[i] ELSE "end"

Binary(operator, left, right) ==
  [type |-> "binary", operator |-> operator, left |-> left, right |-> right]

RECURSIVE parseComputePrimary(_, _), parseComputeMulDiv(_, _), parseComputeAddSub(_, _), Operators(_, _, _)

parseComputePrimary(ts, i) ==
  LET inner == parseComputeAddSub(ts, i + 1) IN
  CASE At(ts, i) = "end" -> Failure
    [] At(ts, i) = "(" -> IF Failed(inner) \/ At(ts, inner[2]) # ")" THEN Failure
                          ELSE <<inner[1], inner[2] + 1>>
    [] At(ts, i) = "null" -> <<[type |-> "literal", value |-> Null], i + 1>>
    [] At(ts, i) \in DOMAIN Numbers -> <<[type |-> "literal", value |-> Numbers[ts[i]]], i + 1>>
    [] OTHER -> <<[type |-> "path", path |-> ts[i]], i + 1>>

\* The loop of a level: operands joined by its operators, from the left.
Operators(ts, left, level) ==
  LET rhs == IF level = "addSub" THEN parseComputeMulDiv(ts, left[2] + 1)
             ELSE parseComputePrimary(ts, left[2] + 1)
      here == IF level = "addSub" THEN {"add", "sub"} ELSE {"mul", "div", "mod"}
  IN  IF Failed(left) \/ At(ts, left[2]) \notin here THEN left
      ELSE IF Failed(rhs) THEN Failure
      ELSE Operators(ts, <<Binary(ts[left[2]], left[1], rhs[1]), rhs[2]>>, level)

parseComputeMulDiv(ts, i) == Operators(ts, parseComputePrimary(ts, i), "mulDiv")
parseComputeAddSub(ts, i) == Operators(ts, parseComputeMulDiv(ts, i), "addSub")

parseComputeExpressionTokens(ts) ==
  LET r == parseComputeAddSub(ts, 1) IN IF r[2] = Len(ts) + 1 THEN r[1] ELSE Bad

\* evaluateNumericBinary.  A quotient is a whole number in the instances.
evaluateNumericBinary(operator, a, b) ==
  CASE NoValue(a) \/ NoValue(b) -> Null
    [] operator = "add" -> a + b
    [] operator = "sub" -> a - b
    [] operator = "mul" -> a * b
    [] OTHER -> IF b = 0 THEN Null ELSE IF operator = "div" THEN a \div b ELSE a % b

RECURSIVE evaluateComputeNode(_, _)
\* values: what the row or its variant has at a path.
evaluateComputeNode(node, values) ==
  CASE node.type = "path" -> values[node.path]
    [] node.type = "literal" -> node.value
    [] OTHER -> evaluateNumericBinary(node.operator, evaluateComputeNode(node.left, values),
                                      evaluateComputeNode(node.right, values))

RECURSIVE PathsOf(_)
PathsOf(node) == CASE node.type = "path" -> {node.path}
                   [] node.type = "binary" -> PathsOf(node.left) \cup PathsOf(node.right)
                   [] OTHER -> {}

operatorMap == [sum |-> "sum", min |-> "min", max |-> "max", average |-> "average",
                avg |-> "average", count |-> "count", countdistinct |-> "countdistinct"]

\* $count and * count rows, a name is a field, anything else is computed.
parseAggregateExpression(a) ==
  LET single == Len(a.operand) = 1
      kind == CASE single /\ a.operand[1] \in {"$count", "*"} -> "rows"
                [] single /\ a.operand[1] \notin DOMAIN Numbers -> "field"
                [] OTHER -> "computed"
      node == IF kind = "rows" THEN Bad ELSE parseComputeExpressionTokens(a.operand)
      operator == IF a.operator \in DOMAIN operatorMap THEN operatorMap[a.operator] ELSE "bad"
  IN  [kind |-> IF \/ operator = "bad"
                   \/ kind = "rows" /\ operator # "count"
                   \/ kind = "computed" /\ node = Bad
                THEN "bad" ELSE kind,
       field |-> a.operand[1], node |-> node, operator |-> operator, alias |-> a.alias]

-----------------------------------------------------------------------------
(* Pipelines.                                                              *)

WithPaths(aggregate) == CASE aggregate.kind = "field" -> {aggregate.field}
                          [] aggregate.kind = "computed" -> PathsOf(aggregate.node)
                          [] OTHER -> {}

\* What each transformation needs to be read.
RECURSIVE Readable(_)
Readable(pipeline) ==
  /\ pipeline # <<>>
  /\ \A i \in DOMAIN pipeline :
       LET t == pipeline[i]
           Good(as) == as # <<>> /\ \A k \in DOMAIN as : parseAggregateExpression(as[k]).kind # "bad"
       IN CASE t.type \in {"filter", "orderby"} -> TRUE
            [] t.type = "groupby"   -> t.keys # <<>> /\ Good(t.aggregates)
            [] t.type = "aggregate" -> Good(t.aggregates)
            [] t.type \in {"skip", "top", "bottom"} -> t.count >= 0
            [] t.type = "concat"    -> /\ Len(t.pipelines) >= 2
                                       /\ \A k \in DOMAIN t.pipelines : Readable(t.pipelines[k])
            [] OTHER -> FALSE

IsAggregation(t) == t.type \in {"groupby", "aggregate"}

RECURSIVE pipelineContainsAggregation(_)
pipelineContainsAggregation(pipeline) ==
  \E i \in DOMAIN pipeline :
    \/ IsAggregation(pipeline[i])
    \/ /\ pipeline[i].type = "concat"
       /\ \E k \in DOMAIN pipeline[i].pipelines : pipelineContainsAggregation(pipeline[i].pipelines[k])

\* deriveAggregationSpecFromPipeline, for what it refuses: two groupby() in one
\* pipeline.  It ends at a concat() with an aggregation in a branch, and does not
\* look into the branches of one behind a grouping.
RECURSIVE DerivesSpec(_)
DerivesSpec(pipeline) ==
  LET looked(i) == /\ pipeline[i].type = "concat"
                   /\ \A k \in 1..(i - 1) : ~IsAggregation(pipeline[k])
      ends(i)   == looked(i) /\ pipelineContainsAggregation(<<pipeline[i]>>)
      reached   == {i \in DOMAIN pipeline : \A k \in 1..(i - 1) : ~ends(k)}
  IN  /\ Cardinality({i \in reached : pipeline[i].type = "groupby"}) <= 1
      /\ \A i \in reached : looked(i) =>
           \A k \in DOMAIN pipeline[i].pipelines : DerivesSpec(pipeline[i].pipelines[k])

-----------------------------------------------------------------------------
(* The plan.                                                            *)

Stage(keys, aggregates) ==
  [groupBy |-> keys,
   aggregates |-> [i \in DOMAIN aggregates |-> parseAggregateExpression(aggregates[i])],
   filters |-> <<>>, order |-> <<>>, top |-> NotGiven, skip |-> NotGiven]

\* open: the last stage takes what follows it, until a concat().
NoPlan == [where |-> <<>>, pre |-> <<>>, stages |-> <<>>, concat |-> <<>>, filters |-> <<>>,
           order |-> <<>>, top |-> NotGiven, skip |-> NotGiven, open |-> FALSE, ok |-> TRUE]

\* buildWhereCandidate: the datasource's where clause expresses the filter.
RECURSIVE InWhere(_)
InWhere(e) == IF e.op = "cmp" THEN e.where ELSE \A i \in DOMAIN e.parts : InWhere(e.parts[i])

hasPlanResults(p) == p.stages # <<>> \/ p.concat # <<>>

\* filter(): part of the open stage, or after the results, or before any.
AddFilter(p, e, strict) ==
  LET last == Len(p.stages) IN
  CASE p.open -> [p EXCEPT !.stages[last].filters = Append(@, e)]
    [] ~p.open /\ hasPlanResults(p) -> [p EXCEPT !.filters = Append(@, e)]
    [] ~p.open /\ ~hasPlanResults(p) /\ InWhere(e) -> [p EXCEPT !.where = Append(@, e)]
    [] OTHER -> [p EXCEPT !.pre = Append(@, e), !.ok = @ /\ ~strict]

\* orderby(), skip() and top(): once in a stage and once behind all of them, and
\* never in front of the stages of a pipeline that has some.
AddOnce(p, part, value, needsStage) ==
  LET last == Len(p.stages)
      free(holder) == IF part = "order" THEN holder.order = <<>> ELSE holder[part] = NotGiven
  IN  IF p.open
      THEN [p EXCEPT !.ok = @ /\ free(p.stages[last]), !.stages[last] = [@ EXCEPT ![part] = value]]
      ELSE [p EXCEPT !.ok = @ /\ free(p) /\ (needsStage => hasPlanResults(p)), ![part] = value]

RECURSIVE buildApplyExecutionPlan(_, _, _)
buildApplyExecutionPlan(pipeline, strict, allowNonAggregate) ==
  LET needsStage == ~allowNonAggregate /\ pipelineContainsAggregation(pipeline)
      Add(p, t) ==
        CASE t.type = "filter" -> AddFilter(p, t.expr, strict)
          [] t.type = "groupby" ->
               [p EXCEPT !.stages = Append(@, Stage(t.keys, t.aggregates)), !.open = TRUE]
          [] t.type = "aggregate" ->
               [p EXCEPT !.stages = Append(@, Stage(<<>>, t.aggregates)), !.open = TRUE]
          [] t.type = "orderby" -> AddOnce(p, "order", t.items, needsStage)
          [] t.type \in {"skip", "top"} -> AddOnce(p, t.type, t.count, needsStage)
          [] t.type = "concat" ->
               LET branches == [k \in DOMAIN t.pipelines |->
                                  buildApplyExecutionPlan(t.pipelines[k], strict, TRUE)]
               IN [p EXCEPT !.concat = @ \o branches, !.open = FALSE,
                               !.ok = @ /\ \A k \in DOMAIN branches : branches[k].ok]
          [] OTHER -> [p EXCEPT !.ok = FALSE]
  IN  FoldLeft(Add, NoPlan, pipeline)

RECURSIVE FieldsOf(_)
FieldsOf(e) == IF e.op = "cmp" THEN {e.field} ELSE UNION {FieldsOf(e.parts[i]) : i \in DOMAIN e.parts}

OrderedBy(items) == {items[i].field : i \in DOMAIN items}
StagePaths(stage) == ToSet(stage.groupBy) \cup UNION {WithPaths(a) : a \in ToSet(stage.aggregates)}
Columns(stage) == ToSet(stage.groupBy) \cup {a.alias : a \in ToSet(stage.aggregates)}
AfterStages(p, input) == IF p.stages = <<>> THEN input ELSE Columns(Last(p.stages))

RECURSIVE OutputFields(_, _)
OutputFields(p, input) ==
  IF p.concat = <<>> THEN AfterStages(p, input)
  ELSE UNION {OutputFields(p.concat[k], AfterStages(p, input)) : k \in DOMAIN p.concat}

\* validateApplyPlanFields: every stage uses what the one before it puts out.
RECURSIVE ValidFields(_, _)
ValidFields(p, input) ==
  /\ \A e \in ToSet(p.pre) : FieldsOf(e) \subseteq input
  /\ \A i \in DOMAIN p.stages :
       LET stage == p.stages[i] IN
       /\ StagePaths(stage) \subseteq IF i = 1 THEN input ELSE Columns(p.stages[i - 1])
       /\ \A e \in ToSet(stage.filters) : FieldsOf(e) \subseteq Columns(stage)
       /\ OrderedBy(stage.order) \subseteq Columns(stage)
  /\ \A k \in DOMAIN p.concat : ValidFields(p.concat[k], AfterStages(p, input))
  /\ OrderedBy(p.order) \subseteq OutputFields(p, input)
  /\ \A e \in ToSet(p.filters) : FieldsOf(e) \subseteq OutputFields(p, input)

-----------------------------------------------------------------------------
(* The plan in memory.                                                  *)

\* compareValues: no value is below every value.
compareValues(a, b) == CASE a = b -> 0
                         [] a # b /\ NoValue(a) -> -1
                         [] a # b /\ ~NoValue(a) /\ NoValue(b) -> 1
                         [] OTHER -> IF a < b THEN -1 ELSE 1

Satisfies(comparator, order) ==
  CASE comparator = "eq"  -> order = 0
    [] comparator = "neq" -> order # 0
    [] comparator = "gt"  -> order > 0
    [] comparator = "gte" -> order >= 0
    [] comparator = "lt"  -> order < 0
    [] comparator = "lte" -> order <= 0

\* resolvePath: a path is followed from property to property, so it finds neither
\* what is in a collection nor the column of a row that has the path's name.
resolvePath(row, field) ==
  CASE field \notin Paths -> Get(row, field)
    [] field \in Paths /\ ~Navigation[field].many
         /\ Navigation[field].relation \in DOMAIN row.related
         /\ row.related[Navigation[field].relation] # <<>> ->
         row.related[Navigation[field].relation][1][Navigation[field].property]
    [] OTHER -> Undefined

RECURSIVE Holds(_, _)
Holds(e, row) ==
  CASE e.op = "cmp" -> Satisfies(e.comparator, compareValues(resolvePath(row, e.field), e.value))
    [] e.op = "and" -> \A i \in DOMAIN e.parts : Holds(e.parts[i], row)
    [] e.op = "or"  -> \E i \in DOMAIN e.parts : Holds(e.parts[i], row)

applyPostFilters(rows, filters) ==
  SelectSeq(rows, LAMBDA row : \A i \in DOMAIN filters : Holds(filters[i], row))

\* Behind a concat() a comparison keeps the rows that lack its field.
applyPostFiltersPreservingFields(rows, filters) ==
  SelectSeq(rows, LAMBDA row : \A i \in DOMAIN filters :
    \/ filters[i].op = "cmp" /\ filters[i].field \notin DOMAIN row.fields \ Paths
    \/ Holds(filters[i], row))

\* The order of orderResults: no value is behind every value.
Before(items, r, q) ==
  \E i \in DOMAIN items :
    LET x == Get(r, items[i].field)
        y == Get(q, items[i].field)
        behind(a, b) == ~NoValue(b) /\ (NoValue(a) \/ a > b)
    IN  /\ \A k \in 1..(i - 1) : Get(r, items[k].field) = Get(q, items[k].field)
        /\ IF items[i].desc THEN behind(x, y) ELSE behind(y, x)

\* A stable sort: a row goes behind those that are not behind it.
orderResults(rows, items) ==
  LET Insert(sorted, row) ==
        LET ahead == SelectSeq(sorted, LAMBDA r : ~Before(items, row, r))
        IN  ahead \o <<row>> \o SubSeq(sorted, Len(ahead) + 1, Len(sorted))
  IN  IF items = <<>> THEN rows ELSE FoldLeft(Insert, <<>>, rows)

sliceResults(rows, skip, top) ==
  LET from == IF skip > 0 THEN skip ELSE 0
      to   == IF top >= 0 /\ from + top < Len(rows) THEN from + top ELSE Len(rows)
  IN  SubSeq(rows, from + 1, to)

\* The rows of a relation; one missing target stands for none.
collectNavigationTargets(row, relation) ==
  IF relation \in DOMAIN row.related /\ row.related[relation] # <<>> THEN row.related[relation]
  ELSE <<[missing |-> TRUE]>>

PropertyOf(target, property) == IF property \in DOMAIN target THEN target[property] ELSE Undefined

\* expandNavigationVariants: a row stands for every combination of the targets of
\* the relations the stage navigates, each giving values to the stage's paths.
Variants(row, paths) ==
  LET relations == SetToSeq({Navigation[p].relation : p \in paths})
      Extended(v, target, relation) ==
        [p \in {q \in paths : Navigation[q].relation = relation} |->
           PropertyOf(target, Navigation[p].property)] @@ v
      ForEach(vs, relation) ==
        LET targets == collectNavigationTargets(row, relation)
        IN  FlattenSeq([i \in DOMAIN vs |->
              [k \in DOMAIN targets |-> Extended(vs[i], targets[k], relation)]])
  IN  FoldLeft(ForEach, <<<<>>>>, relations)

resolveVariantValue(e, path) == IF path \in DOMAIN e.variant THEN e.variant[path] ELSE Get(e.row, path)

\* JSON writes a missing value as null.
Key(values) == [i \in DOMAIN values |-> IF NoValue(values[i]) THEN Null ELSE values[i]]

Accumulator == [sum |-> 0, count |-> 0, min |-> Null, max |-> Null, distinct |-> {}]

\* updateAccumulatorState: null counts as the number 0, what is missing as none.
Accumulate(operator, state, value) ==
  LET number == IF value = Null THEN 0 ELSE value
      least(x)    == IF x = Null \/ number < x THEN number ELSE x
      greatest(x) == IF x = Null \/ number > x THEN number ELSE x
  IN  CASE operator = "count" -> [state EXCEPT !.count = @ + 1]
        [] operator = "countdistinct" -> [state EXCEPT !.distinct = @ \cup {value}]
        [] operator = "sum" /\ value # Undefined -> [state EXCEPT !.sum = @ + number]
        [] operator = "average" /\ value # Undefined ->
             [state EXCEPT !.sum = @ + number, !.count = @ + 1]
        [] operator = "min" /\ value # Undefined -> [state EXCEPT !.min = least(@)]
        [] operator = "max" /\ value # Undefined -> [state EXCEPT !.max = greatest(@)]
        [] OTHER -> state

\* An average is a whole number in the instances.
Finalized(operator, state) ==
  CASE operator = "sum" -> state.sum
    [] operator = "average" -> IF state.count = 0 THEN Null ELSE state.sum \div state.count
    [] operator = "min" -> state.min
    [] operator = "max" -> state.max
    [] operator = "count" -> state.count
    [] operator = "countdistinct" -> Cardinality(state.distinct)

evaluateAggregateOperand(aggregate, e) ==
  CASE aggregate.kind = "rows"  -> Undefined
    [] aggregate.kind = "field" -> resolveVariantValue(e, aggregate.field)
    [] OTHER -> evaluateComputeNode(aggregate.node,
                  [p \in PathsOf(aggregate.node) |-> resolveVariantValue(e, p)])

Derived(fields) == [fields |-> fields, related |-> <<>>]

\* executeAggregation, over the rows and their variants: groups in the order in
\* which their keys come up.
executeAggregation(rows, stage) ==
  LET paths == StagePaths(stage) \cap Paths
      entries == FlattenSeq([i \in DOMAIN rows |->
                   LET vs == Variants(rows[i], paths)
                   IN  [k \in DOMAIN vs |-> [row |-> rows[i], variant |-> vs[k]]]])
      aggregates == stage.aggregates
      ValuesOf(e) == [i \in DOMAIN stage.groupBy |-> resolveVariantValue(e, stage.groupBy[i])]
      Updated(states, e) ==
        [k \in DOMAIN aggregates |->
           Accumulate(aggregates[k].operator, states[k], evaluateAggregateOperand(aggregates[k], e))]
      Add(groups, e) ==
        LET at == SelectInSeq(groups, LAMBDA g : Key(g.values) = Key(ValuesOf(e)))
        IN  IF at > 0 THEN [groups EXCEPT ![at].states = Updated(@, e)]
            ELSE Append(groups, [values |-> ValuesOf(e),
                                 states |-> Updated([k \in DOMAIN aggregates |-> Accumulator], e)])
      column(f) == CHOOSE i \in DOMAIN stage.groupBy : stage.groupBy[i] = f
      aggregate(f) == CHOOSE k \in DOMAIN aggregates : aggregates[k].alias = f
      RowOf(g) == Derived([f \in Columns(stage) |->
                    IF \E k \in DOMAIN aggregates : aggregates[k].alias = f
                    THEN Finalized(aggregates[aggregate(f)].operator, g.states[aggregate(f)])
                    ELSE g.values[column(f)]])
      RowsOf(groups) == [i \in DOMAIN groups |-> RowOf(groups[i])]
  IN  RowsOf(FoldLeft(Add, <<>>, entries))

TooWide(rows, stage) ==
  \E row \in ToSet(rows) : Len(Variants(row, StagePaths(stage) \cap Paths)) > MaxFanout

\* ensureApplyFallbackLimit.
TooMany(rows) == Len(rows) > MaxResult

RunStageUnordered(state, stage) ==   \* mutant
  LET Left(found) ==
        [state EXCEPT !.rows = orderResults(sliceResults(found, stage.skip, stage.top), stage.order),
                      !.refused = TooMany(found)]
  IN  IF state.refused \/ TooWide(state.rows, stage) THEN [state EXCEPT !.refused = TRUE]
      ELSE Left(applyPostFilters(executeAggregation(state.rows, stage), stage.filters))

\* One stage: aggregated, filtered, ordered and cut, in this order.
RunStage(state, stage) ==
  LET Left(found) ==
        [state EXCEPT !.rows = sliceResults(orderResults(found, stage.order), stage.skip, stage.top),
                      !.refused = TooMany(found)]
  IN  IF state.refused \/ TooWide(state.rows, stage) THEN [state EXCEPT !.refused = TRUE]
      ELSE Left(applyPostFilters(executeAggregation(state.rows, stage), stage.filters))

RefusedOutcome == [rows |-> <<>>, segments |-> <<>>, refused |-> TRUE]

\* executeApplyPlanBranch: the stages, then the branches on what they leave, then
\* the rest of the plan on each segment the branches made.
RECURSIVE executeApplyPlanBranch(_, _)
executeApplyPlanBranch(p, input) ==
  LET branched == p.concat # <<>>
      cut == p.skip # NotGiven \/ p.top # NotGiven
      Finish(rows) == orderResults(IF branched THEN applyPostFiltersPreservingFields(rows, p.filters)
                                   ELSE applyPostFilters(rows, p.filters), p.order)
      Result(segments, finished) ==
        [rows |-> sliceResults(FlattenSeq(finished), p.skip, p.top),
         segments |-> IF branched /\ ~cut THEN finished ELSE <<>>,
         refused |-> branched /\ TooMany(FlattenSeq(segments))]
      OfSegments(segments) == Result(segments, [k \in DOMAIN segments |-> Finish(segments[k])])
      OfBranches(outcomes) ==
        IF \E k \in DOMAIN outcomes : outcomes[k].refused THEN RefusedOutcome
        ELSE OfSegments(FlattenSeq([k \in DOMAIN outcomes |->
               IF outcomes[k].segments # <<>> THEN outcomes[k].segments ELSE <<outcomes[k].rows>>]))
      OfStages(staged) ==
        IF staged.refused THEN RefusedOutcome
        ELSE IF ~branched THEN OfSegments(<<staged.rows>>)
        ELSE OfBranches([k \in DOMAIN p.concat |-> executeApplyPlanBranch(p.concat[k], staged.rows)])
      OfRows(rows) ==
        OfStages(FoldLeft(RunStage, [rows |-> rows, refused |-> TooMany(rows)], p.stages))
  IN  OfRows(applyPostFilters(input, p.pre))
=============================================================================
