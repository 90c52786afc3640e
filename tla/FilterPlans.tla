---------------------------- MODULE FilterPlans ----------------------------
(***************************************************************************)
(* What becomes of a parsed $filter: the where clause given to the         *)
(* datasource (buildWhere), the expressions kept for the memory            *)
(* (evaluatePredicate) and the three translators to PostgreSQL             *)
(* (util/postgres-lambda-pushdown.ts, postgres-filter-pushdown.ts and      *)
(* postgres-navigation-filter-pushdown.ts).  A request goes through the    *)
(* steps of the code: Parse, Split, Plan, then one of the ways to answer.  *)
(*                                                                         *)
(* SQL is evaluated with its three truth values, 2 for true, 1 for unknown *)
(* and 0 for false; the memory has two.  Where clauses and SQL predicates  *)
(* keep the shape of a parsed expression, with two more operators: "like"  *)
(* (a pattern) and "exists" (a correlated subquery).                       *)
(***************************************************************************)
EXTENDS FilterGrammar

CONSTANTS Undefined,      \* JavaScript's undefined
          Relations,      \* model -> relation -> [kind, target]
          RootModel,
          Rows,           \* the rows of the collection, relations nested in them
          Written,        \* the expressions clients write
          Garbled,        \* token sequences that are no rendering of an expression
          MaxPattern,     \* maxFilterPatternLength
          MaxDepth,       \* maxExpandDepth, for paths
          MaxJoins        \* pushdownMaxJoinCount

VARIABLES written,        \* the expression the client means, None for a garbled text
          text,           \* the tokens of $filter
          phase,          \* sent, parsed, split, planned, answered or refused
          tree,           \* the parsed expression
          parts,          \* lambdas and the rest
          plan,           \* where, post-filter and navigation filter
          answer          \* the rows kept

vars == <<written, text, phase, tree, parts, plan, answer>>

-----------------------------------------------------------------------------
(* Values of a row and how the memory compares them.                       *)

Absent == {Null, Undefined}

RECURSIVE resolvePath(_, _)
resolvePath(source, segments) ==
  IF segments = <<>> THEN source
  ELSE IF source \in Absent THEN Undefined
  ELSE resolvePath(source[Head(segments)], Tail(segments))

\* bound: the items the aliases of enclosing lambdas stand for.
resolvePredicateValue(field, root, bound) ==
  IF Head(Path(field)) \in DOMAIN bound
  THEN resolvePath(bound[Head(Path(field))], Tail(Path(field)))
  ELSE resolvePath(root, Path(field))

Members(value) == CASE value \in Absent -> {} [] "id" \in DOMAIN value -> {value}
                    [] OTHER -> Range(value)

RECURSIVE resolveCollectionPath(_, _)
resolveCollectionPath(sources, segments) ==
  IF segments = <<>> THEN sources
  ELSE resolveCollectionPath(UNION {Members(s[Head(segments)]) : s \in sources}, Tail(segments))

\* normalizeLambdaCollections: the items of a lambda's collection.
ItemsOf(e, root, bound) ==
  IF Len(e.path) > 1 /\ Head(e.path) \in DOMAIN bound
  THEN resolveCollectionPath({bound[Head(e.path)]}, Tail(e.path))
  ELSE resolveCollectionPath({root}, e.path)

Precedes(a, b) ==
  \E k \in 0..Len(a) :
    /\ k <= Len(b) /\ SubSeq(a, 1, k) = SubSeq(b, 1, k)
    /\ k < Len(b) /\ (k < Len(a) => a[k + 1] < b[k + 1])

\* Strictly: null and undefined differ, and either comes before a value.
compareValues(a, b) ==
  IF a = b THEN 0
  ELSE IF a \in Absent \/ (b \notin Absent /\ Precedes(a, b)) THEN -1 ELSE 1

Holds(comparator, order) ==
  CASE comparator = "eq" -> order = 0 [] comparator = "neq" -> order # 0
    [] comparator = "gt" -> order > 0 [] comparator = "gte" -> order >= 0
    [] comparator = "lt" -> order < 0 [] comparator = "lte" -> order <= 0

Occurrences(s, part) ==
  {k \in 0..(Len(s) - Len(part)) : SubSeq(s, k + 1, k + Len(part)) = part}
IndexOf(s, part) ==
  IF Occurrences(s, part) = {} THEN -1
  ELSE CHOOSE k \in Occurrences(s, part) : \A m \in Occurrences(s, part) : k <= m

Blank == 100
Trimmed(s) == LET letters == {k \in DOMAIN s : s[k] # Blank} IN
              IF letters = {} THEN <<>> ELSE SubSeq(s, Min(letters), Max(letters))

\* floor, ceiling and round of a number of quarters, rounding a half up.
Rounded(name, q) == CASE name = "floor" -> Whole(q[1] \div Unit)
                      [] name = "ceiling" -> Whole((q[1] + Unit - 1) \div Unit)
                      [] name = "round" -> Whole((q[1] + Unit \div 2) \div Unit)

\* A date is year * 2 + month, the months being 0 and 1.
YearOf(d) == Whole(d[1] \div 2)
PartOf(d) == Whole(d[1] % 2)

-----------------------------------------------------------------------------
(* evaluatePredicate, the filter in memory.                                *)

resolveFunctionArgValue(arg, root, bound) ==
  LET value == IF arg.kind = "field" THEN resolvePredicateValue(arg.name, root, bound)
               ELSE arg.value
  IN  IF value \in Absent THEN value ELSE Transformed(value, arg.transform)

evaluateStringFunction(e, root, bound) ==
  LET Value(k) == resolveFunctionArgValue(e.args[k], root, bound) IN
  IF e.name = "trim" THEN IF Value(1) \in Absent THEN Undefined ELSE Trimmed(Value(1))
  ELSE FlattenSeq([k \in DOMAIN e.args |-> IF Value(k) \in Absent THEN <<>> ELSE Value(k)])

InMemory(e, value) ==
  LET values == Range(e.values) IN
  LET isOneOf == IF value \in Absent THEN Null \in values ELSE value \in values IN
  isOneOf <=> e.comparator = "inq"

\* The name and the field only: the comparator is not looked at.
FunctionInMemory(e, value) ==
  CASE e.name = "year" -> value \notin Absent /\ YearOf(value) = e.value
    [] OTHER -> /\ value # Undefined
                /\ Rounded(e.name, IF value = Null THEN Whole(0) ELSE value) = e.value

TextTest(e, value) ==
  CASE e.operator = "function" ->
         LET source == Lower(value)  needle == Lower(e.arg) IN
         \/ e.name = "contains" /\ Occurrences(source, needle) # {}
         \/ e.name = "startswith" /\ IsPrefix(needle, source)
         \/ e.name = "endswith" /\ IsSuffix(needle, source)
    [] e.operator = "datepart" -> Holds(e.comparator, compareValues(PartOf(value), e.value))
    [] e.operator = "indexofcmp" ->
         Holds(e.comparator, compareValues(Whole(IndexOf(Lower(value), Lower(e.needle))), e.value))
    [] e.operator = "substrcmp" ->
         LET start == e.start[1] \div Unit
             end   == IF e.length = Null THEN Len(value)
                      ELSE Min({Len(value), start + e.length[1] \div Unit})
         IN  (SubSeq(value, start + 1, end) = e.value) <=> (e.comparator = "eq")

IsList(e) == e.comparator \in {"inq", "nin"}

\* The tests that say something of a value that is not there.
TestInMemory(e, value) ==
  CASE e.operator = "comparison" -> IF IsList(e) THEN InMemory(e, value)
                                    ELSE Holds(e.comparator, compareValues(value, e.value))
    [] e.operator = "transformcmp" ->
         (e.comparator = "eq") <=> IF value \in Absent \/ e.value = Null
                                   THEN value \in Absent /\ e.value = Null
                                   ELSE Transformed(value, e.transform) = e.value
    [] e.operator = "fncmp" -> FunctionInMemory(e, value)
    [] e.operator = "lengthcmp" ->
         Holds(e.comparator, compareValues(Whole(IF value \in Absent THEN 0 ELSE Len(value)), e.value))
    [] OTHER -> value \notin Absent /\ TextTest(e, value)
RECURSIVE evaluatePredicate(_, _, _)
evaluatePredicate(e, root, bound) ==
  CASE e.operator = "logical" ->
         IF e.type = "and" THEN \A k \in DOMAIN e.expressions : evaluatePredicate(e.expressions[k], root, bound)
         ELSE \E k \in DOMAIN e.expressions : evaluatePredicate(e.expressions[k], root, bound)
    [] e.operator = "not" -> ~evaluatePredicate(e.expr, root, bound)
    [] e.operator = "lambda" ->
         LET True(item) == evaluatePredicate(e.predicate, root, (e.alias :> item) @@ bound) IN
         IF e.lambdaType = "any" THEN \E item \in ItemsOf(e, root, bound) : True(item)
         ELSE \A item \in ItemsOf(e, root, bound) : True(item)
    [] e.operator = "stringfncmp" ->
         LET result == evaluateStringFunction(e, root, bound) IN
         result # Undefined /\ ((result = e.value) <=> (e.comparator = "eq"))
    [] OTHER -> TestInMemory(e, resolvePredicateValue(e.field, root, bound))

-----------------------------------------------------------------------------
(* buildWhere.  A refusal with 400 is Bad; Unsupported is the exception    *)
(* after which the expression is kept for the memory.                      *)

Unsupported == [operator |-> "unsupported"]
AnyText == -1     \* % in a pattern
AnyLetter == -2     \* _ in a pattern

Clause(field, comparator, value) ==
  [operator |-> "comparison", field |-> field, comparator |-> comparator, value |-> value]
Pattern(field, pattern, insensitive, negated) ==
  [operator |-> "like", field |-> field, pattern |-> pattern, insensitive |-> insensitive,
   negated |-> negated, transform |-> "none"]
Underscores(n) == [k \in 1..n |-> AnyLetter]

inverse == [eq |-> "neq", neq |-> "eq", gt |-> "lte", gte |-> "lt", lt |-> "gte", lte |-> "gt",
            inq |-> "nin", nin |-> "inq"]

\* contains, startswith and endswith as a pattern.
Matching(name, literal) == CASE name = "contains" -> <<AnyText>> \o literal \o <<AnyText>>
                             [] name = "startswith" -> literal \o <<AnyText>>
                             [] name = "endswith" -> <<AnyText>> \o literal

buildIn(e) ==
  LET others == SelectSeq(e.values, LAMBDA v : v # Null)
      list   == [e EXCEPT !.values = others]
      isNull == Clause(e.field, IF e.comparator = "inq" THEN "eq" ELSE "neq", Null)
  IN  IF others = e.values THEN e
      ELSE IF others = <<>> THEN isNull
      ELSE Logical(IF e.comparator = "inq" THEN "or" ELSE "and", <<isNull, list>>)

\* Only the presence and the absence of the needle can be asked.
buildIndexOf(e) ==
  LET contains(negated) == Pattern(e.field, <<AnyText>> \o e.needle \o <<AnyText>>, TRUE, negated)
      order == compareValues(e.value, Whole(-1))
  IN  CASE e.comparator = "gte" /\ e.value[1] >= 0 -> contains(FALSE)
        [] e.comparator = "gt" /\ order >= 0 -> contains(FALSE)
        [] e.comparator = "eq" /\ order = 0 -> contains(TRUE)
        [] OTHER -> Bad

negateIndexOfExpression(e) ==
  LET order == compareValues(e.value, Whole(-1)) IN
  CASE e.comparator = "eq" /\ order = 0 -> [e EXCEPT !.comparator = "gte", !.value = Whole(0)]
    [] (e.comparator = "gte" /\ e.value[1] >= 0) \/ (e.comparator = "gt" /\ order > 0) ->
         [e EXCEPT !.comparator = "eq", !.value = Whole(-1)]
    [] OTHER -> Bad

Count(x) == x[1] \div Unit
SafeLength(x, max) == x[1] >= 0 /\ IsWhole(x) /\ Count(x) <= max

buildSubstring(e) ==
  IF ~SafeLength(e.start, MaxPattern) \/ (e.length # Null /\ ~SafeLength(e.length, MaxPattern))
  THEN Bad
  ELSE Pattern(e.field, Underscores(Count(e.start)) \o e.value
                        \o (IF e.length = Null THEN <<>> ELSE <<AnyText>>), FALSE, e.comparator = "neq")

Plus(x, k) == <<x[1] + k>>

\* The patterns of n letters, and of n letters at least.
LengthPattern(e, max) ==
  LET n == Count(e.value)
      exactly(negated) == IF n = 0 THEN Clause(e.field, IF negated THEN "neq" ELSE "eq", <<>>)
                          ELSE Pattern(e.field, Underscores(n), FALSE, negated)
      atLeast(k, negated) == Pattern(e.field, Underscores(k) \o <<AnyText>>, FALSE, negated)
      longest == IF e.comparator \in {"gt", "lte"} /\ n > 0 THEN Plus(e.value, Unit) ELSE e.value
  IN  IF ~SafeLength(e.value, max) \/ ~SafeLength(longest, max) THEN Bad
      ELSE CASE e.comparator = "eq" -> exactly(FALSE)
             [] e.comparator = "neq" -> exactly(TRUE)
             [] e.comparator = "gt" -> IF n = 0 THEN exactly(TRUE) ELSE atLeast(n + 1, FALSE)
             [] e.comparator = "gte" -> atLeast(n, FALSE)
             [] e.comparator = "lt" -> atLeast(n, TRUE)
             [] e.comparator = "lte" -> IF n = 0 THEN exactly(FALSE) ELSE atLeast(n + 1, TRUE)

translateLengthComparison(e) == LengthPattern(e, MaxPattern)

\* The half-open interval of the values a function maps to e.value.
IntervalOf(e) ==
  CASE e.name = "year" -> << <<2 * Count(e.value)>>, <<2 * Count(e.value) + 2>> >>
    [] e.name = "floor" -> <<e.value, Plus(e.value, Unit)>>
    [] e.name = "round" -> <<Plus(e.value, -Unit \div 2), Plus(e.value, Unit \div 2)>>

buildFunctionComparison(e) ==
  LET low  == IntervalOf(e)[1]
      high == IntervalOf(e)[2]
      both(c, x, d, y) == Logical("and", <<Clause(e.field, c, x), Clause(e.field, d, y)>>)
      below == Plus(e.value, -Unit)
  IN  IF e.comparator = "neq" THEN Bad
      ELSE IF e.name = "ceiling"
      THEN CASE e.comparator = "eq" -> both("gt", below, "le", e.value)
             [] e.comparator = "gte" -> Clause(e.field, "gt", below)
             [] e.comparator = "gt" -> Clause(e.field, "gte", e.value)
             [] e.comparator = "lte" -> Clause(e.field, "lt", Plus(e.value, Unit))
             [] e.comparator = "lt" -> Clause(e.field, "lt", e.value)
      ELSE CASE e.comparator = "eq" -> both("gte", low, "lt", high)
             [] e.comparator = "gte" -> Clause(e.field, "gte", low)
             [] e.comparator = "gt" -> Clause(e.field, "gte", high)
             [] e.comparator = "lte" -> Clause(e.field, "lt", high)
             [] e.comparator = "lt" -> Clause(e.field, "lt", low)

\* The parts of a negated junction are built by a map: the first exception leaves.
FirstFailure(type, built) ==
  LET failing == {k \in DOMAIN built : built[k] \in {Bad, Unsupported}}
  IN  IF failing = {} THEN Logical(type, built) ELSE built[Min(failing)]

\* Otherwise a refused part refuses the whole, and an unsupported one keeps it for
\* later.
Joined(type, built) ==
  IF Bad \in Range(built) THEN Bad
  ELSE IF Unsupported \in Range(built) THEN Unsupported ELSE Logical(type, built)

\* The negation of a leaf, as a leaf.
Negated(e) ==
  CASE e.operator \in {"comparison", "lengthcmp"} -> [e EXCEPT !.comparator = inverse[@]]
    [] e.operator = "substrcmp" -> [e EXCEPT !.comparator = IF @ = "eq" THEN "neq" ELSE "eq"]
    [] e.operator = "function" -> [e EXCEPT !.negated = ~@]
    [] e.operator = "indexofcmp" -> negateIndexOfExpression(e)
    [] e.operator \in {"stringfncmp", "datepart", "transformcmp"} -> e
    [] OTHER -> Bad

buildLeaf(e) ==
  IF e.operator \in {"stringfncmp", "datepart", "transformcmp"} THEN Unsupported
  ELSE IF ~(FieldsOf(e) \subseteq DOMAIN Fields) THEN Bad   \* assertSafeFilterFieldName
  ELSE CASE e.operator = "comparison" -> IF IsList(e) THEN buildIn(e) ELSE e
         [] e.operator = "function" ->
              IF e.arg = Null THEN Bad
              ELSE Pattern(e.field, Matching(e.name, e.arg), TRUE, e.negated)
         [] e.operator = "indexofcmp" -> buildIndexOf(e)
         [] e.operator = "substrcmp" -> buildSubstring(e)
         [] e.operator = "lengthcmp" -> translateLengthComparison(e)
         [] e.operator = "fncmp" -> buildFunctionComparison(e)
         [] OTHER -> Bad

\* mutant
NotKeepsTheJunction(e) ==
  IF e.operator = "not" /\ e.expr.operator = "logical"
  THEN FirstFailure(e.expr.type, [k \in DOMAIN e.expr.expressions |-> buildLeaf(Negated(e.expr.expressions[k]))])
  ELSE buildLeaf(e)

\* Not is pushed to the leaves; a not below a not is refused.
RECURSIVE buildWhere(_)
buildWhere(e) ==
  CASE e.operator = "logical" ->
         Joined(e.type, [k \in DOMAIN e.expressions |-> buildWhere(e.expressions[k])])
    [] e.operator = "not" ->
         CASE e.expr.operator = "logical" ->
                FirstFailure(IF e.expr.type = "and" THEN "or" ELSE "and",
                             [k \in DOMAIN e.expr.expressions |-> buildWhere(Not(e.expr.expressions[k]))])
           [] e.expr.operator = "fncmp" -> LET built == buildLeaf(e.expr) IN
                                           IF built = Bad THEN Bad ELSE Not(built)
           [] OTHER -> buildLeaf(Negated(e.expr))
    [] OTHER -> buildLeaf(e)

-----------------------------------------------------------------------------
(* SQL.  PostgreSQL decides a predicate for a row and the rows its         *)
(* subqueries have named so far.                                           *)

Decline == [operator |-> "decline"]
Truth(b) == IF b THEN 2 ELSE 0
Least(values) == Min(values \cup {2})
Most(values) == Max(values \cup {0})

RECURSIVE Like(_, _)
Like(s, pattern) ==
  IF pattern = <<>> THEN s = <<>>
  ELSE IF Head(pattern) = AnyText
  THEN \E k \in 0..Len(s) : Like(SubSeq(s, k + 1, Len(s)), Tail(pattern))
  ELSE s # <<>> /\ Head(pattern) \in {AnyLetter, Head(s)} /\ Like(Tail(s), Tail(pattern))

\* A column compared with a placeholder; IS NULL for null.  A comparator the
\* datasource does not know is not decided.
SqlComparison(comparator, column, value) ==
  IF value = Null
  THEN Truth((column \in Absent) <=> (comparator = "eq"))
  ELSE IF column \in Absent \/ comparator \notin DOMAIN inverse THEN 1
  ELSE Truth(Holds(comparator, compareValues(column, value)))

SqlIn(e, column) ==
  LET others == {v \in Range(e.values) : v # Null}
      member == IF column \in Absent /\ others # {} THEN 1 ELSE Truth(column \in others)
      isNull == Truth(column \in Absent)
      holds  == IF Null \in Range(e.values) THEN Most({isNull, member}) ELSE member
  IN  IF e.comparator = "inq" THEN holds ELSE 2 - holds

SqlLike(e, column) ==
  IF column \in Absent THEN 1
  ELSE LET matches == IF e.insensitive THEN Like(Lower(column), Lower(e.pattern))
                      ELSE Like(Transformed(column, e.transform), e.pattern)
       IN  Truth(matches <=> ~e.negated)

SqlTransform(e, column) ==
  SqlComparison(e.comparator, IF column \in Absent THEN Null ELSE Transformed(column, e.transform),
                e.value)

\* btrim and concat; concat skips nulls.
SqlString(e, values) ==
  SqlComparison(e.comparator,
    IF e.name # "trim" THEN FlattenSeq(SelectSeq(values, LAMBDA v : v \notin Absent))
    ELSE IF values[1] \in Absent THEN Null ELSE Trimmed(values[1]), e.value)

SqlNumber(e, column) ==
  SqlComparison(e.comparator,
    IF column \in Absent THEN Null
    ELSE IF e.operator = "datepart" THEN PartOf(column) ELSE Whole(Len(column)), e.value)

RECURSIVE SqlTruth(_, _, _)
SqlTruth(e, row, bound) ==
  CASE e.operator = "logical" ->
         LET values == {SqlTruth(e.expressions[k], row, bound) : k \in DOMAIN e.expressions} IN
         IF e.type = "and" THEN Least(values) ELSE Most(values)
    [] e.operator = "not" -> 2 - SqlTruth(e.expr, row, bound)
    [] e.operator = "exists" ->
         LET from  == ItemsOf(e, row, IF e.alias = "" THEN [a \in {} |-> Null] ELSE bound)
             value == {SqlTruth(e.predicate, row, (e.alias :> item) @@ bound) : item \in from}
             leaf  == {SqlTruth(e.predicate, item, bound) : item \in from}
         IN  IF e.alias = "" THEN Truth(2 \in leaf)
             ELSE IF e.lambdaType = "any" THEN Truth(2 \in value)
             ELSE Truth(value \subseteq {2})
    [] e.operator = "stringfncmp" ->
         SqlString(e, [k \in DOMAIN e.args |-> resolveFunctionArgValue(e.args[k], row, bound)])
    [] OTHER ->
         LET column == resolvePredicateValue(e.field, row, bound) IN
         CASE e.operator = "comparison" -> IF IsList(e) THEN SqlIn(e, column)
                                           ELSE SqlComparison(e.comparator, column, e.value)
           [] e.operator = "like" -> SqlLike(e, column)
           [] e.operator = "transformcmp" -> SqlTransform(e, column)
           [] e.operator \in {"datepart", "lengthcmp"} -> SqlNumber(e, column)

\* The where clause in SQL: a comparator that is not known is declined.
RECURSIVE translateWhere(_)
translateWhere(w) ==
  CASE w.operator = "logical" -> \A k \in DOMAIN w.expressions : translateWhere(w.expressions[k])
    [] w.operator = "not" -> translateWhere(w.expr)
    [] w.operator = "comparison" -> w.comparator \in DOMAIN inverse
    [] OTHER -> TRUE

-----------------------------------------------------------------------------
(* The three translators.  Each returns the SQL predicate and what it      *)
(* counts for the limit on joins, or Decline.                              *)

Fragment(sql, joins) == [sql |-> sql, joins |-> joins]

\* The relations a path goes through from model, refused as the code refuses it.
RECURSIVE JoinsOf(_, _)
JoinsOf(model, path) ==
  IF path = <<>> \/ Head(path) \notin DOMAIN Relations[model] THEN <<>>
  ELSE LET relation == Relations[model][Head(path)] IN
       << [name |-> Head(path), from |-> model, kind |-> relation.kind, target |-> relation.target] >>
       \o JoinsOf(relation.target, Tail(path))

Kinded(joins, kind) == {k \in DOMAIN joins : joins[k].kind = kind}

resolveNavigationPath(model, path, maxDepth, allowThrough) ==
  LET joins == JoinsOf(model, path)
      visited == Min({Len(path), Len(joins) + 1})
  IN  IF \/ visited > maxDepth
         \/ Cardinality(Kinded(joins, "through")) > (IF allowThrough THEN 1 ELSE 0)
      THEN Decline
      ELSE [operator |-> "path", joins |-> joins,
            property |-> SubSeq(path, Len(joins) + 1, Len(path))]

isSupportedNavPath(resolved) ==
  /\ resolved # Decline
  /\ Len(resolved.joins) > 0 /\ Len(resolved.property) = 1
  /\ Kinded(resolved.joins, "many") = {}

NavPath(e) == resolveNavigationPath(RootModel, Path(e.field), MaxDepth, FALSE)
OnPath(e) == FieldsOf(e) # {} /\ \E f \in FieldsOf(e) : Len(Path(f)) > 1

\* A function as LIKE, the column transformed rather than case-insensitive.
LikeFunction(e) ==
  IF e.arg = Null THEN Decline
  ELSE [operator |-> "like", field |-> e.field, pattern |-> Matching(e.name, e.arg),
        insensitive |-> e.transform = "none", negated |-> e.negated, transform |-> e.transform]

LeafSql(e) == IF e.operator = "function" THEN LikeFunction(e)
              ELSE IF e.operator = "comparison" /\ ~IsList(e) /\ e.value = Null
                      /\ e.comparator \notin {"eq", "neq"} THEN Decline
              ELSE e

\* EXISTS over the joined tables, with the test on the last of them.
translateNavLeaf(e) ==
  LET resolved == NavPath(e)  leaf == LeafSql(e) IN
  IF e.operator \notin {"comparison", "transformcmp", "function"} \/ leaf = Decline
     \/ ~isSupportedNavPath(resolved)
  THEN Decline
  ELSE [operator |-> "exists", path |-> [k \in DOMAIN resolved.joins |-> resolved.joins[k].name],
        alias |-> "", lambdaType |-> "any",
        predicate |-> [leaf EXCEPT !.field = Last(resolved.property)]]

JoinKeys(e) == Range(NavPath(e).joins)

\* A field of a lambda predicate: alias/property; at the root, a property.
resolvePredicateField(field, scope) ==
  IF Len(Path(field)) = 1 THEN DOMAIN scope = {}
  ELSE Len(Path(field)) = 2 /\ Head(Path(field)) \in DOMAIN scope

LambdaLeaf(e, scope) ==
  IF \E f \in FieldsOf(e) : ~resolvePredicateField(f, scope) THEN Decline
  ELSE CASE e.operator = "comparison" -> IF IsList(e) THEN Decline ELSE LeafSql(e)
         [] e.operator \in {"function", "transformcmp"} -> LeafSql(e)
         [] e.operator \in {"stringfncmp", "datepart"} -> e
         [] e.operator = "lengthcmp" -> IF e.value[1] >= 0 /\ IsWhole(e.value) THEN e ELSE Decline
         [] OTHER -> Decline

\* The tables a path joins; a through relation joins two.
Tables(joins) == Len(joins) + Cardinality(Kinded(joins, "through"))

SumOf(joins) == FoldSeq(LAMBDA x, total : x + total, 0, joins)

RECURSIVE translatePredicateExpression(_, _)
translatePredicateExpression(e, scope) ==
  CASE e.operator = "logical" ->
         LET built == [k \in DOMAIN e.expressions |-> translatePredicateExpression(e.expressions[k], scope)] IN
         IF Decline \in Range(built) THEN Decline
         ELSE Fragment([e EXCEPT !.expressions = [k \in DOMAIN built |-> built[k].sql]],
                       SumOf([k \in DOMAIN built |-> built[k].joins]))
    [] e.operator = "not" ->
         LET inner == translatePredicateExpression(e.expr, scope) IN
         IF inner = Decline THEN Decline ELSE Fragment(Not(inner.sql), inner.joins)
    [] e.operator = "lambda" ->          \* buildLambdaExistsClause
         LET nested   == Len(e.path) > 1 /\ Head(e.path) \in DOMAIN scope
             resolved == IF nested
                         THEN resolveNavigationPath(scope[Head(e.path)], Tail(e.path), 5, TRUE)
                         ELSE resolveNavigationPath(RootModel, e.path, 5, TRUE)
             fails    == \/ ~nested /\ DOMAIN scope # {}
                         \/ resolved = Decline
                         \/ Len(resolved.joins) = 0 \/ resolved.property # <<>>
             inner    == IF fails THEN Decline
                         ELSE translatePredicateExpression(e.predicate,
                                (e.alias :> Last(resolved.joins).target) @@ scope)
         IN  IF inner = Decline THEN Decline
             ELSE Fragment([operator |-> "exists", path |-> e.path, alias |-> e.alias,
                            lambdaType |-> e.lambdaType, predicate |-> inner.sql],
                           Tables(resolved.joins) - 1 + inner.joins)
    [] OTHER -> LET leaf == LambdaLeaf(e, scope) IN
                IF leaf = Decline THEN Decline ELSE Fragment(leaf, 0)

translateRootIndexOf(e) ==
  LET order == compareValues(e.value, Whole(-1))
      contains(negated) == Pattern(e.field, <<AnyText>> \o e.needle \o <<AnyText>>, TRUE, negated)
  IN  CASE (e.comparator = "gte" /\ e.value[1] >= 0) \/ (e.comparator = "gt" /\ order > 0) ->
             contains(FALSE)
        [] e.comparator = "eq" /\ order = 0 -> contains(TRUE)
        [] OTHER -> Decline

translateRootSubstring(e) ==
  Pattern(e.field, Underscores(Count(e.start)) \o e.value
                   \o (IF e.length = Null THEN <<>> ELSE <<AnyText>>), FALSE, e.comparator = "neq")

translateRootLength(e) ==
  LET built == LengthPattern(e, Count(e.value) + 1) IN IF built = Bad THEN Decline ELSE built

RootLeaf(e) ==
  CASE e.operator \in {"comparison", "transformcmp", "function"} -> LeafSql(e)
    [] e.operator \in {"stringfncmp", "datepart"} -> IF OnPath(e) THEN Decline ELSE e
    [] e.operator = "indexofcmp" -> IF OnPath(e) THEN Decline ELSE translateRootIndexOf(e)
    [] e.operator = "substrcmp" -> IF OnPath(e) THEN Decline ELSE translateRootSubstring(e)
    [] e.operator = "lengthcmp" -> IF OnPath(e) THEN Decline ELSE translateRootLength(e)
    [] OTHER -> Decline

\* joins is the set of different joins: a relation followed twice counts once.
RECURSIVE translateMixedPredicateExpression(_)
translateMixedPredicateExpression(e) ==
  CASE e.operator = "logical" ->
         LET built == [k \in DOMAIN e.expressions |-> translateMixedPredicateExpression(e.expressions[k])] IN
         IF Decline \in Range(built) THEN Decline
         ELSE Fragment([e EXCEPT !.expressions = [k \in DOMAIN built |-> built[k].sql]],
                       UNION {built[k].joins : k \in DOMAIN built})
    [] e.operator = "not" ->
         LET inner == translateMixedPredicateExpression(e.expr) IN
         IF inner = Decline THEN Decline ELSE Fragment(Not(inner.sql), inner.joins)
    [] OTHER ->
         LET onPath == e.operator \in {"comparison", "transformcmp", "function"} /\ OnPath(e)
             leaf == IF onPath THEN translateNavLeaf(e) ELSE RootLeaf(e)
         IN  IF leaf = Decline THEN Decline ELSE Fragment(leaf, IF onPath THEN JoinKeys(e) ELSE {})

CountedLeaf(e) ==
  LET leaf == IF OnPath(e) THEN translateNavLeaf(e) ELSE Decline IN
  IF leaf = Decline THEN Decline ELSE Fragment(leaf, Len(NavPath(e).joins))

\* The one of $count: every leaf on a path, and the joins of all leaves added up.
RECURSIVE translateNavPredicateExpression(_)
translateNavPredicateExpression(e) ==
  CASE e.operator = "logical" ->
         LET built == [k \in DOMAIN e.expressions |-> translateNavPredicateExpression(e.expressions[k])] IN
         IF Decline \in Range(built) THEN Decline
         ELSE Fragment([e EXCEPT !.expressions = [k \in DOMAIN built |-> built[k].sql]],
                       SumOf([k \in DOMAIN built |-> built[k].joins]))
    [] e.operator = "not" ->
         LET inner == translateNavPredicateExpression(e.expr) IN
         IF inner = Decline THEN Decline ELSE Fragment(Not(inner.sql), inner.joins)
    [] OTHER -> CountedLeaf(e)

-----------------------------------------------------------------------------
(* Which part of the conjunction the datasource is given.                  *)

isStructuredFieldPath(field) ==
  LET resolved == resolveNavigationPath(RootModel, Path(field), MaxDepth, FALSE) IN
  Len(Path(field)) > 1 /\ resolved # Decline /\ Len(resolved.joins) > 0

IsStructured(e) == \/ \E f \in FieldsOf(e) : isStructuredFieldPath(f)
                   \/ e.operator = "function" /\ e.transform # "none"

Split(repo, structured) == [repoExpr |-> repo, structuredExpr |-> structured]

combineParsedExpressions(type, es) ==
  LET given == SelectSeq(es, LAMBDA e : e # None) IN
  IF given = <<>> THEN None ELSE IF Len(given) = 1 THEN given[1] ELSE Logical(type, given)

RECURSIVE splitParsedExpression(_)
splitParsedExpression(e) ==
  CASE e.operator = "logical" ->
         LET splits == [k \in DOMAIN e.expressions |-> splitParsedExpression(e.expressions[k])]
             repo == [k \in DOMAIN splits |-> splits[k].repoExpr]
             structured == [k \in DOMAIN splits |-> splits[k].structuredExpr]
         IN  IF e.type = "and" THEN Split(combineParsedExpressions("and", repo),
                                          combineParsedExpressions("and", structured))
             ELSE IF \A k \in DOMAIN splits : structured[k] = None /\ repo[k] # None
             THEN Split(combineParsedExpressions("or", repo), None)
             ELSE Split(None, e)
    [] e.operator = "not" ->
         LET child == splitParsedExpression(e.expr) IN
         IF child.repoExpr = None \/ child.structuredExpr # None THEN Split(None, e)
         ELSE Split(Not(child.repoExpr), None)
    [] OTHER -> IF IsStructured(e) THEN Split(None, e) ELSE Split(e, None)

RECURSIVE containsNavigationPushdownFilter(_)
containsNavigationPushdownFilter(e) ==
  CASE e.operator = "logical" ->
         \E k \in DOMAIN e.expressions : containsNavigationPushdownFilter(e.expressions[k])
    [] e.operator = "not" -> containsNavigationPushdownFilter(e.expr)
    [] e.operator \in {"comparison", "transformcmp", "function"} ->
         OnPath(e) /\ isSupportedNavPath(NavPath(e))
    [] OTHER -> FALSE

combinePostFilterExpressions(left, right) ==
  CASE left = None -> right [] right = None -> left [] OTHER -> Logical("and", <<left, right>>)

-----------------------------------------------------------------------------
(* What a client writes: Text(e, full) renders an expression, with all     *)
(* parentheses or with those it needs.                                     *)

Level(e) == CASE e.operator = "logical" -> IF e.type = "or" THEN 1 ELSE 2 [] OTHER -> 3
ODataName(comparator) == CHOOSE c \in DOMAIN comparisonOperators : comparisonOperators[c] = comparator
Token(value) ==
  IF value = Null THEN "null"
  ELSE IF \E t \in DOMAIN Numbers : Numbers[t] = value
  THEN CHOOSE t \in DOMAIN Numbers : Numbers[t] = value
  ELSE CHOOSE t \in DOMAIN Strings : Strings[t] = value
Commas(tokens) == FlattenSeq([k \in DOMAIN tokens |-> IF k = 1 THEN tokens[k] ELSE <<",">> \o tokens[k]])
Wrapped(transform, tokens) ==
  IF transform = "none" THEN tokens ELSE <<transform, "(">> \o tokens \o <<")">>
Called(name, arguments) == <<name, "(">> \o Commas(arguments) \o <<")">>
Versus(e, value) == <<ODataName(e.comparator), Token(value)>>

LeafText(e) ==
  CASE e.operator = "comparison" ->
         IF IsList(e) THEN <<e.field>> \o Called("in", [k \in DOMAIN e.values |-> <<Token(e.values[k])>>])
         ELSE <<e.field>> \o Versus(e, e.value)
    [] e.operator = "transformcmp" -> Wrapped(e.transform, <<e.field>>) \o Versus(e, e.value)
    [] e.operator = "function" ->
         Called(e.name, <<Wrapped(e.transform, <<e.field>>), <<Token(e.arg)>>>>)
    [] e.operator = "stringfncmp" ->
         Called(e.name, [k \in DOMAIN e.args |->
                  LET a == e.args[k] IN
                  IF a.kind = "field" THEN Wrapped(a.transform, <<a.name>>) ELSE <<Token(a.value)>>])
         \o Versus(e, e.value)
    [] e.operator = "indexofcmp" ->
         Called("indexof", <<<<e.field>>, <<Token(e.needle)>>>>) \o Versus(e, e.value)
    [] e.operator = "substrcmp" ->
         Called("substring", <<<<e.field>>, <<Token(e.start)>>>>
                             \o (IF e.length = Null THEN <<>> ELSE <<<<Token(e.length)>>>>))
         \o Versus(e, e.value)
    [] e.operator \in {"lengthcmp", "datepart", "fncmp"} ->
         Called(e.name, <<<<e.field>>>>) \o Versus(e, e.value)

RECURSIVE Text(_, _)
Text(e, full) ==
  LET Inside(x, needed) == IF needed \/ (full /\ Level(x) < 3) THEN <<"(">> \o Text(x, full) \o <<")">>
                           ELSE Text(x, full)
  IN  CASE e.operator = "logical" ->
             Inside(e.expressions[1], Level(e.expressions[1]) < Level(e)) \o <<e.type>>
             \o Inside(e.expressions[2], Level(e.expressions[2]) <= Level(e))
        [] e.operator = "not" -> <<"not">> \o Inside(e.expr, Level(e.expr) < 3)
        [] e.operator = "lambda" ->
             << CHOOSE t \in DOMAIN Lambdas : Lambdas[t] = [type |-> e.lambdaType, path |-> e.path],
                "(", e.alias, ":" >> \o Text(e.predicate, full) \o <<")">>
        [] OTHER -> LeafText(e)

-----------------------------------------------------------------------------
(* The request.                                                            *)

NoPlan == [where |-> None, post |-> None, nav |-> None]
NoBindings == [alias \in {} |-> Null]

Init == /\ \/ /\ written \in Written
              /\ \E full \in BOOLEAN : text = Text(written, full)
           \/ written = None /\ text \in Garbled
        /\ phase = "sent" /\ tree = Bad /\ parts = NoParts
        /\ plan = NoPlan /\ answer = {}

Refuse == phase' = "refused" /\ UNCHANGED <<parts, plan, answer>>

Parse ==
  /\ phase = "sent"
  /\ tree' = parseFilter(text)
  /\ IF tree' = Bad THEN Refuse
     ELSE phase' = "parsed" /\ UNCHANGED <<parts, plan, answer>>
  /\ UNCHANGED <<written, text>>

\* The lambdas of the rewritten tree are validated and separated.
SplitLambdas ==
  LET rewritten == rewriteNegatedLambdas(tree)
      split == splitLambdaExpressions(rewritten)
  IN
  /\ phase = "parsed"
  /\ IF ~validateLambdaExpressionTree(rewritten) \/ split = NoParts THEN Refuse
     ELSE /\ phase' = "split" /\ parts' = split
          /\ UNCHANGED <<plan, answer>>
  /\ UNCHANGED <<written, text, tree>>

\* The whole conjunction is tried first; what the datasource is given is then
\* built from its part without navigation, the rest is kept apart.
Planned(predicate) ==
  LET first == buildWhere(predicate)
      split == splitParsedExpression(predicate)
      isNav == split.structuredExpr # None /\ containsNavigationPushdownFilter(split.structuredExpr)
      post  == combinePostFilterExpressions(IF first = Unsupported THEN predicate ELSE None,
                                            IF isNav THEN None ELSE split.structuredExpr)
      where == IF split.repoExpr = None THEN None ELSE buildWhere(split.repoExpr)
  IN  IF predicate = None THEN NoPlan
      ELSE IF Bad \in {first, where} THEN Bad
      ELSE [where |-> IF where = Unsupported THEN None ELSE where,
            post  |-> IF where = Unsupported THEN combinePostFilterExpressions(post, split.repoExpr)
                      ELSE post,
            nav   |-> IF isNav THEN split.structuredExpr ELSE None]

Plan ==
  /\ phase = "split"
  /\ IF Planned(parts.predicate) = Bad THEN Refuse
     ELSE /\ phase' = "planned" /\ plan' = Planned(parts.predicate)
          /\ UNCHANGED <<parts, answer>>
  /\ UNCHANGED <<written, text, tree>>

InWhere(row) == plan.where = None \/ SqlTruth(plan.where, row, NoBindings) = 2
Passes(e, row) == e = None \/ evaluatePredicate(e, row, NoBindings)
HasLambdas == parts.lambdas # <<>> \/ parts.lambdaExpression # None

Answered(rows) ==
  /\ phase = "planned" /\ phase' = "answered"
  /\ answer' = rows
  /\ UNCHANGED <<written, text, tree, parts, plan>>

PassesLambdas(row) == /\ \A k \in DOMAIN parts.lambdas : Passes(parts.lambdas[k], row)
                      /\ Passes(parts.lambdaExpression, row)

AnswerInMemory ==
  Answered({row \in Rows : /\ InWhere(row) /\ PassesLambdas(row)
                           /\ Passes(plan.post, row) /\ Passes(plan.nav, row)})

\* What the builders are given.  A post-filter that has the navigation part already
\* stands for both.
LambdaFilter == IF parts.lambdaExpression # None THEN parts.lambdaExpression
                ELSE AllOf(parts.lambdas)
MixedFilter == IF plan.post # None /\ containsNavigationPushdownFilter(plan.post) THEN plan.post
               ELSE combinePostFilterExpressions(plan.post, plan.nav)

Counted(built) == IF built = Decline THEN Decline ELSE [built EXCEPT !.joins = Cardinality(@)]

MixedBuilt(e) == Counted(translateMixedPredicateExpression(e))
PostBuilt     == translatePredicateExpression(plan.post, NoBindings)
LambdaBuilt   == translatePredicateExpression(LambdaFilter, NoBindings)
CountBuilt    == translateNavPredicateExpression(plan.nav)

\* The statement is built: so is the where clause, and the joins are not too many.
Builds(built) == /\ built # Decline /\ built.joins <= MaxJoins
                 /\ plan.where # None => translateWhere(plan.where)

\* A statement of what the datasource filters and a translated predicate.
InSql(built) ==
  /\ Builds(built)
  /\ Answered({row \in Rows : InWhere(row) /\ SqlTruth(built.sql, row, NoBindings) = 2})

AnswerNavigationInSql ==
  plan.nav # None /\ ~HasLambdas /\ InSql(MixedBuilt(MixedFilter))

AnswerPostFilterInSql ==
  plan.post # None /\ plan.nav = None /\ ~HasLambdas /\ InSql(PostBuilt)

AnswerLambdasInSql ==
  HasLambdas /\ plan.post = None /\ plan.nav = None /\ InSql(LambdaBuilt)

CountNavigationInSql ==
  plan.nav # None /\ plan.post = None /\ ~HasLambdas /\ InSql(CountBuilt)

Next == \/ Parse \/ SplitLambdas \/ Plan \/ AnswerInMemory
        \/ AnswerNavigationInSql \/ AnswerPostFilterInSql \/ AnswerLambdasInSql
        \/ CountNavigationInSql

Spec == Init /\ [][Next]_vars

-----------------------------------------------------------------------------
(* What a filter means, said directly over the row.                        *)

MeantOf(e, value) ==
  CASE e.operator = "comparison" ->
         IF IsList(e) THEN (value \in Range(e.values)) <=> (e.comparator = "inq")
         ELSE Holds(e.comparator, compareValues(value, e.value))
    [] e.operator = "transformcmp" ->
         Holds(e.comparator, compareValues(Transformed(value, e.transform), e.value))
    [] e.operator = "lengthcmp" -> Holds(e.comparator, compareValues(Whole(Len(value)), e.value))
    [] e.operator = "fncmp" ->
         Holds(e.comparator, compareValues(IF e.name = "year" THEN YearOf(value)
                                           ELSE Rounded(e.name, value), e.value))
    [] OTHER -> TextTest(e, value)

RECURSIVE Means(_, _, _)
Means(e, row, bound) ==
  CASE e.operator = "logical" ->
         IF e.type = "and" THEN \A k \in DOMAIN e.expressions : Means(e.expressions[k], row, bound)
         ELSE \E k \in DOMAIN e.expressions : Means(e.expressions[k], row, bound)
    [] e.operator = "not" -> ~Means(e.expr, row, bound)
    [] e.operator = "lambda" ->
         LET one(item) == Means(e.predicate, row, (e.alias :> item) @@ bound) IN
         IF e.lambdaType = "any" THEN \E item \in ItemsOf(e, row, bound) : one(item)
         ELSE \A item \in ItemsOf(e, row, bound) : one(item)
    [] e.operator = "stringfncmp" ->
         Holds(e.comparator, compareValues(evaluateStringFunction(e, row, bound), e.value))
    [] OTHER -> MeantOf(e, resolvePredicateValue(e.field, row, bound))

\* null may be compared with a property of the row itself, and nothing else may
\* be missing: there the memory and SQL follow rules of their own.
AllowsNull(e) == /\ e.operator = "comparison" /\ Len(Path(e.field)) = 1
                 /\ IF IsList(e) THEN Null \in Range(e.values)
                    ELSE e.value = Null /\ e.comparator \in {"eq", "neq"}

RECURSIVE Comparable(_, _, _)
Comparable(e, row, bound) ==
  CASE e.operator = "logical" ->
         \A k \in DOMAIN e.expressions : Comparable(e.expressions[k], row, bound)
    [] e.operator = "not" -> Comparable(e.expr, row, bound)
    [] e.operator = "lambda" ->
         \A item \in ItemsOf(e, row, bound) :
           Comparable(e.predicate, row, (e.alias :> item) @@ bound)
    [] OTHER -> AllowsNull(e) \/ \A f \in FieldsOf(e) : resolvePredicateValue(f, row, bound) \notin Absent

\* Where the code departs from OData (see the README): ceiling in a where
\* clause, the comparators of a function of a number in memory, indexof other
\* than for presence, and a substring whose length is not the literal's.
AsOData(e, wholeInWhere) ==
  CASE e.operator = "fncmp" -> /\ wholeInWhere \/ e.comparator = "eq"
                               /\ e.name = "ceiling" => e.comparator = "gte"
    [] e.operator = "indexofcmp" -> <<e.comparator, e.value>> \in
         {<<"gte", Whole(0)>>, <<"gt", Whole(-1)>>, <<"eq", Whole(-1)>>}
    [] e.operator = "substrcmp" -> /\ e.value # <<>>
                                   /\ e.length = Null \/ e.length = Whole(Len(e.value))
    [] OTHER -> TRUE

RECURSIVE LeavesOf(_)
LeavesOf(e) ==
  CASE e.operator = "logical" -> UNION {LeavesOf(e.expressions[k]) : k \in DOMAIN e.expressions}
    [] e.operator = "not" -> LeavesOf(e.expr)
    [] e.operator = "lambda" -> LeavesOf(e.predicate)
    [] OTHER -> {e}

RECURSIVE NegatesFunction(_)
NegatesFunction(e) ==
  CASE e.operator = "logical" -> \E k \in DOMAIN e.expressions : NegatesFunction(e.expressions[k])
    [] e.operator = "not" -> \E leaf \in LeavesOf(e.expr) : leaf.operator = "fncmp"
    [] OTHER -> FALSE

-----------------------------------------------------------------------------
(* Properties.                                                             *)

\* The parser reads what the client wrote: a rendering of an expression, with
\* all parentheses or with those precedence needs, is read as that expression,
\* and a text that renders none is refused (parseOr, parseAnd, parseUnary and
\* the checks for what is left over).
ReadAsWritten ==
  /\ phase = "parsed" => tree = written
  /\ phase = "refused" /\ tree = Bad => written = None

\* The rows are those the written expression is true of.
KeepWhatIsMeant(rows, those) ==
  LET allInWhere == plan.post = None /\ plan.nav = None /\ ~HasLambdas
  IN  (\A leaf \in LeavesOf(written) : AsOData(leaf, allInWhere)) /\ ~NegatesFunction(written) =>
        \A row \in rows : Comparable(written, row, NoBindings) =>
                          (row \in those <=> Means(written, row, NoBindings))
=============================================================================
