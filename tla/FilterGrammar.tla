--------------------------- MODULE FilterGrammar ---------------------------
(***************************************************************************)
(* The $filter grammar of services/odata-query-parser.service.ts: a        *)
(* recursive descent over a sequence of tokens, and the passes over the    *)
(* tree that follow it (negated lambdas rewritten, lambdas validated, the  *)
(* lambdas separated from the rest).                                       *)
(*                                                                         *)
(* A token is a string.  What the tokenizer knows of a word is given by    *)
(* constants: Numbers and Strings map the literal tokens to their values,  *)
(* Fields maps the token of a property path to its segments and Lambdas    *)
(* that of path/any or path/all to its type and path.  A value is a        *)
(* sequence of integers: a number is one integer that counts quarters      *)
(* (Whole(1) = <<4>>), a string is the sequence of its letters, a blank    *)
(* being 100, "A" and "B" 101 and 102, "a" and "b" 103 and 104.            *)
(***************************************************************************)
EXTENDS Integers, Sequences, SequencesExt, TLC

CONSTANTS Numbers, Strings, Fields, Lambdas, Null,
          Strict,             \* strict parsing (capabilities.filter.strict)
          MaxLambdaDepth      \* maxLambdaExistsDepth

Unit == 4
Whole(k) == <<Unit * k>>
IsWhole(x) == x[1] % Unit = 0

Lower(s) == [i \in DOMAIN s |-> IF s[i] \in {101, 102} THEN s[i] + 2 ELSE s[i]]
Upper(s) == [i \in DOMAIN s |-> IF s[i] \in {103, 104} THEN s[i] - 2 ELSE s[i]]
Transformed(s, transform) == CASE transform = "tolower" -> Lower(s)
                               [] transform = "toupper" -> Upper(s)
                               [] OTHER -> s

-----------------------------------------------------------------------------
(* The result of a rule is <<expression, index of the next token>>.  The   *)
(* exception of the code is Failure.                                       *)

Bad == [operator |-> "bad"]
Failure == <<Bad, 0>>
Failed(r) == r[2] = 0

At(ts, i) == IF i \in DOMAIN ts THEN ts[i] ELSE "end"

IsLiteral(t) == t \in DOMAIN Numbers \cup DOMAIN Strings \cup {"null"}

\* The comparators of OData and those of a LoopBack where clause.
comparisonOperators ==
  [eq |-> "eq", ne |-> "neq", gt |-> "gt", ge |-> "gte", lt |-> "lt", le |-> "lte"]

AWord == <<109>>

\* A word that is no literal is taken for a string.
parseLiteral(t) == CASE t = "null" -> Null
                     [] t \in DOMAIN Numbers -> Numbers[t]
                     [] t \in DOMAIN Strings -> Strings[t]
                     [] OTHER -> AWord

Literal(kind, value, transform) ==
  [kind |-> kind, value |-> IF kind = "string" THEN Transformed(value, transform) ELSE value,
   transform |-> transform]

Word(t) == CASE t \in DOMAIN Strings -> Literal("string", Strings[t], "none")
             [] t \in DOMAIN Numbers -> Literal("number", Numbers[t], "none")
             [] t = "null" -> Literal("null", Null, "none")
             [] OTHER -> [kind |-> "field", name |-> t, transform |-> "none"]

applyTransform(operand, transform) ==
  IF operand.kind = "field" THEN [operand EXCEPT !.transform = transform]
  ELSE Literal(operand.kind, operand.value, transform)

\* Steps on the result of a rule: none of them mends a failure.
Closing(ts, r) ==
  IF Failed(r) \/ At(ts, r[2]) # ")" THEN Failure ELSE <<r[1], r[2] + 1>>
Prefixed(x, rest) == IF Failed(rest) THEN Failure ELSE << <<x>> \o rest[1], rest[2]>>
Complete(ts, r) == IF Failed(r) \/ r[2] # Len(ts) + 1 THEN Bad ELSE r[1]

TransformOf(r, transform) ==
  IF Failed(r) THEN Failure ELSE <<applyTransform(r[1], transform), r[2]>>

RECURSIVE parseOperand(_, _)
parseOperand(ts, i) ==
  CASE At(ts, i) = "end" -> Failure
    [] At(ts, i) \in {"tolower", "toupper"} /\ At(ts, i + 1) = "(" ->
         TransformOf(Closing(ts, parseOperand(ts, i + 2)), At(ts, i))
    [] At(ts, i) = "(" -> Closing(ts, parseOperand(ts, i + 1))
    [] OTHER -> <<Word(At(ts, i)), i + 1>>

\* The operands of a call up to its closing parenthesis.
RECURSIVE OperandsFrom(_, _)
OperandsFrom(ts, r) ==
  CASE Failed(r) -> Failure
    [] At(ts, r[2]) = ")" -> <<<<r[1]>>, r[2] + 1>>
    [] At(ts, r[2]) = "," -> Prefixed(r[1], OperandsFrom(ts, parseOperand(ts, r[2] + 1)))
    [] OTHER -> Failure

Call(ts, i) ==
  IF At(ts, i + 1) = "(" THEN OperandsFrom(ts, parseOperand(ts, i + 2)) ELSE Failure
Kinds(args) == [k \in DOMAIN args |-> args[k].kind]

\* A call followed by a comparator and a value, which complete the node.
Compared(ts, r, comparators, values, node) ==
  LET comparator == At(ts, r[2])  value == At(ts, r[2] + 1) IN
  IF Failed(r) \/ comparator \notin comparators \/ value \notin values THEN Failure
  ELSE << [comparator |-> comparisonOperators[comparator], value |-> parseLiteral(value)]
          @@ node, r[2] + 2>>

AnyComparator == DOMAIN comparisonOperators
Equality == {"eq", "ne"}

-----------------------------------------------------------------------------
(* The function comparisons, in the order in which they are tried.         *)

parseTransformComparison(ts, i) ==
  LET field == At(ts, i + 2) IN
  IF field \notin DOMAIN Fields \/ At(ts, i + 3) # ")" THEN Failure
  ELSE Compared(ts, <<field, i + 4>>, Equality, DOMAIN Strings \cup {"null"},
         [operator |-> "transformcmp", transform |-> At(ts, i), field |-> field])

parseStringFunctionComparison(ts, i) ==
  LET r == Call(ts, i)
      arity == IF At(ts, i) = "trim" THEN Len(r[1]) = 1 ELSE Len(r[1]) >= 2
  IN  IF Failed(r) \/ ~arity THEN Failure
      ELSE Compared(ts, r, Equality, DOMAIN Strings,
             [operator |-> "stringfncmp", name |-> At(ts, i), args |-> r[1]])

OneField(args) == Len(args) = 1 /\ args[1].kind = "field"

\* A function of one field compared with a number.
FieldFunction(ts, i, operator) ==
  LET r == Call(ts, i) IN
  IF Failed(r) \/ ~OneField(r[1]) THEN Failure
  ELSE Compared(ts, r, AnyComparator, DOMAIN Numbers,
         [operator |-> operator, name |-> At(ts, i), field |-> r[1][1].name])

parseDatePartComparison(ts, i) == FieldFunction(ts, i, "datepart")
parseLengthComparison(ts, i) == FieldFunction(ts, i, "lengthcmp")
parseFieldFunctionComparison(ts, i) == FieldFunction(ts, i, "fncmp")

\* contains, startswith and endswith: a literal takes the case of either operand,
\* and the lower one of both.
CasedBy(value, transforms) ==
  IF "tolower" \in transforms THEN Lower(value)
  ELSE IF "toupper" \in transforms THEN Upper(value) ELSE value

parseFunction(ts, i) ==
  LET r == Call(ts, i)  field == r[1][1]  value == r[1][2] IN
  IF Failed(r) \/ Len(r[1]) # 2 \/ field.kind # "field" \/ value.kind = "field" THEN Failure
  ELSE << [operator |-> "function", name |-> At(ts, i), field |-> field.name,
           arg |-> IF value.kind # "string" THEN Null
                   ELSE CasedBy(value.value, {field.transform, value.transform}),
           transform |-> field.transform, negated |-> FALSE], r[2] >>

parseIndexOfComparison(ts, i) ==
  LET r == Call(ts, i) IN
  IF Failed(r) \/ Kinds(r[1]) # <<"field", "string">> THEN Failure
  ELSE Compared(ts, r, AnyComparator, DOMAIN Numbers,
         [operator |-> "indexofcmp", field |-> r[1][1].name, needle |-> r[1][2].value])

\* substring(field, start) and substring(field, start, length).
parseSubstringComparison(ts, i) ==
  LET r == Call(ts, i) IN
  IF Failed(r) \/ Kinds(r[1]) \notin {<<"field", "number">>, <<"field", "number", "number">>}
  THEN Failure
  ELSE Compared(ts, r, Equality, DOMAIN Strings,
         [operator |-> "substrcmp", field |-> r[1][1].name, start |-> r[1][2].value,
          length |-> IF Len(r[1]) = 3 THEN r[1][3].value ELSE Null])

\* The items of an in list; a comma needs an item on either side.
RECURSIVE Items(_, _)
Items(ts, i) ==
  LET item == At(ts, i) IN
  IF item \in {"end", ",", ")"} \/ (Strict /\ ~IsLiteral(item)) THEN Failure
  ELSE CASE At(ts, i + 1) = ")" -> <<<<parseLiteral(item)>>, i + 2>>
         [] At(ts, i + 1) = "," -> Prefixed(parseLiteral(item), Items(ts, i + 2))
         [] OTHER -> Failure

parseInComparison(ts, i) ==
  LET r == IF At(ts, i + 2) = "(" THEN Items(ts, i + 3) ELSE Failure IN
  IF Failed(r) THEN Failure
  ELSE << [operator |-> "comparison", field |-> At(ts, i), comparator |-> "inq",
           values |-> r[1]], r[2] >>

Plain(ts, i) ==
  LET comparator == At(ts, i + 1)  value == At(ts, i + 2) IN
  IF "end" \in {At(ts, i), comparator, value} \/ comparator \notin AnyComparator THEN Failure
  ELSE << [operator |-> "comparison", field |-> At(ts, i),
           comparator |-> comparisonOperators[comparator], value |-> parseLiteral(value)], i + 3 >>

-----------------------------------------------------------------------------
(* Lambdas and the Boolean operators.                                      *)

\* The index of the parenthesis that closes the one at i, or 0.
RECURSIVE ClosedBy(_, _, _)
ClosedBy(ts, i, depth) ==
  LET d == CASE At(ts, i) = "(" -> depth + 1 [] At(ts, i) = ")" -> depth - 1 [] OTHER -> depth
  IN  IF i > Len(ts) THEN 0 ELSE IF d = 0 THEN i ELSE ClosedBy(ts, i + 1, d)

RECURSIVE parseOr(_, _)

\* alias: predicate, read from the tokens inside the parentheses only.
Quantified(lambda, inner, predicate, next) ==
  IF predicate = Bad THEN Failure
  ELSE << [operator |-> "lambda", lambdaType |-> lambda.type, path |-> lambda.path,
           alias |-> inner[1], predicate |-> predicate], next>>

tryParseLambda(ts, i) ==
  LET close == IF At(ts, i + 1) = "(" THEN ClosedBy(ts, i + 1, 0) ELSE 0
      inner == SubSeq(ts, i + 2, close - 1)
  IN  IF close = 0 \/ At(inner, 2) # ":" THEN Failure
      ELSE Quantified(Lambdas[ts[i]], inner, Complete(inner, parseOr(inner, 3)), close + 1)

parseComparison(ts, i) ==
  LET t == At(ts, i) IN
  CASE t \in DOMAIN Lambdas -> tryParseLambda(ts, i)
    [] t \in {"tolower", "toupper"} /\ At(ts, i + 1) = "(" -> parseTransformComparison(ts, i)
    [] t \in {"trim", "concat"} -> parseStringFunctionComparison(ts, i)
    [] t \in {"month", "day", "hour", "minute", "second"} -> parseDatePartComparison(ts, i)
    [] t \in {"contains", "startswith", "endswith"} -> parseFunction(ts, i)
    [] t = "indexof" -> parseIndexOfComparison(ts, i)
    [] t = "substring" -> parseSubstringComparison(ts, i)
    [] t = "length" -> parseLengthComparison(ts, i)
    [] t \in {"round", "floor", "ceiling", "year"} -> parseFieldFunctionComparison(ts, i)
    [] OTHER -> IF At(ts, i + 1) = "in" THEN parseInComparison(ts, i) ELSE Plain(ts, i)

parsePrimary(ts, i) ==
  IF At(ts, i) = "(" THEN Closing(ts, parseOr(ts, i + 1)) ELSE parseComparison(ts, i)

Not(e) == [operator |-> "not", expr |-> e]
Logical(type, es) == [operator |-> "logical", type |-> type, expressions |-> es]

Negation(r) == IF Failed(r) THEN Failure ELSE <<Not(r[1]), r[2]>>

\* mutant
NotTakesTheRest(ts, i) ==
  IF At(ts, i) = "not" THEN Negation(parseOr(ts, i + 1)) ELSE parsePrimary(ts, i)

RECURSIVE parseUnary(_, _)
parseUnary(ts, i) ==
  IF At(ts, i) = "not" THEN Negation(parseUnary(ts, i + 1)) ELSE parsePrimary(ts, i)

Joint(type, left, right) ==
  IF Failed(right) THEN Failure ELSE <<Logical(type, <<left[1], right[1]>>), right[2]>>

\* The operands that follow left, each joined to all before it.
RECURSIVE AndTail(_, _)
AndTail(ts, left) ==
  IF Failed(left) \/ At(ts, left[2]) # "and" THEN left
  ELSE AndTail(ts, Joint("and", left, parseUnary(ts, left[2] + 1)))

parseAnd(ts, i) == AndTail(ts, parseUnary(ts, i))

RECURSIVE OrTail(_, _)
OrTail(ts, left) ==
  IF Failed(left) \/ At(ts, left[2]) # "or" THEN left
  ELSE OrTail(ts, Joint("or", left, parseAnd(ts, left[2] + 1)))

parseOr(ts, i) == OrTail(ts, parseAnd(ts, i))

\* The whole text must be read.
parseFilter(ts) == Complete(ts, parseOr(ts, 1))

-----------------------------------------------------------------------------
(* The passes over the tree.                                               *)

RECURSIVE containsLambda(_)
containsLambda(e) ==
  \/ e.operator = "lambda"
  \/ e.operator = "logical" /\ \E k \in DOMAIN e.expressions : containsLambda(e.expressions[k])
  \/ e.operator = "not" /\ containsLambda(e.expr)

Path(field) == IF field \in DOMAIN Fields THEN Fields[field] ELSE <<field>>

FieldsOf(e) == CASE e.operator = "stringfncmp" -> {a.name : a \in {a \in Range(e.args) : a.kind = "field"}}
                 [] e.operator \in {"lambda", "logical", "not", "bad"} -> {}
                 [] OTHER -> {e.field}

\* not any(p) becomes all(not p), not all(p) becomes any(not p); the predicates
\* themselves are not rewritten.
RECURSIVE rewriteNegatedLambdas(_)
rewriteNegatedLambdas(e) ==
  CASE e.operator = "logical" ->
         [e EXCEPT !.expressions = [k \in DOMAIN @ |-> rewriteNegatedLambdas(@[k])]]
    [] e.operator = "not" ->
         LET inner == rewriteNegatedLambdas(e.expr) IN
         CASE inner.operator = "not" -> rewriteNegatedLambdas(inner.expr)
           [] inner.operator = "lambda" ->
                [inner EXCEPT !.lambdaType = IF @ = "any" THEN "all" ELSE "any",
                              !.predicate = Not(@)]
           [] OTHER -> Not(inner)
    [] OTHER -> e

assertAliasedField(field, aliases) ==
  aliases = {} \/ (Len(Path(field)) > 1 /\ Head(Path(field)) \in aliases)

RECURSIVE ValidLambdas(_, _, _)
ValidLambdas(e, aliases, depth) ==
  CASE e.operator = "lambda" ->
         /\ depth < MaxLambdaDepth
         /\ aliases # {} => Len(e.path) > 1 /\ Head(e.path) \in aliases
         /\ ValidLambdas(e.predicate, aliases \cup {e.alias}, depth + 1)
    [] e.operator = "logical" ->
         /\ ~(aliases # {} /\ e.type = "or" /\ containsLambda(e))
         /\ \A k \in DOMAIN e.expressions : ValidLambdas(e.expressions[k], aliases, depth)
    [] e.operator = "not" -> ValidLambdas(e.expr, aliases, depth)
    [] OTHER -> \A field \in FieldsOf(e) : assertAliasedField(field, aliases)

validateLambdaExpressionTree(e) == containsLambda(e) => ValidLambdas(e, {}, 0)

RECURSIVE collectAndTerms(_)
collectAndTerms(e) ==
  IF e.operator = "logical" /\ e.type = "and"
  THEN FlattenSeq([k \in DOMAIN e.expressions |-> collectAndTerms(e.expressions[k])])
  ELSE <<e>>

AllOf(es) == IF Len(es) = 1 THEN es[1] ELSE Logical("and", es)
None == [operator |-> "none"]

\* What the controller is given: lambdas that must all hold, the rest of the
\* conjunction, or the whole expression when a lambda sits under an or.
Parts(lambdas, predicate, whole) ==
  [lambdas |-> lambdas, predicate |-> predicate, lambdaExpression |-> whole]
NoParts == Parts(<<>>, Bad, None)

splitLambdaExpressions(e) ==
  LET terms   == collectAndTerms(e)
      isOne(t)  == t.operator = "lambda"
      lambdas == SelectSeq(terms, isOne)
      others  == SelectSeq(terms, LAMBDA t : ~isOne(t))
      holding == {k \in DOMAIN others : containsLambda(others[k])}
  IN  IF holding = {} THEN Parts(lambdas, IF others = <<>> THEN None ELSE AllOf(others), None)
      ELSE IF others[Min(holding)].operator = "not" THEN NoParts
      ELSE Parts(<<>>, None, e)
=============================================================================
