--------------------------- MODULE MCFilterPlans ---------------------------
(* The instances of FilterPlans: what the parser knows of the words, the   *)
(* model, the rows and the filters clients write.                          *)
EXTENDS Integers, Sequences, TLC

CONSTANTS null

Whole(k) == <<4 * k>>
Logical(type, expressions) == [operator |-> "logical", type |-> type, expressions |-> expressions]
Not(e) == [operator |-> "not", expr |-> e]

MCNumbers == ("-1" :> Whole(-1)) @@ ("0" :> Whole(0)) @@ ("1" :> Whole(1)) @@ ("1.5" :> <<6>>)
             @@ ("2" :> Whole(2))
MCStrings == ("'A'" :> <<101>>) @@ ("'a'" :> <<103>>) @@ ("'ab'" :> <<103, 104>>)

MCFields ==
  [n |-> <<"n">>, s |-> <<"s">>, d |-> <<"d">>] @@
  ("owner/n" :> <<"owner", "n">>) @@ ("owner/s" :> <<"owner", "s">>) @@
  ("owner/boss/n" :> <<"owner", "boss", "n">>) @@
  ("o/n" :> <<"o", "n">>) @@ ("o/s" :> <<"o", "s">>) @@ ("p/n" :> <<"p", "n">>)
On(type, path) == [type |-> type, path |-> path]
MCLambdas ==
  ("items/any" :> On("any", <<"items">>)) @@ ("items/all" :> On("all", <<"items">>)) @@
  ("tags/any" :> On("any", <<"tags">>)) @@ ("owner/pets/any" :> On("any", <<"owner", "pets">>)) @@
  ("o/parts/any" :> On("any", <<"o", "parts">>)) @@ ("o/parts/all" :> On("all", <<"o", "parts">>)) @@
  ("p/subs/any" :> On("any", <<"p", "subs">>))

To(kind, target) == [kind |-> kind, target |-> target]
MCRelations ==
  [Root  |-> [owner |-> To("one", "Owner"), items |-> To("many", "Item"), tags |-> To("through", "Tag")],
   Owner |-> [boss |-> To("one", "Owner"), pets |-> To("many", "Tag")],
   Item  |-> [parts |-> To("many", "Part")],
   Part  |-> [subs |-> To("many", "Tag")],
   Tag   |-> <<>>]

-----------------------------------------------------------------------------
(* Rows: numbers around the rounding limits, strings in both cases and     *)
(* with blanks, a missing owner and a missing boss, empty collections.     *)

Tag(n) == [id |-> 1, n |-> n]
Part(n, subs) == [id |-> 1, n |-> n, subs |-> subs]
Item(n, s, pieces) == [id |-> 1, n |-> n, s |-> s, parts |-> pieces]
Owner(n, s, boss, pets) == [id |-> 1, n |-> n, s |-> s, boss |-> boss, pets |-> pets]
Entity(id, n, s, d, owner, items, tags) ==
  [id |-> id, n |-> n, s |-> s, d |-> d, owner |-> owner, items |-> items, tags |-> tags]

One(x) == "x" :> x
Two(x, y) == One(x) @@ ("y" :> y)
boss == Owner(<<4>>, <<103>>, null, <<>>)
p1 == Part(<<4>>, <<>>)
p2 == Part(<<6>>, One(Tag(<<4>>)))

MCRows ==
  { Entity(1, <<4>>, <<103>>, <<2>>, null, <<>>, <<>>),
    Entity(2, <<6>>, <<101>>, <<3>>, Owner(<<4>>, <<101>>, boss, One(Tag(<<4>>))),
        One(Item(<<4>>, <<103>>, One(p1))), One(Tag(<<4>>))),
    Entity(3, <<2>>, <<103, 104>>, <<4>>, Owner(<<6>>, <<103, 104>>, null, <<>>),
        Two(Item(<<4>>, <<103>>, Two(p1, p2)), Item(<<6>>, <<101>>, <<>>)), <<>>),
    Entity(4, <<8>>, <<100, 103>>, <<5>>, Owner(<<8>>, <<103>>, boss, <<>>),
        One(Item(<<6>>, <<104, 103>>, One(p2))), Two(Tag(<<4>>), Tag(<<8>>))),
    Entity(5, null, <<104, 101>>, <<2>>, Owner(null, <<103>>, boss, One(Tag(<<8>>))),
        One(Item(<<8>>, <<103>>, <<>>)), <<>>),
    Entity(6, <<0>>, null, <<3>>, null, Two(Item(<<4>>, <<101>>, One(p2)), Item(null, <<103>>, <<>>)), <<>>),
    Entity(7, <<-3>>, <<>>, <<4>>, Owner(<<4>>, null, null, <<>>), <<>>, One(Tag(<<6>>))) }

-----------------------------------------------------------------------------
(* The expressions written.                                                *)

Cmp(field, comparator, value) ==
  [operator |-> "comparison", field |-> field, comparator |-> comparator, value |-> value]
InList(field, values) ==
  [operator |-> "comparison", field |-> field, comparator |-> "inq", values |-> values]
Has(name, field, arg, transform) ==
  [operator |-> "function", name |-> name, field |-> field, arg |-> arg, transform |-> transform,
   negated |-> FALSE]
Cased(transform, field, comparator, value) ==
  [operator |-> "transformcmp", transform |-> transform, field |-> field,
   comparator |-> comparator, value |-> value]
NumberOf(operator, name, field, comparator, value) ==
  [operator |-> operator, name |-> name, field |-> field, comparator |-> comparator, value |-> value]
IndexOfIs(field, comparator, value) ==
  [operator |-> "indexofcmp", field |-> field, needle |-> <<103>>, comparator |-> comparator,
   value |-> value]
Sub(field, start, length, comparator, literal) ==
  [operator |-> "substrcmp", field |-> field, start |-> start, length |-> length,
   comparator |-> comparator, value |-> literal]
OfField(name) == [kind |-> "field", name |-> name, transform |-> "none"]
Str(name, args, comparator, value) ==
  [operator |-> "stringfncmp", name |-> name, args |-> args, comparator |-> comparator, value |-> value]
Lambda(type, path, alias, predicate) ==
  [operator |-> "lambda", lambdaType |-> type, path |-> path, alias |-> alias, predicate |-> predicate]

a == <<103>>
A == <<101>>
ab == <<103, 104>>

ComparisonLeaves ==
  { Cmp("n", c, Whole(1)) : c \in {"eq", "neq", "gt", "gte", "lt", "lte"} }
  \cup { Cmp("n", c, null) : c \in {"eq", "neq"} }
  \cup { InList("n", <<Whole(1), <<6>>>>), InList("n", <<Whole(1), null>>), InList("n", <<null>>) }
FunctionLeaves ==
  { Has(name, "s", a, "none") : name \in {"contains", "startswith", "endswith"} }
  \cup { Has("contains", "s", a, "tolower") }
  \cup { Cased("tolower", "s", c, a) : c \in {"eq", "neq"} }
  \cup { NumberOf("lengthcmp", "length", "s", c, v) :
           c \in {"eq", "neq", "gt", "gte", "lt", "lte"}, v \in {Whole(0), Whole(1), Whole(2)} }
  \cup { NumberOf("datepart", "month", "d", c, Whole(0)) : c \in {"eq", "gt"} }
  \cup { NumberOf("fncmp", name, "n", c, Whole(1)) :
           name \in {"floor", "round", "ceiling"}, c \in {"eq", "gt", "gte", "lt", "lte"} }
  \cup { NumberOf("fncmp", "year", "d", c, Whole(1)) : c \in {"eq", "gte", "lt"} }
  \cup { IndexOfIs("s", "gte", Whole(0)), IndexOfIs("s", "gt", Whole(-1)), IndexOfIs("s", "eq", Whole(-1)),
         IndexOfIs("s", "eq", Whole(1)) }
  \cup { Sub("s", Whole(0), Whole(1), "eq", a), Sub("s", Whole(1), null, "eq", a),
         Sub("s", Whole(1), null, "neq", a) }
  \cup { Str("trim", <<OfField("s")>>, "eq", a),
         Str("concat", <<OfField("s"), [kind |-> "string", value |-> a, transform |-> "none"]>>, "neq", ab) }
NavigationLeaves ==
  { Cmp("owner/n", c, Whole(1)) : c \in {"eq", "gt"} }
  \cup { Cmp("owner/boss/n", "eq", Whole(1)), Has("startswith", "owner/s", a, "none"),
         Cased("toupper", "owner/s", "neq", A) }

OfItem == { Cmp("o/n", "eq", Whole(1)), Has("contains", "o/s", a, "none"),
            Logical("and", <<Cmp("o/n", "gt", Whole(1)), Not(Cmp("o/s", "eq", A))>>),
            Lambda("any", <<"o", "parts">>, "p", Cmp("p/n", "eq", Whole(1))),
            Lambda("all", <<"o", "parts">>, "p", Not(Cmp("p/n", "eq", Whole(1)))),
            Not(Lambda("all", <<"o", "parts">>, "p", Cmp("p/n", "eq", Whole(1)))),
            Lambda("any", <<"o", "parts">>, "p",
                   Lambda("any", <<"p", "subs">>, "q", Cmp("p/n", "eq", Whole(1)))) }
LambdaLeaves ==
  { Lambda(type, <<"items">>, "o", p) : type \in {"any", "all"}, p \in OfItem }
  \cup { Lambda("any", <<"tags">>, "o", Cmp("o/n", "eq", Whole(1))),
         Lambda("any", <<"owner", "pets">>, "o", Cmp("o/n", "eq", Whole(1))) }

Leaves == ComparisonLeaves \cup FunctionLeaves \cup NavigationLeaves \cup LambdaLeaves

\* One leaf of each kind, to be combined with all the others.
Few == { Cmp("n", "eq", Whole(1)), Cmp("n", "neq", null), Has("contains", "s", a, "none"),
         NumberOf("datepart", "month", "d", "eq", Whole(0)), Cmp("owner/n", "eq", Whole(1)),
         Cmp("owner/boss/n", "eq", Whole(1)), InList("n", <<Whole(1), null>>),
         Lambda("any", <<"items">>, "o", Cmp("o/n", "eq", Whole(1))),
         Lambda("any", <<"tags">>, "o", Cmp("o/n", "eq", Whole(1))) }
Pairs(S, T) == { Logical(type, <<x, y>>) : type \in {"and", "or"}, x \in S, y \in T }
OfFew == Pairs(Few, Few)

\* One filter of every kind of plan: in the where clause, in memory, on a to-one path,
\* on a collection, and their mixtures, those SQL takes and those it does not.
Structured == Has("contains", "s", a, "tolower")
Unlike == Cased("tolower", "s", "neq", ab)
Floored(field) == NumberOf("fncmp", "floor", field, "eq", Whole(1))
Owned == Cmp("owner/n", "gte", Whole(1))
Some(predicate) == Lambda("any", <<"items">>, "o", predicate)
Both(x, y) == Logical("and", <<x, y>>)
Either(x, y) == Logical("or", <<x, y>>)
MCListed ==
  { Cmp("n", "neq", Whole(1)), Unlike, Structured,
    Both(Either(Structured, Floored("n")), Cmp("n", "neq", Whole(1))),
    Owned, Either(Owned, Floored("n")), Either(Cmp("owner/n", "gt", Whole(1)), Cmp("n", "eq", Whole(1))),
    Both(Owned, Unlike), Both(Owned, Either(Unlike, Floored("n"))),
    Some(Cmp("o/n", "gte", Whole(1))), Both(Some(Cmp("o/n", "gte", Whole(1))), Unlike),
    Both(Some(Floored("o/n")), Cmp("owner/n", "gt", Whole(1))),
    Either(Some(Cmp("o/n", "gte", Whole(1))), Cmp("n", "eq", Whole(1))) }

MCWritten ==
  Leaves \cup { Not(e) : e \in Leaves } \cup { Not(Not(e)) : e \in Few }
  \cup Pairs(Leaves, Few) \cup { Not(e) : e \in OfFew }
  \cup { Not(Logical(type, <<x, Not(y)>>)) : type \in {"and", "or"}, x \in Few, y \in Few }
  \cup { Logical(type, <<Not(x), y>>) : type \in {"and", "or"}, x \in Few, y \in Few }
  \cup Pairs(OfFew, { Cmp("s", "eq", a), Cmp("owner/n", "gt", Whole(1)),
                      Lambda("any", <<"owner", "pets">>, "o", Cmp("o/n", "eq", Whole(1))) })
  \cup Pairs({ Cmp("s", "eq", a) }, OfFew) \cup MCListed

MCGarbled ==
  { <<"n", "eq">>, <<"n", "eq", "1", ")">>, <<"(", "n", "eq", "1">>, <<"n", "eq", "1", "n", "eq", "2">>,
    <<"not">>, <<"and", "n", "eq", "1">>, <<"n", "eq", "1", "or">>, <<"n", "in", "(", ")">>,
    <<"n", "in", "(", "1", ",", ")">>, <<"n", "in", "(", "s", ")">>, <<"contains", "(", "s", ")">>,
    <<"contains", "(", "'a'", ",", "s", ")">>, <<"length", "(", "s", ")">>,
    <<"floor", "(", "n", ")", "eq", "'a'">>, <<"tolower", "(", "s", ")", "gt", "'a'">>,
    <<"items/any", "(", "o", ":", "o/n", "eq", "1">>, <<"items/any", "(", "o", "o/n", "eq", "1", ")">>,
    <<"items/any", "(", "o", ":", "o/n", "eq", "1", ")", ")">>, <<"items/any">> }
=============================================================================
