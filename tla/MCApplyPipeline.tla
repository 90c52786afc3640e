-------------------------- MODULE MCApplyPipeline --------------------------
(* The instances of ApplyPipeline: the tables, the pipelines and the       *)
(* changes other requests make.                                            *)
EXTENDS Integers, Sequences, TLC

CONSTANTS null

To(relation, property, many) == [relation |-> relation, property |-> property, many |-> many]
MCNavigation == ("items/k" :> To("items", "k", TRUE)) @@ ("items/n" :> To("items", "n", TRUE))
                @@ ("tags/n" :> To("tags", "n", TRUE)) @@ ("owner/k" :> To("owner", "k", FALSE))
MCNumbers == ("1" :> 1) @@ ("2" :> 2)

Item(k, n) == [k |-> k, n |-> n]
Entity(id, g, n, items, owner) ==
  [fields |-> [id |-> id, g |-> g, n |-> n, stamp |-> 1],
   related |-> [items |-> items, tags |-> <<[n |-> 1], [n |-> 3]>>, owner |-> owner]]

\* Three groups, two of them alike in their sum; a row with two items, one with none.
MCTable == << Entity(1, 1, 2, <<Item(1, 2), Item(2, 4)>>, <<[k |-> 1]>>),
              Entity(2, 2, 6, <<Item(1, 6)>>, <<[k |-> 2]>>),
              Entity(3, 1, 4, <<Item(2, 2)>>, <<[k |-> 1]>>),
              Entity(4, 3, 8, <<Item(1, 8)>>, <<[k |-> 2]>>) >>
Bare == << Entity(1, 2, 2, <<>>, <<>>), Entity(2, 1, 6, <<Item(1, 6)>>, <<[k |-> 2]>>) >>
\* A table with rows that lack a value.
Gaps == << Entity(1, 2, null, <<Item(1, 2)>>, <<[k |-> 1]>>), Entity(2, null, 6, <<Item(1, 6)>>, <<[k |-> 2]>>),
           Entity(3, 1, 4, <<Item(1, 6)>>, <<[k |-> 2]>>) >>
MCSpare == Entity(5, 2, 2, <<Item(2, 2)>>, <<[k |-> 1]>>)
MCNewValues == { [field |-> "n", value |-> 8], [field |-> "g", value |-> 2] }

-----------------------------------------------------------------------------
Cmp(field, comparator, value, where) ==
  [op |-> "cmp", field |-> field, comparator |-> comparator, value |-> value, where |-> where]
Filter(e) == [type |-> "filter", expr |-> e]
With(operand, operator, alias) == [operand |-> operand, operator |-> operator, alias |-> alias]
GroupBy(keys, aggregates) == [type |-> "groupby", keys |-> keys, aggregates |-> aggregates]
Aggregate(aggregates) == [type |-> "aggregate", aggregates |-> aggregates]
OrderBy(items) == [type |-> "orderby", items |-> items]
Cut(type, count) == [type |-> type, count |-> count]
Concat(pipelines) == [type |-> "concat", pipelines |-> pipelines]
By(field, desc) == [field |-> field, desc |-> desc]

Sum == With(<<"n">>, "sum", "s")
HowMany == With(<<"$count">>, "count", "c")
Aggregates == { <<Sum, HowMany>>, <<With(<<"n">>, "average", "s"), With(<<"n">>, "countdistinct", "c")>>,
                <<With(<<"n">>, "min", "s"), With(<<"n">>, "max", "c")>> }
Operands == { <<"n", "sub", "1", "sub", "1">>, <<"n", "mul", "(", "n", "add", "1", ")">>,
              <<"n", "add", "n", "mul", "2">>, <<"n", "div", "2", "mod", "2">>, <<"2">> }
ByPaths == { GroupBy(<<"items/k">>, <<HowMany, With(<<"items/n">>, "sum", "s")>>),
             GroupBy(<<"g", "items/k">>, <<With(<<"items/n">>, "max", "s")>>),
             GroupBy(<<"owner/k">>, <<With(<<"tags/n">>, "sum", "s"), HowMany>>),
             GroupBy(<<"g">>, <<With(<<"items/n">>, "average", "s"), With(<<"tags/n">>, "countdistinct", "c")>>),
             GroupBy(<<"g">>, <<With(<<"items/n", "add", "n">>, "sum", "s")>>),
             GroupBy(<<"g">>, <<With(<<"items/n">>, "count", "c")>>) }
Sources == { <<>>, <<Filter(Cmp("g", "lt", 3, TRUE))>>, <<Filter(Cmp("n", "gt", 2, FALSE))>> }
Havings == { <<>>, <<Filter(Cmp("g", "lt", 3, TRUE))>>, <<Filter(Cmp("s", "gte", 6, TRUE))>>,
             <<Filter([op |-> "or", parts |-> <<Cmp("g", "eq", 1, TRUE), Cmp("c", "neq", 1, TRUE)>>])>> }
Tails == { <<>>, <<OrderBy(<<By("s", TRUE)>>)>>, <<OrderBy(<<By("s", TRUE), By("g", FALSE)>>)>>,
           <<OrderBy(<<By("g", TRUE)>>), Cut("top", 2)>>, <<OrderBy(<<By("c", TRUE)>>), Cut("top", 2)>>,
           <<OrderBy(<<By("s", TRUE), By("g", TRUE)>>), Cut("skip", 1)>>,
           <<OrderBy(<<By("s", FALSE), By("g", FALSE)>>), Cut("skip", 1), Cut("top", 1)>> }

Groupings ==
  { f \o <<GroupBy(<<"g">>, <<Sum, HowMany>>)>> \o h \o t : f \in {<<>>}, h \in Havings, t \in Tails }
  \cup { f \o <<GroupBy(<<"g">>, a)>> : f \in Sources, a \in Aggregates }
  \cup { <<GroupBy(<<"g">>, <<With(o, "sum", "s")>>)>> : o \in Operands }
  \cup { <<g>> : g \in ByPaths }
  \cup { <<GroupBy(<<"items/k">>, <<HowMany>>), Filter(Cmp("items/k", "eq", 1, FALSE))>> }
  \cup { <<Aggregate(a)>> : a \in Aggregates }
  \cup { <<GroupBy(<<"g">>, <<Sum>>)>> \o h \o <<Aggregate(<<With(<<"s">>, "max", "m"), HowMany>>)>> :
           h \in {<<>>, <<Filter(Cmp("g", "lt", 3, TRUE))>>,
                  <<OrderBy(<<By("s", TRUE), By("g", FALSE)>>), Cut("top", 2)>>} }
Concats ==
  { <<Concat(<<<<GroupBy(<<"g">>, <<Sum>>)>>, <<Aggregate(<<Sum>>)>>>>)>>,
    <<Concat(<<<<Filter(Cmp("n", "gt", 2, FALSE)), Aggregate(<<HowMany>>)>>,
               <<Aggregate(<<Sum>>), Concat(<<<<Aggregate(<<With(<<"s">>, "max", "m")>>)>>,
                                              <<Aggregate(<<With(<<"s">>, "min", "m")>>)>>>>)>>>>)>>,
    <<GroupBy(<<"g">>, <<Sum>>), Concat(<<<<OrderBy(<<By("g", FALSE)>>)>>, <<Aggregate(<<With(<<"s">>, "sum", "m")>>)>>>>)>>,
    <<Concat(<<<<Filter(Cmp("n", "gt", 2, TRUE)), Aggregate(<<Sum>>)>>, <<Aggregate(<<HowMany>>)>>>>)>>,
    <<Concat(<<<<Filter(Cmp("n", "gt", 2, FALSE))>>, <<Filter(Cmp("g", "eq", 1, FALSE))>>>>)>> }
Plain ==
  { <<Filter(Cmp("g", "lt", 3, TRUE))>>, <<Filter(Cmp("n", "gt", 2, FALSE))>>,
    <<Filter(Cmp("items/k", "eq", 1, FALSE))>>, <<OrderBy(<<By("n", TRUE), By("id", FALSE)>>)>>,
    <<OrderBy(<<By("id", TRUE)>>), Cut("top", 2)>>, <<OrderBy(<<By("id", FALSE)>>), Cut("top", 3)>> }
\* Not in the order they are carried out in, refused, or with a grouping of a grouping.
Others ==
  { <<GroupBy(<<"g">>, <<Sum>>), Cut("top", 1), OrderBy(<<By("s", TRUE)>>)>>,
    <<GroupBy(<<"g">>, <<Sum>>), GroupBy(<<"g">>, <<With(<<"s">>, "max", "m")>>)>>,
    <<GroupBy(<<"g">>, <<Sum>>), Cut("top", 1), Cut("top", 2)>>,
    <<Cut("top", 1), GroupBy(<<"g">>, <<Sum>>)>>, <<Cut("bottom", 1)>>,
    <<GroupBy(<<"g">>, <<With(<<"n", "add">>, "sum", "s")>>)>>,
    <<GroupBy(<<"g">>, <<With(<<"$count">>, "sum", "s")>>)>>,
    <<GroupBy(<<"g">>, <<With(<<"x">>, "sum", "s")>>)>>,
    <<Concat(<<<<Filter(Cmp("n", "gt", 2, TRUE))>>, <<Aggregate(<<Sum>>)>>>>), OrderBy(<<By("s", FALSE)>>)>>,
    <<Concat(<<<<Aggregate(<<Sum>>)>>, <<Aggregate(<<HowMany>>)>>>>), Filter(Cmp("s", "gt", 30, FALSE))>>,
    <<Concat(<<<<Aggregate(<<Sum>>)>>>>)>>, <<>> }

Case(pipeline, size, strict, sql, delta, rows, changes) ==
  [pipeline |-> pipeline, size |-> size, strict |-> strict, sql |-> sql, delta |-> delta,
   table |-> rows, changes |-> changes]
PerTail == { <<GroupBy(<<"g">>, <<Sum, HowMany>>)>> \o t : t \in Tails }
MCCases ==
  { Case(p, 2, FALSE, TRUE, FALSE, MCTable, 1) : p \in Groupings }
  \cup { Case(p, 1, FALSE, sql, FALSE, MCTable, 1) : p \in PerTail, sql \in BOOLEAN }
  \cup { Case(p, 4, FALSE, TRUE, TRUE, MCTable, 1) : p \in Groupings }
  \cup { Case(p, size, FALSE, TRUE, TRUE, MCTable, 2) : p \in PerTail, size \in {1, 3} }
  \cup { Case(p, size, FALSE, FALSE, FALSE, MCTable, 1) : p \in Concats \cup Plain, size \in {2, 8} }
  \cup { Case(p, 2, strict, FALSE, FALSE, MCTable, 0) : p \in Others \cup Plain, strict \in BOOLEAN }
  \cup { Case(<<g>>, 8, FALSE, FALSE, FALSE, Bare, 1) : g \in ByPaths }
  \cup { Case(p, 2, FALSE, TRUE, FALSE, Gaps, 1) : p \in PerTail }
  \cup { Case(<<g>>, 8, FALSE, TRUE, FALSE, <<>>, 1) : g \in {GroupBy(<<"g">>, <<Sum>>), Aggregate(<<Sum>>)} }
=============================================================================
