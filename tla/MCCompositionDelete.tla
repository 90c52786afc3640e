------------------------- MODULE MCCompositionDelete -------------------------
(* Instances of CompositionDelete for TLC.                                 *)
EXTENDS CompositionDelete

MCNode     == 1..6
MCRelation == {"items", "notes", "cover", "invoices"}

Everywhere(value)    == [n \in MCNode |-> value]
With(f, n, value)    == [f EXCEPT ![n] = value]
Under(n, rel, kids)  == {n} \X {rel} \X kids

\* Order 1 has items 2 and 3, item 2 has note 4.  With items 5 and 6 the tree
\* is larger than maxEntities, and the last item is the second of its page.
Order ==
    [cascade  |-> With(With(Everywhere(<<>>), 1, <<"items">>), 2, <<"notes">>),
     restrict |-> Everywhere({}),
     single   |-> {},
     links    |-> Under(1, "items", {2, 3, 5, 6}) \cup Under(2, "notes", {4}),
     present  |-> 1..4, fresh |-> {5, 6}, foreign |-> {}]

\* Items without notes: item 2 may be deleted on its own and item 4 may appear,
\* both in front of a page boundary.
Shifting ==
    [cascade  |-> With(Everywhere(<<>>), 1, <<"items">>), restrict |-> Everywhere({}),
     single   |-> {}, links |-> Under(1, "items", {2, 3, 4, 5}),
     present  |-> {1, 2, 3, 5}, fresh |-> {4}, foreign |-> {}]

\* Entities 1 and 2 share their children and reach them in opposite orders.  A
\* new cover is refused while the old one is there.
Shared ==
    [cascade  |-> With(With(Everywhere(<<>>), 1, <<"items">>), 2, <<"cover", "items">>),
     restrict |-> Everywhere({}), single |-> {"cover"},
     links    |-> Under(1, "items", {3, 4}) \cup Under(2, "cover", {4, 5})
                    \cup Under(2, "items", {3}),
     present  |-> 1..4, fresh |-> {5}, foreign |-> {}]

\* Item 2 has a relation that restricts instead of cascading, and its invoice
\* may come; the cover of the order is a hasOne.
Restricting ==
    [cascade  |-> With(Everywhere(<<>>), 1, <<"cover", "items">>),
     restrict |-> With(Everywhere({}), 2, {"invoices"}),
     single   |-> {"cover"},
     links    |-> Under(1, "items", {2, 3}) \cup Under(1, "cover", {4})
                    \cup Under(2, "invoices", {6}),
     present  |-> 1..4, fresh |-> {6}, foreign |-> {}]

\* Notes of notes, deeper than maxDepth, and in a circle.
Chain ==
    [cascade  |-> Everywhere(<<"notes">>), restrict |-> Everywhere({}), single |-> {"notes"},
     links    |-> Under(1, "notes", {2}) \cup Under(2, "notes", {3})
                    \cup Under(3, "notes", {4}) \cup Under(4, "notes", {5}),
     present  |-> {1, 2, 3, 4}, fresh |-> {5}, foreign |-> {}]

Circle  == [Chain EXCEPT !.links = Under(1, "notes", {2}) \cup Under(2, "notes", {1})]

\* The notes are kept in another datasource.
Foreign == [Order EXCEPT !.foreign = {4}, !.fresh = {}]

MCScenarios == {Order, Shifting, Shared, Restricting, Chain, Circle, Foreign}
MCDeletes   == [target : {1}, guarded : {FALSE}] \cup [target : {2}, guarded : {TRUE}]

Required   == [tx |-> TRUE, require |-> TRUE, write |-> TRUE]
BestEffort == [tx |-> TRUE, require |-> FALSE, write |-> FALSE]
MCConfigs  == {Required, BestEffort}

\* Item 2 belongs to order 1 through two relations that both cascade.
Diamond ==
    [cascade  |-> With(Everywhere(<<>>), 1, <<"cover", "items">>),
     restrict |-> Everywhere({}), single |-> {"cover"},
     links    |-> Under(1, "items", {2, 3}) \cup Under(1, "cover", {2}),
     present  |-> 1..3, fresh |-> {}, foreign |-> {}]

DiamondScenarios == {Diamond}
DiamondDeletes   == [target : {1}, guarded : {FALSE}]
DiamondConfigs   == {Required}
=============================================================================
