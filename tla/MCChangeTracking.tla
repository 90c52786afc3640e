--------------------------- MODULE MCChangeTracking ---------------------------
(* Instances of ChangeTracking for TLC.                                    *)
EXTENDS ChangeTracking

MCRow == 1..3

Paging(order, page, values, keep) ==
    [order |-> order, delta |-> FALSE, page |-> page, keep |-> keep,
     values |-> values, rows |-> MCRow, start |-> MCRow]
Tracking(order, page, rows, start) ==
    [order |-> order, delta |-> TRUE, page |-> page, keep |-> {1},
     values |-> {1}, rows |-> rows, start |-> start]

\* Paging in each order, with ties, with null where the order allows it, and with
\* a filter in memory; delta links with pages in the order of the change stamp,
\* and in other orders, where pages cannot be followed.
MCConfigs ==
    {Paging("asc", 1, {1, 2}, {1, 2}), Paging("asc", 2, {1, 2}, {1, 2}),
     Paging("asc", 1, {Null, 1}, {Null, 1}), Paging("desc", 1, {Null, 1}, {Null, 1}),
     Paging("none", 1, {1, 2}, {1})}
    \cup {Tracking("stamp", 1, 1..2, 1..2), Tracking("asc", 2, 1..2, 1..2),
          Tracking("stamp", 2, MCRow, {}), Tracking("none", 1, 1..2, 1..2),
          [Tracking("stamp", 1, 1..2, 1..2) EXCEPT !.values = {1, 2}]}

\* More changes than fit into a page, in the order of the key.
MCOrderConfigs == {Tracking("none", 1, 1..2, 1..2)}

==============================================================================
