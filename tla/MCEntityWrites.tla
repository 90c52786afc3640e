---------------------------- MODULE MCEntityWrites ----------------------------
(* Instances of EntityWrites for TLC.                                      *)
EXTENDS EntityWrites

Plain(ops, matches) == [op : ops, match : matches, body : {"plain"}, rep : {FALSE}]

\* If-Match: * differs from no If-Match only in strict mode, so one shape with
\* it is enough; the same goes for the variants of PATCH and DELETE.
MCShapes ==
    Plain({"POST"}, {"absent"})
    \cup Plain({"PUT", "PATCH", "DELETE"}, {"absent", "tags"})
    \cup Plain({"PUT", "DELETE"}, {"any"})
    \cup [op : {"PATCH"}, match : {"any", "tags"}, body : {"empty", "fk"}, rep : {FALSE}]
    \cup [op : {"DELETE"}, match : {"any", "tags"}, body : {"plain"}, rep : {TRUE}]

ConditionalPuts == Plain({"PUT"}, {"tags"})

DefaultTransactions  == [tx |-> TRUE, require |-> TRUE,  snapshot |-> FALSE, strict |-> TRUE]
OptionalTransactions == [tx |-> TRUE, require |-> FALSE, snapshot |-> TRUE,  strict |-> FALSE]
NoTransactions       == [tx |-> FALSE, require |-> FALSE, snapshot |-> FALSE, strict |-> FALSE]

MCConfigs == {DefaultTransactions, OptionalTransactions, NoTransactions}
MCDefault == {DefaultTransactions}
=============================================================================
