---------------------------- MODULE MCRelatedWrites ----------------------------
(* Instances of RelatedWrites for TLC.                                     *)
EXTENDS RelatedWrites, TLC

\* Parents 1..4, children 11..14, grandchildren 21..24.
MCId == 1..4 \cup 11..14 \cup 21..24
MCLevel == [i \in MCId |-> i \div 10]

Node(id, nodes) == [id |-> id, parent |-> None, sets |-> TRUE, nodes |-> nodes]
KeyOnly(payload) == [payload EXCEPT !.sets = FALSE]
Under(parent, node) == [node EXCEPT !.parent = parent]
Ask4(kind, id, parent, nodes) ==
    [kind |-> kind, id |-> id, parent |-> parent, sets |-> TRUE, nodes |-> nodes, size |-> 0]
Insert(nodes, size) ==
    [kind |-> "insert", id |-> None, parent |-> None, sets |-> TRUE, nodes |-> nodes, size |-> size]

\* Children 11 and 12 below 1 and 2, grandchild 21 below 11.
MCRows == 1 :> None @@ 2 :> None @@ 11 :> 1 @@ 12 :> 2 @@ 21 :> 11

LinkTo(p)    == Ask4("link", 11, p, <<>>)
Unlink(i)    == Ask4("unlink", i, 1, <<>>)
Patch(p)     == Ask4("patch", 11, p, <<>>)
Put11        == Ask4("put", 11, 2, <<>>)
Tree         == Insert(<<Node(New, <<Node(New, <<>>), Node(New, <<>>)>>), Node(New, <<>>)>>, 5)
Deep(nodes)  == Ask4("patch", 1, None, nodes)
TwoChildren  == Deep(<<Node(11, <<Node(21, <<>>), Node(New, <<>>)>>), Node(New, <<>>)>>)
Foreign      == Deep(<<Node(12, <<Node(New, <<>>)>>)>>)
Moving       == Deep(<<Node(11, <<>>), Under(2, Node(11, <<>>))>>)
Inner        == KeyOnly(Deep(<<KeyOnly(Node(11, <<Node(21, <<>>), Node(New, <<>>)>>))>>))
TooDeepTree  == Insert(<<Node(New, <<Node(New, <<Node(New, <<>>)>>)>>)>>, 4)

OnlyChild    == Deep(<<Node(New, <<Node(New, <<>>)>>)>>)
BelowOnly    == KeyOnly(Deep(<<KeyOnly(Node(11, <<Node(New, <<>>)>>))>>))

\* The relations from parents to children are collections, the others may be hasOne.
Collections ==
    {<<LinkTo(2), Patch(None), Unlink(11)>>, <<LinkTo(2), Unlink(11), Put11>>,
     <<Unlink(11), TwoChildren, Patch(None)>>, <<Patch(1), Put11, TwoChildren>>,
     <<Patch(2), TwoChildren, Deep(<<Node(11, <<>>)>>)>>, <<Tree, TooDeepTree>>,
     <<Tree, TwoChildren>>, <<Inner, Unlink(11), Patch(2)>>, <<Moving, LinkTo(2)>>, <<Foreign, Put11, LinkTo(2)>>,
     <<[Put11 EXCEPT !.id = 14], Ask4("link", 14, 2, <<>>), Ask4("unlink", 14, 2, <<>>)>>}

\* Both are hasOne.
Singles == {<<Unlink(None), OnlyChild, Patch(None)>>, <<Unlink(None), OnlyChild, LinkTo(2)>>,
            <<Unlink(None), BelowOnly>>,
            <<Unlink(None), Ask4("link", 12, 1, <<>>), OnlyChild>>}

\* The nodes of these payloads, down to the third level.
Children(nodes) == UNION {{n.nodes[k] : k \in DOMAIN n.nodes} : n \in nodes}
Roots == UNION {UNION {{requests[r].nodes[k] : k \in DOMAIN requests[r].nodes} :
                          r \in DOMAIN requests} : requests \in Collections \cup Singles}
MCNodes == Roots \cup Children(Roots) \cup Children(Children(Roots))

\* The nodes of a payload, by recursion, as the proofs count them: one more than
\* those left when the first node is replaced by its children.
RECURSIVE CountOf(_)
CountOf(nodes) == IF nodes = <<>> THEN 0
                  ELSE 1 + CountOf(Head(nodes).nodes) + CountOf(Tail(nodes))

ASSUME PayloadsAreCounted ==
    /\ \A n \in MCNodes, m \in MCNodes :
          CountOf(<<n, m>>) = CountOf(n.nodes \o <<m>>) + 1
    /\ \A requests \in Collections \cup Singles : \A r \in DOMAIN requests :
          requests[r].kind = "insert" => requests[r].size = CountOf(requests[r].nodes) + 1

Isolation == {"none", "committed", "snapshot"}
MCConfigs ==
    {[tx |-> tx, one |-> one, composed |-> composed, rows |-> MCRows, requests |-> requests] :
        tx \in Isolation, one \in {{}, {2}}, composed \in BOOLEAN, requests \in Collections}
    \cup
    {[tx |-> tx, one |-> {1, 2}, composed |-> FALSE, rows |-> MCRows, requests |-> requests] :
        tx \in Isolation, requests \in Singles}

==============================================================================
