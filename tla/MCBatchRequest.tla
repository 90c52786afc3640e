---------------------------- MODULE MCBatchRequest ----------------------------
(* Instances of BatchRequest for TLC: the payloads in JSON are those of    *)
(* MCBatchController, the multipart ones those of MCMultipartParser and    *)
(* three of as many requests as the controller executes here.              *)
EXTENDS BatchRequest, MCBatchController, MCMultipartParser

MCGroupToken(name) == IF name = NoChangeset THEN NoGroup ELSE IF name = "c" THEN g1 ELSE g2

\* Requests of their own before and behind a changeset, and two changesets.
Executed ==
    { << Alone(Get(NoId)), Changeset("mixed c", NoId, <<Get(NoId), Get(NoId)>>) >>,
      << Changeset("mixed c", NoId, <<Get(NoId), Get(NoId)>>), Alone(Get(NoId)) >>,
      << Changeset("mixed c", NoId, <<Get(NoId)>>), Changeset("mixed d", NoId, <<Get(NoId), Get(NoId)>>) >> }

Plain(groups) ==
    [grp |-> groups, deps |-> NoDeps, ref |-> NoRef, refUrl |-> NoUrl, write |-> AllWrites,
     entity |-> AllNamed, limit |-> 0, changesetLimit |-> 2, transactions |-> TRUE]

Meant(units) ==
    [case  |-> Case(Text(units), units, NoLimits, TRUE, 3),
     batch |-> Plain([i \in MCReq |-> MCGroupToken(Written(units)[i].group)])]

MCMultiparts == { [case |-> c, batch |-> Plain([i \in MCReq |-> NoGroup])] : c \in MCCases }
                  \cup { Meant(units) : units \in Executed }

MCAllBatches == MCBatches \cup { m.batch : m \in MCMultiparts }
MCAllCases == { m.case : m \in MCMultiparts }
MCAllWords == UNION { ToSet(c.text) : c \in MCAllCases }
=============================================================================
