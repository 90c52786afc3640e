---------------------------- MODULE MCEntitySetRead ----------------------------
(* Instances of EntitySetRead for TLC.  Those of the filters and of the    *)
(* pipelines are in modules of their own.                                  *)
EXTENDS EntitySetRead

CONSTANTS null, undefined

F == INSTANCE MCFilterPlans
MCNumbers   == F!MCNumbers
MCStrings   == F!MCStrings
MCFields    == F!MCFields
MCLambdas   == F!MCLambdas
MCRelations == F!MCRelations
MCRows      == F!MCRows
MCWritten   == F!MCWritten
MCGarbled   == F!MCGarbled
MCListed    == F!MCListed

A == INSTANCE MCApplyPipeline
MCNavigation   == A!MCNavigation
MCApplyNumbers == A!MCNumbers
MCApplyCases   == A!MCCases
MCSpare        == A!MCSpare
MCNewValues    == A!MCNewValues

-----------------------------------------------------------------------------
(* The lists: filters read from their text, and three that are given as    *)
(* the rows they keep, one with a function no datasource has.              *)

MCRow == 1..4

Plain == [source |-> "postgres", strict |-> FALSE, delta |-> FALSE, lambdaMode |-> "postgres",
          lambdaStrict |-> FALSE, size |-> 2, maxTop |-> NotGiven, maxSkip |-> NotGiven]
MCSettings ==
    {Plain, [Plain EXCEPT !.source = "other", !.size = 1],
     [Plain EXCEPT !.strict = TRUE, !.maxTop = 2, !.maxSkip = 0],
     [Plain EXCEPT !.lambdaStrict = TRUE, !.maxTop = 1],
     [Plain EXCEPT !.delta = TRUE], [Plain EXCEPT !.lambdaMode = "disabled", !.maxSkip = 1]}

MCRanges == {[skip |-> NotGiven, top |-> NotGiven, count |-> TRUE, desc |-> FALSE],
             [skip |-> 1, top |-> NotGiven, count |-> FALSE, desc |-> FALSE],
             [skip |-> 0, top |-> 1, count |-> TRUE, desc |-> FALSE],
             [skip |-> 0, top |-> 3, count |-> TRUE, desc |-> TRUE],
             [skip |-> NotGiven, top |-> 0, count |-> FALSE, desc |-> FALSE]}

That(rows, sql) == [on |-> TRUE, rows |-> rows, sql |-> sql]
All == [repo |-> Row, post |-> NoPart, nav |-> NoPart, lambda |-> NoPart,
        functions |-> "none", plain |-> TRUE]
Given == {[All EXCEPT !.nav = That(2..4, TRUE), !.post = That({1, 3, 4}, FALSE), !.functions = "other"],
          [All EXCEPT !.lambda = That(2..4, FALSE), !.nav = That({1, 3, 4}, TRUE)],
          [All EXCEPT !.post = That(2..4, FALSE), !.repo = {1, 3, 4}]}
MCCases == {[cfg |-> c, query |-> q @@ r] : c \in MCSettings, q \in Given, r \in MCRanges}

================================================================================
