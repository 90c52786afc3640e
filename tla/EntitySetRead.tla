----------------------------- MODULE EntitySetRead -----------------------------
(***************************************************************************)
(* GET of an entity set as a whole: the list handler of                    *)
(* ODataCrudController from the text of its options to the last page.      *)
(*                                                                         *)
(* A request with $filter is read and planned as in FilterPlans; the parts *)
(* of its plan, and what the SQL builders make of them, then decide how    *)
(* CollectionQuery pages, counts and answers.  A request with $apply goes  *)
(* through ApplyPipeline instead.  CollectionQuery takes the parts of a    *)
(* filter as sets of rows; here the sets are those the filter keeps.       *)
(***************************************************************************)
EXTENDS CollectionQuery

CONSTANTS
    Null, Undefined,
    \* of the filters: see FilterGrammar and FilterPlans
    Numbers, Strings, Fields, Lambdas, Strict, MaxLambdaDepth,
    Relations, RootModel, Rows, Written, Garbled, MaxPattern, MaxDepth, MaxJoins,
    \* the lists of filtered rows
    Listed,         \* those of Written that are read page by page
    Settings,       \* the settings of the server for them
    Ranges,         \* [skip, top, count, desc] of their requests
    \* of the pipelines: see ApplyPlans and ApplyPipeline
    ApplyCases, ApplyFields, ApplyNumbers, ApplyMaxScan,
    Navigation, Spare, NewValues, MaxResult, MaxFanout, MaxPages

ASSUME LimitsAssumption == /\ MaxPattern \in Nat /\ MaxDepth \in Nat /\ MaxJoins \in Nat
                           /\ MaxLambdaDepth \in Nat
                           /\ MaxResult \in Nat /\ MaxFanout \in Nat /\ MaxPages \in Nat
ASSUME ListedAssumption == Listed \subseteq Written /\ Settings \subseteq Setting

VARIABLES written, text, stage, tree, parts, plan, kept
filterVars == <<written, text, stage, tree, parts, plan, kept>>

Filter == INSTANCE FilterPlans WITH phase <- stage, answer <- kept

VARIABLES applyCase, applyPlan, applyTable, applyClock, applyToken, applyDeltaToken, applyPhase,
          applyLink, applyDeltaLink, applySeen, applyRemoved, applyPages, applyBySql, applyWrites,
          applyMeaning, applyKept, applyKnown
applyVars == <<applyCase, applyPlan, applyTable, applyClock, applyToken, applyDeltaToken, applyPhase,
               applyLink, applyDeltaLink, applySeen, applyRemoved, applyPages, applyBySql, applyWrites,
               applyMeaning, applyKept, applyKnown>>

Apply == INSTANCE ApplyPipeline WITH
           Cases <- ApplyCases, Fields <- ApplyFields, Numbers <- ApplyNumbers, MaxScan <- ApplyMaxScan,
           case <- applyCase, plan <- applyPlan, table <- applyTable, clock <- applyClock,
           token <- applyToken, deltaToken <- applyDeltaToken, phase <- applyPhase,
           link <- applyLink, deltaLink <- applyDeltaLink, seen <- applySeen,
           removed <- applyRemoved, pages <- applyPages, bySql <- applyBySql,
           writes <- applyWrites, meaning <- applyMeaning, kept <- applyKept, known <- applyKnown

-----------------------------------------------------------------------------
(* The three parts before anything is given to them.                       *)

Nothing == [given |-> FALSE]

ListIdle == /\ cfg = Nothing /\ query = Nothing /\ table = {}
            /\ request = [skip |-> NotGiven, token |-> NoRow]
            /\ phase = "idle" /\ ids = <<>>
            /\ answer = NoAnswer /\ counted = NotCounted
            /\ seen = <<>> /\ first = NotCounted /\ raced = FALSE

FilterIdle == /\ written = Filter!None /\ text = <<>> /\ stage = "idle"
              /\ tree = Filter!Bad /\ parts = Filter!NoParts
              /\ plan = Filter!NoPlan /\ kept = {}

ApplyIdle == /\ applyCase = Nothing /\ applyPlan = Nothing /\ applyTable = <<>> /\ applyClock = 1
             /\ applyToken = <<>> /\ applyDeltaToken = Apply!NoDelta /\ applyPhase = "idle"
             /\ applyLink = <<>> /\ applyDeltaLink = Apply!NoDelta /\ applySeen = <<>>
             /\ applyRemoved = {} /\ applyPages = 0 /\ applyBySql = FALSE /\ applyWrites = 0
             /\ applyMeaning = <<>> /\ applyKept = {} /\ applyKnown = {}

-----------------------------------------------------------------------------
(* From the plan of a filter to the paths of the list handler.             *)

TableRows == {row \in Rows : row.id \in Row}
Keys(Test(_)) == {row.id : row \in {r \in TableRows : Test(r)}}

NoPart == [on |-> FALSE, rows |-> Row, sql |-> FALSE]

\* With a navigation part SQL takes both, or neither.
PostPart ==
    IF plan.post = Filter!None THEN NoPart
    ELSE [on   |-> TRUE,
          rows |-> Keys(LAMBDA row : Filter!Passes(plan.post, row)),
          sql  |-> Filter!Builds(IF plan.nav = Filter!None THEN Filter!PostBuilt
                                 ELSE Filter!MixedBuilt(Filter!MixedFilter))]

NavPart ==
    IF plan.nav = Filter!None THEN NoPart
    ELSE [on   |-> TRUE,
          rows |-> Keys(LAMBDA row : Filter!Passes(plan.nav, row)),
          sql  |-> Filter!Builds(Filter!MixedBuilt(plan.nav))]

LambdaPart ==
    IF ~Filter!HasLambdas THEN NoPart
    ELSE [on |-> TRUE, rows |-> Keys(Filter!PassesLambdas), sql |-> Filter!Builds(Filter!LambdaBuilt)]

\* What the list and the count handler know of the filter.  The functions a
\* datasource may lack are all among those PostgreSQL has.
QueryOf(range) ==
    [repo      |-> Keys(Filter!InWhere),
     post      |-> PostPart, nav |-> NavPart, lambda |-> LambdaPart,
     functions |-> IF parts.predicate # Filter!None
                      /\ Filter!buildWhere(parts.predicate) = Filter!Unsupported
                   THEN "pushable" ELSE "none",
     plain     |-> plan.nav # Filter!None /\ Filter!Builds(Filter!CountBuilt)] @@ range

\* The planned request is read from the table.
List == /\ stage = "planned" /\ written \in Listed
        /\ stage' = "listed"
        /\ cfg' \in Settings
        /\ \E range \in Ranges : query' = QueryOf(range)
        /\ table' = Row
        /\ request' = [skip |-> query'.skip, token |-> NoRow]
        /\ phase' = "asked"
        /\ UNCHANGED <<ids, answer, counted, seen, first, raced>>
        /\ UNCHANGED <<written, text, tree, parts, plan, kept, applyVars>>

-----------------------------------------------------------------------------

ReadInit == \/ Filter!Init /\ ListIdle /\ ApplyIdle
            \/ Init /\ FilterIdle /\ ApplyIdle
            \/ Apply!Init /\ ListIdle /\ FilterIdle

WhileFiltering == UNCHANGED <<vars, applyVars>>
WhileListing   == phase # "idle" /\ UNCHANGED <<filterVars, applyVars>>
WhileApplying  == applyPhase # "idle" /\ UNCHANGED <<vars, filterVars>>

ReadNext ==
    \/ WhileFiltering /\ Filter!Parse
    \/ WhileFiltering /\ Filter!SplitLambdas
    \/ WhileFiltering /\ Filter!Plan
    \/ WhileFiltering /\ Filter!AnswerInMemory
    \/ WhileFiltering /\ Filter!AnswerNavigationInSql
    \/ WhileFiltering /\ Filter!AnswerPostFilterInSql
    \/ WhileFiltering /\ Filter!AnswerLambdasInSql
    \/ WhileFiltering /\ Filter!CountNavigationInSql
    \/ List
    \/ WhileListing /\ Refusal
    \/ WhileListing /\ CountRows
    \/ WhileListing /\ SelectIds
    \/ WhileListing /\ FetchRows
    \/ WhileListing /\ ScanLambdas
    \/ WhileListing /\ ScanRows
    \/ WhileListing /\ FindRows
    \/ WhileListing /\ CountFound
    \/ WhileListing /\ Follow
    \/ WhileListing /\ Turn
    \/ WhileListing /\ Count
    \/ WhileListing /\ \E r \in Row : Delete(r)
    \/ WhileApplying /\ Apply!Refuse
    \/ WhileApplying /\ Apply!AnswerBySql
    \/ WhileApplying /\ Apply!AnswerInMemory
    \/ WhileApplying /\ Apply!AnswerPlain
    \/ WhileApplying /\ Apply!FollowNextLink
    \/ WhileApplying /\ Apply!Finish
    \/ WhileApplying /\ Apply!FollowDeltaLink
    \/ WhileApplying /\ Apply!OthersWrite

ReadSpec == /\ ReadInit /\ [][ReadNext]_<<vars, filterVars, applyVars>>
            /\ WF_applyPhase(Apply!Served) /\ WF_applyPhase(Apply!ReadOn)

-----------------------------------------------------------------------------
(* Properties, next to those of CollectionQuery.                           *)

\* The parser reads what the client wrote (parseOr, parseAnd, parseUnary): see
\* FilterPlans.
ReadAsWritten == Filter!ReadAsWritten

\* Whatever way a filter is answered the rows are those the written expression is
\* true of: rewriting lambdas, pushing not to the leaves, splitting the conjunction
\* and pushing parts down change nothing.  So in each of the ways of FilterPlans (the
\* where clause of the datasource, the memory, one of the SQL statements, or a mix of
\* them), and for the parts the list and the count handler are given, which the pages
\* and the counts are about.
AnswersMeanTheFilter ==
    LET begins == stage = "listed" /\ phase = "asked" /\ request.token = NoRow /\ seen = <<>>
    IN  (stage = "answered" \/ begins) /\ written # Filter!None =>
          Filter!KeepWhatIsMeant(IF begins THEN TableRows ELSE Rows,
                                 IF begins THEN {row \in TableRows : row.id \in AllMatches} ELSE kept)

\* The feeds of $apply: ApplyPipeline.
FeedIsTheMeaning       == Apply!FeedIsTheMeaning
StableBucketsReadOnce  == Apply!StableBucketsReadOnce
GoneBucketsAreReported == Apply!GoneBucketsAreReported
FeedEnds               == Apply!FeedEnds

=============================================================================
