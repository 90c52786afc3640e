---------------------------- MODULE CollectionQuery ----------------------------
(***************************************************************************)
(* GET of an entity set and of its $count: how the list and count handlers *)
(* of ODataCrudController decide where each part of a $filter is evaluated,*)
(* and how they page, count and answer, while other requests delete rows.  *)
(*                                                                         *)
(* splitWhereExpression and splitLambdaExpressions divide the filter into  *)
(* a part every datasource understands, a part evaluated in memory after   *)
(* the read, a part on to-one navigation paths and a part on collections.  *)
(* All of them but the first go to SQL when the datasource is PostgreSQL   *)
(* and the builders translate them: then one statement counts, one selects *)
(* the ids of a page, and a find by these ids reads the rows.              *)
(*                                                                         *)
(* What a part means is the set of rows that satisfy it: FilterPlans       *)
(* is about that.  Rows are their keys, in the order the client asks for.  *)
(* Values and delta links are ChangeTracking's subject.                    *)
(***************************************************************************)
EXTENDS Integers, FiniteSets, Sequences, SequencesExt

CONSTANTS
    Row,            \* keys of the entity set, as numbers
    MaxScan,        \* maxPostFilterScanRows
    MaxLambdaScan,  \* maxLambdaScanRows
    MaxDeletes,     \* rows other requests delete
    Cases           \* settings of the server with a request of the client

NotGiven == -1

\* A part of the filter: whether there is one, the rows that satisfy it, and
\* whether the SQL builders translate it.
Part == [on : BOOLEAN, rows : SUBSET Row, sql : BOOLEAN]

\* source: the datasource; delta: delta links are enabled; lambdaMode and
\* lambdaStrict: lambda.pushdown and pushdownStrict; size: the page size; maxTop
\* and maxSkip: limits, or NotGiven.
Setting == [source : {"postgres", "other"}, strict : BOOLEAN, delta : BOOLEAN,
            lambdaMode : {"disabled", "postgres"}, lambdaStrict : BOOLEAN,
            size : Nat \ {0}, maxTop : Nat \cup {NotGiven}, maxSkip : Nat \cup {NotGiven}]

\* functions: those that the part in memory has and the datasource lacks; plain:
\* all leaves of the navigation part are navigation paths; count: $count=true.
Query == [repo : SUBSET Row, post : Part, nav : Part, lambda : Part,
          functions : {"none", "pushable", "other"}, plain : BOOLEAN,
          skip : Nat \cup {NotGiven}, top : Nat \cup {NotGiven}, count : BOOLEAN, desc : BOOLEAN]

ASSUME RowAssumption    == Row \subseteq Nat \ {0} /\ IsFiniteSet(Row)
ASSUME BoundsAssumption == /\ MaxScan \in Nat \ {0}
                           /\ MaxLambdaScan \in Nat \ {0}
                           /\ MaxDeletes \in Nat
ASSUME CasesAssumption  == Cases \subseteq [cfg : Setting, query : Query]

VARIABLES
    cfg,      \* the settings of the server
    query,    \* what the client asks
    table,    \* the rows there are
    request,  \* the request the client has sent last
    phase,    \* asked, counted, selected, found, answered, refused
    ids,      \* the ids a statement has selected
    answer,   \* the last answer
    counted,  \* the answer of $count, asked for at the end
    \* histories, read by properties only
    seen,     \* the rows answered so far, page after page
    first,    \* the count of the first page
    raced     \* whether a row was deleted after its id was selected

vars == <<cfg, query, table, request, phase, ids, answer, counted, seen, first, raced>>

Min2(a, b) == IF a < b THEN a ELSE b
Max2(a, b) == IF a < b THEN b ELSE a

-----------------------------------------------------------------------------
(* Paging.                                                                 *)

NoRow == 0

\* resolvePageSize: the page size, unless a smaller positive one is asked for.
PageSize(wanted) == IF wanted > 0 /\ wanted < cfg.size THEN wanted ELSE cfg.size

\* The limit after maxTop: outside strict mode it stands in for no $top at all.
Top == IF cfg.maxTop = NotGiven \/ cfg.strict THEN query.top
       ELSE IF query.top = NotGiven THEN cfg.maxTop
       ELSE Min2(query.top, cfg.maxTop)

\* enforceSkipLimit, and no $skip is 0.
Skip == IF cfg.maxSkip = NotGiven \/ cfg.strict THEN Max2(request.skip, 0)
        ELSE Max2(Min2(request.skip, cfg.maxSkip), 0)

\* The client pages by itself, with $skip and $top; otherwise the server does.
Manual == request.token = NoRow /\ request.skip # NotGiven /\ query.top > 0

LimitExact == PageSize(Top)   \* mutant

\* One row more than the page tells whether there is another page.
Limit  == IF Manual THEN PageSize(Top) ELSE PageSize(Top) + 1

RangeRefused ==
    \/ cfg.strict /\ cfg.maxTop # NotGiven /\ query.top > cfg.maxTop
    \/ cfg.strict /\ cfg.maxSkip # NotGiven /\ request.skip > cfg.maxSkip
    \/ request.skip # NotGiven /\ request.token # NoRow

\* A token of an order with the change stamp in front is not accepted.
TokenRefused == cfg.delta /\ request.token # NoRow

\* The order the client asks for, and rows in this order.
Before(r, q) == IF query.desc THEN r > q ELSE r < q
Ordered(seq) == \A i, j \in 1..Len(seq) : i < j => Before(seq[i], seq[j])
Sorted(rows) == CHOOSE seq \in [1..Cardinality(rows) -> rows] : Ordered(seq)

\* What a filter leaves of rows that are in order.
Among(seq, rows) == Sorted(ToSet(seq) \cap rows)

\* Rows behind the last one of the page before: buildSkipTokenConstraint.
Behind(r) == request.token = NoRow \/ Before(request.token, r)

\* The rows that satisfy the where clause every read of the page has.
Selected == {r \in table : r \in query.repo /\ Behind(r)}

Window(seq, offset, limit) == SubSeq(seq, offset + 1, Min2(offset + limit, Len(seq)))

\* applyServerDrivenPaging and, for a client that pages by itself, all rows.
Paged(seq) ==
    IF Manual \/ Len(seq) <= PageSize(Top) THEN [rows |-> seq, link |-> NoRow]
    ELSE LET page == SubSeq(seq, 1, PageSize(Top))
         IN [rows |-> page, link |-> Last(page)]

-----------------------------------------------------------------------------
(* Where the parts of the filter are evaluated.                            *)

Postgres == cfg.source = "postgres"

FunctionsRefused == /\ cfg.strict
                    /\ query.functions # "none"
                    /\ ~(query.functions = "pushable" /\ Postgres)

\* A navigation part alone that does not go to SQL joins the part in memory.
NavGivenUp == /\ query.nav.on
              /\ ~query.post.on /\ ~cfg.strict /\ ~cfg.delta /\ ~query.lambda.on
              /\ ~(Postgres /\ query.nav.sql)

NavHeld == query.nav.on /\ ~NavGivenUp

\* With a part in memory both go to SQL, or neither.
MixedTranslated == Postgres /\ query.nav.sql /\ (query.post.on => query.post.sql)

NavRefused == NavHeld /\ (query.lambda.on \/ cfg.delta \/ (cfg.strict /\ ~MixedTranslated))
MixedInSql == NavHeld /\ ~NavRefused /\ MixedTranslated
NavInMemory == NavGivenUp \/ (NavHeld /\ ~NavRefused /\ ~MixedTranslated)

PostRemains == query.post.on \/ NavInMemory
PostTried   == PostRemains /\ ~NavHeld /\ ~query.lambda.on /\ ~cfg.delta
PostInSql   == PostTried /\ ~NavInMemory /\ Postgres /\ query.post.sql
PostRefused == PostTried /\ ~PostInSql /\ cfg.strict /\ query.functions # "none"

\* Lambdas go to SQL when nothing is left for the memory.
LambdaTried   == /\ query.lambda.on
                 /\ cfg.lambdaMode = "postgres" /\ ~query.post.on
LambdaInSql   == LambdaTried /\ Postgres /\ query.lambda.sql
LambdaRefused == /\ query.lambda.on /\ ~LambdaInSql
                 /\ cfg.lambdaStrict /\ cfg.lambdaMode = "postgres"

Refused == \/ RangeRefused \/ TokenRefused \/ FunctionsRefused \/ NavRefused
           \/ PostRefused \/ LambdaRefused

\* The statement that evaluates the filter, or where the memory does.
Path == IF MixedInSql \/ PostInSql THEN "sql"
        ELSE IF LambdaInSql THEN "lambda_sql"
        ELSE IF query.lambda.on THEN "lambda_scan"
        ELSE IF PostRemains THEN "scan" ELSE "find"

Of(part, r) == part.on => r \in part.rows
Passes(r)   == Of(query.post, r) /\ Of(query.nav, r) /\ Of(query.lambda, r)

InSql == Path \in {"sql", "lambda_sql"}

-----------------------------------------------------------------------------
(* The list handler.                                                       *)

NoAnswer   == [rows |-> <<>>, link |-> NoRow, total |-> NotGiven]
NotCounted == -1
NoCount    == -2   \* $count is refused

Init == /\ \E c \in Cases : cfg = c.cfg /\ query = c.query
        /\ table = Row
        /\ request = [skip |-> query.skip, token |-> NoRow]
        /\ phase = "asked"
        /\ ids = <<>>
        /\ answer = NoAnswer
        /\ counted = NotCounted
        /\ seen = <<>>
        /\ first = NotCounted
        /\ raced = FALSE

Refuse == /\ phase' = "refused"
          /\ UNCHANGED <<ids, answer, seen, first>>

\* The history ends when it is longer than the table: some row is there twice.
Respond(paged, total) ==
    /\ phase' = "answered"
    /\ answer' = [rows |-> paged.rows, link |-> paged.link, total |-> total]
    /\ seen' = IF Len(seen) > Cardinality(Row) THEN seen ELSE seen \o paged.rows
    /\ first' = IF request.token = NoRow /\ seen = <<>> THEN total ELSE first
    /\ UNCHANGED ids

Refusal == /\ phase = "asked"
           /\ Refused
           /\ Refuse
           /\ UNCHANGED <<cfg, query, table, request, counted, raced>>

MatchingWithoutNavigation ==   \* mutant
    {r \in Selected : Of(query.post, r) /\ Of(query.lambda, r)}

Matching == {r \in Selected : Passes(r)}

\* A statement counts the rows before another one selects a page of them.
CountRows ==
    /\ phase = "asked" /\ ~Refused
    /\ InSql /\ query.count
    /\ phase' = "counted"
    /\ answer' = [NoAnswer EXCEPT !.total = Cardinality(Matching)]
    /\ UNCHANGED <<cfg, query, table, request, ids, counted, seen, first, raced>>

\* With lambdas the statement selects no more than the page, and reads $skip from
\* a client that pages by itself only.
SelectIds ==
    /\ phase = IF query.count THEN "counted" ELSE "asked"
    /\ ~Refused /\ InSql
    /\ ids' = IF Path = "lambda_sql"
              THEN Window(Sorted(Matching), IF Manual THEN Skip ELSE 0, PageSize(Top))
              ELSE Window(Sorted(Matching), Skip, Limit)
    /\ phase' = "selected"
    /\ UNCHANGED <<cfg, query, table, request, answer, counted, seen, first, raced>>

\* The rows are read by their ids and put into the order of the ids.
FetchRows ==
    /\ phase = "selected"
    /\ LET rows == Among(ids, Selected)
       IN Respond(IF Path = "lambda_sql" THEN [rows |-> rows, link |-> NoRow] ELSE Paged(rows),
                  IF query.count THEN answer.total ELSE NotGiven)
    /\ UNCHANGED <<cfg, query, table, request, counted, raced>>

\* Lambdas in memory: all rows are read, filtered, sorted and sliced.
ScanLambdas ==
    /\ phase = "asked" /\ ~Refused
    /\ Path = "lambda_scan"
    /\ IF Cardinality(Selected) > MaxLambdaScan THEN Refuse
       ELSE Respond([rows |-> Window(Sorted(Matching), IF Manual THEN Skip ELSE 0, PageSize(Top)),
                     link |-> NoRow],
                    IF query.count THEN Cardinality(Matching) ELSE NotGiven)
    /\ UNCHANGED <<cfg, query, table, request, counted, raced>>

\* A part in memory: the rows from $skip on are read and filtered; a client that
\* pages by itself gets them from $skip on once more.  The two guards in front, for
\* requests without a bound, never hold: without $top the server pages.
ScanRows ==
    /\ phase = "asked" /\ ~Refused
    /\ Path = "scan"
    /\ LET rows == Window(Sorted(Selected), Skip, MaxScan + 1)
           kept == Among(rows, {r \in Row : Passes(r)})
       IN IF Len(rows) > MaxScan THEN Refuse
          ELSE Respond(Paged(IF Manual THEN Window(kept, Skip, PageSize(Top)) ELSE kept),
                       IF query.count THEN Len(kept) ELSE NotGiven)
    /\ UNCHANGED <<cfg, query, table, request, counted, raced>>

\* The datasource filters, sorts and limits.
FindRows ==
    /\ phase = "asked" /\ ~Refused
    /\ Path = "find"
    /\ ids' = Window(Sorted(Selected), Skip, Limit)
    /\ phase' = "found"
    /\ UNCHANGED <<cfg, query, table, request, answer, counted, seen, first, raced>>

\* The count is another read of the repository, after the find.
CountFound ==
    /\ phase = "found"
    /\ Respond(Paged(ids), IF query.count THEN Cardinality(Selected) ELSE NotGiven)
    /\ UNCHANGED <<cfg, query, table, request, counted, raced>>

-----------------------------------------------------------------------------
(* The count handler, with the filter of the client.                       *)

\* Its builder takes the navigation part alone, and leaves on such paths only.
CountTranslated  == Postgres /\ query.nav.sql /\ query.plain
CountNavInMemory == query.nav.on /\ ~cfg.strict /\ ~query.lambda.on /\ ~CountTranslated
CountNavRefused  == /\ query.nav.on /\ ~CountNavInMemory
                    /\ query.lambda.on \/ query.post.on \/ ~CountTranslated
CountInMemory    == (query.post.on \/ CountNavInMemory) /\ ~query.lambda.on
CountInSql       == Postgres /\ query.post.sql /\ ~CountNavInMemory
CountableOfPage  == Selected   \* mutant
Countable        == table \cap query.repo

CountRefused ==
    \/ FunctionsRefused \/ CountNavRefused
    \/ query.lambda.on /\ Cardinality(Countable) > MaxLambdaScan
    \/ CountInMemory /\ ~CountInSql /\ (cfg.strict \/ Cardinality(Countable) > MaxScan)

-----------------------------------------------------------------------------
(* The client and the other requests.                                      *)

Done == /\ phase = "answered"
        /\ IF Manual THEN answer.rows = <<>> ELSE answer.link = NoRow

\* The client follows the nextLink, which has the token in place of $skip.
Follow ==
    /\ phase = "answered" /\ answer.link # NoRow
    /\ request' = [skip |-> NotGiven, token |-> answer.link]
    /\ phase' = "asked"
    /\ UNCHANGED <<cfg, query, table, ids, answer, counted, seen, first, raced>>

\* It adds to $skip what it has got.
Turn ==
    /\ phase = "answered" /\ Manual /\ answer.rows # <<>>
    /\ cfg.maxSkip = NotGiven
    /\ request' = [request EXCEPT !.skip = @ + Len(answer.rows)]
    /\ phase' = "asked"
    /\ UNCHANGED <<cfg, query, table, ids, answer, counted, seen, first, raced>>

\* In the end it asks for $count.
Count ==
    /\ Done \/ phase = "refused"
    /\ counted = NotCounted
    /\ counted' = IF CountRefused THEN NoCount
                  ELSE Cardinality({r \in Countable : Passes(r)})
    /\ UNCHANGED <<cfg, query, table, request, phase, ids, answer, seen, first, raced>>

Delete(r) ==
    /\ r \in table
    /\ Cardinality(Row \ table) < MaxDeletes
    /\ table' = table \ {r}
    /\ raced' = (raced \/ (phase = "selected" /\ r \in ToSet(ids)))
    /\ UNCHANGED <<cfg, query, request, phase, ids, answer, counted, seen, first>>

Serve == \/ Refusal \/ CountRows \/ SelectIds \/ FetchRows
         \/ ScanLambdas \/ ScanRows \/ FindRows \/ CountFound

Next == \/ Serve
        \/ Follow \/ Turn \/ Count
        \/ \E r \in Row : Delete(r)

\* A request that is served comes to its end, and the client goes on.
Fairness == /\ WF_vars(Serve)
            /\ WF_vars(Follow)
            /\ WF_vars(Turn)

Spec == Init /\ [][Next]_vars /\ Fairness

-----------------------------------------------------------------------------
(* Properties.                                                             *)

\* The state is of its type, and a page never has more rows than the page size
\* of the server, on any of the paths (resolvePageSize).
TypeOK ==
    /\ [cfg |-> cfg, query |-> query] \in Cases
    /\ table \subseteq Row
    /\ phase \in {"asked", "counted", "selected", "found", "answered", "refused"}
    /\ request \in [skip : Nat \cup {NotGiven}, token : Row \cup {NoRow}]
    /\ ids \in Seq(Row) /\ seen \in Seq(Row)
    /\ answer \in [rows : Seq(Row), link : Row \cup {NoRow}, total : Nat \cup {NotGiven}]
    /\ Len(answer.rows) <= cfg.size
    /\ counted \in Nat \cup {NotCounted, NoCount} /\ first \in Nat \cup {NotCounted}
    /\ raced \in BOOLEAN

\* Wherever its parts are evaluated, the whole filter holds of every row answered
\* (splitWhereExpression, the paths of list).
OnlyMatchesAreAnswered == \A r \in ToSet(answer.rows) : r \in query.repo /\ Passes(r)

AllMatches == {r \in Row : r \in query.repo /\ Passes(r)}

\* The rows a feed that begins at $skip consists of.
FromSkip == LET all == Sorted(AllMatches)
            IN ToSet(Window(all, Max2(query.skip, 0), Len(all)))

\* A feed that ends has each match that was not deleted once, in order, on
\* whichever path its pages were read (buildSkipTokenConstraint, applyServer-
\* DrivenPaging, ensureManualSkipOrderDeterminism).  Not so: with lambdas, whose
\* pages have no nextLink; with $skip and a filter in memory; for a client that
\* pages by itself while rows are deleted; when rows vanish between the statement
\* and the read, which may take the nextLink with them.
FeedIsComplete ==
    /\ Done /\ ~raced
    /\ ~query.lambda.on \/ Manual
    /\ Max2(query.skip, 0) > 0 \/ Manual => Path # "scan" /\ table = Row
    => /\ Ordered(seen)
       /\ table \cap FromSkip \subseteq ToSet(seen)

\* While nothing is deleted the count of the first page and $count are the number
\* of matches, whichever of five ways they were counted (list, count).  A filter
\* in memory counts from $skip on.
CountsAgree ==
    table = Row =>
        /\ counted \in {NotCounted, NoCount, Cardinality(AllMatches)}
        /\ first # NotCounted /\ (query.skip \in {NotGiven, 0} \/ Path # "scan") => first = Cardinality(AllMatches)

=============================================================================
