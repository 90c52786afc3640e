---------------------------- MODULE ChangeTracking ----------------------------
(***************************************************************************)
(* Reading a collection page by page: the list handler of                  *)
(* ODataCrudController with server-driven paging ($skiptoken), delta links *)
(* ($deltatoken) and tombstones, while other requests write.               *)
(*                                                                         *)
(* The server keeps nothing between requests.  A skip token holds the sort *)
(* keys of the last row of a page, a delta token the change stamp and the  *)
(* key of that row and the keys of the whole page.  Each request reads the *)
(* table once and then, for a delta token, once for each key it may have   *)
(* to report as removed; writers commit in between.                        *)
(*                                                                         *)
(* The datasource sorts null after every other value, as PostgreSQL does   *)
(* and as orderResults does again.  The client is the one of the README:   *)
(* it follows every nextLink, keeps the deltaLink of the first page and    *)
(* calls it later.                                                         *)
(***************************************************************************)
EXTENDS Integers, FiniteSets, Sequences, SequencesExt

CONSTANTS
    Row,          \* keys of the entity set, as numbers
    SortValue,    \* values of the property the client sorts by, besides null
    MaxClock,     \* change stamps are 1..MaxClock
    MaxWriters,   \* requests that write at the same time
    MaxScan,      \* maxPostFilterScanRows
    Configs       \* what the client asks and how the entity set is configured

Null == -2   \* sorts after the values
Absent == -1 \* in place of s, where there is no row

\* order: the client's $orderby, none or the property s up or down, or the change
\* stamp down; delta: whether delta links are enabled; page: the page size; keep:
\* the values of s that a filter evaluated in memory lets pass; values: those s
\* may have; rows: the keys
\* there may be; start: the rows there are at first.
Config == [order : {"none", "asc", "desc", "stamp"}, delta : BOOLEAN,
           page : Nat \ {0}, keep : SUBSET (SortValue \cup {Null}),
           values : SUBSET (SortValue \cup {Null}), rows : SUBSET Row, start : SUBSET Row]

ASSUME RowAssumption     == Row \subseteq Nat \ {0} /\ IsFiniteSet(Row)
ASSUME ValueAssumption   == SortValue \subseteq Nat \ {0}
ASSUME BoundsAssumption  == /\ MaxClock \in Nat \ {0}
                            /\ MaxWriters \in Nat
                            /\ MaxScan \in Nat \ {0}
ASSUME ConfigsAssumption == Configs \subseteq Config

VARIABLES
    cfg,       \* the configuration
    table,     \* the committed rows
    writes,    \* writes that have their stamp and have not committed
    clock,     \* the largest stamp given
    request,   \* the request in progress
    link,      \* what the client may ask next
    view,      \* with delta links, what the client has been told of each row
    \* histories, read by properties only
    stable,    \* rows that have stayed as they were since the first page was read
    reported,  \* how often each row was reported since then
    horizon,   \* the largest stamp and key committed, or beyond those a token passes over
    late,      \* rows whose last write could not be seen in time, see Behind
    shown,     \* the rows of the page the client's delta link was given with
    ghosts     \* those of them that were gone when the client called it

vars == <<cfg, table, writes, clock, request, link, view,
          stable, reported, horizon, late, shown, ghosts>>

\* A row that is absent keeps the stamp of its last write.
Content == [s : SortValue \cup {Null, Absent}, d : 0..MaxClock]
Is(content)  == content.s # Absent
Present == {r \in Row : Is(table[r])}
Unknown == [s |-> Absent, d |-> 0]

-----------------------------------------------------------------------------
(* Order, tokens and predicates.                                           *)

Asc(field)  == [field |-> field, desc |-> FALSE]
Desc(field) == [field |-> field, desc |-> TRUE]

\* normalizeOrderDescriptors: the client's order, then the key.
RequestedOrder ==
    CASE cfg.order = "none"  -> <<Asc("id")>>
      [] cfg.order = "asc"   -> <<Asc("s"), Asc("id")>>
      [] cfg.order = "desc"  -> <<Desc("s"), Asc("id")>>
      [] cfg.order = "stamp" -> <<Desc("d"), Asc("id")>>

\* The order rows are read in: with delta links the change stamp comes first, and
\* only there.
EffectiveOrder ==
    IF cfg.delta /\ cfg.order # "stamp" THEN <<Desc("d")>> \o RequestedOrder
    ELSE RequestedOrder

Field(r, c, field) == IF field = "id" THEN r ELSE c[field]

\* Null after every value when ascending, before it when descending.
Smaller(v, w) == /\ v # w
                 /\ v # Null
                 /\ w = Null \/ v < w

\* Whether row r of content c comes before row q of content e.
Precedes(order, r, c, q, e) ==
    \E i \in 1..Len(order) :
        LET v == Field(r, c, order[i].field)
            w == Field(q, e, order[i].field)
        IN /\ \A j \in 1..i - 1 : Field(r, c, order[j].field) = Field(q, e, order[j].field)
           /\ IF order[i].desc THEN Smaller(w, v) ELSE Smaller(v, w)

\* createSkipToken: the order and the last row's value of each of its fields.
SkipToken(r, c) ==
    [order |-> EffectiveOrder,
     values |-> [i \in 1..Len(EffectiveOrder) |-> Field(r, c, EffectiveOrder[i].field)]]

AfterSkipTokenFirstField(token, r, c) ==   \* mutant
    LET v == Field(r, c, token.order[1].field)
        w == token.values[1]
    IN v # w /\ v # Null /\ IF token.order[1].desc THEN v < w ELSE v > w

\* buildSkipTokenConstraint: equal so far and then beyond the token.  For null
\* upwards no comparison is added, and a branch that compares nothing is dropped.
AfterSkipToken(token, r, c) ==
    \E i \in 1..Len(token.order) :
        LET v == Field(r, c, token.order[i].field)
            w == token.values[i]
        IN /\ \A j \in 1..i - 1 : Field(r, c, token.order[j].field) = token.values[j]
           /\ IF w = Null
              THEN IF token.order[i].desc THEN v # Null ELSE i > 1
              ELSE /\ v # Null
                   /\ IF token.order[i].desc THEN v < w ELSE v > w

NoKey    == 0
NoToken  == [order |-> <<>>, values |-> <<>>]
NoDelta  == [last |-> -1, key |-> NoKey, keys |-> {}]

AfterDeltaTokenStamp(token, r, c) == c.d > token.last   \* mutant

\* buildDeltaPredicate: a larger stamp, or the same and a larger key.
AfterDeltaToken(token, r, c) ==
    \/ c.d > token.last
    \/ token.key # NoKey /\ c.d = token.last /\ r > token.key

DeltaTokenCursor(page, contents, previous) ==   \* mutant
    IF page = <<>>
    THEN IF previous # NoDelta THEN previous
         ELSE [last |-> clock, key |-> NoKey, keys |-> {}]
    ELSE [last |-> contents[Last(page)].d, key |-> Last(page), keys |-> {Last(page)}]

\* createDeltaTokenForRows: the last row of the page; without rows the previous
\* token, or the time of the server.
DeltaToken(page, contents, previous) ==
    IF page = <<>>
    THEN IF previous # NoDelta THEN previous
         ELSE [last |-> clock, key |-> NoKey, keys |-> {}]
    ELSE [last |-> contents[Last(page)].d, key |-> Last(page), keys |-> ToSet(page)]

-----------------------------------------------------------------------------
(* The server.                                                             *)

Idle == [stage |-> "idle"]
NoLink == [skip |-> NoToken, delta |-> NoDelta, first |-> NoDelta]

Init ==
    /\ cfg \in Configs
    /\ \E first \in [cfg.start -> cfg.values] :
          table = [r \in Row |-> IF r \in cfg.start THEN [s |-> first[r], d |-> 0] ELSE Unknown]
    /\ writes = {} /\ clock = 0
    /\ horizon = [d |-> 0, id |-> 0] /\ late = {}
    /\ request = Idle
    /\ link = NoLink
    /\ view = [r \in Row |-> Unknown]
    /\ stable = {} /\ reported = [r \in Row |-> 0] /\ shown = {} /\ ghosts = {}

InOrder(seq, contents) ==
    \A i, j \in 1..Len(seq) :
        i < j => Precedes(EffectiveOrder, seq[i], contents[seq[i]], seq[j], contents[seq[j]])
Sorted(rows) == CHOOSE seq \in [1..Cardinality(rows) -> rows] : InOrder(seq, table)

\* Rows the where clause of the request selects.
Selected == {r \in Present : /\ link.skip = NoToken \/ AfterSkipToken(link.skip, r, table[r])
                             /\ link.delta = NoDelta \/ AfterDeltaToken(link.delta, r, table[r])}

Filtered == ~ cfg.values \subseteq cfg.keep
Passes(c) == c.s \in cfg.keep
LimitExact == IF Filtered THEN MaxScan + 1 ELSE cfg.page   \* mutant
Limit    == IF Filtered THEN MaxScan + 1 ELSE cfg.page + 1
Take(seq, n) == SubSeq(seq, 1, IF Len(seq) < n THEN Len(seq) ELSE n)

\* What repository.find returns of them, and what the filter in memory leaves.
Found == Take(Sorted(Selected), Limit)
Kept  == Sorted({r \in ToSet(Found) : Passes(table[r])})

\* Answered 400 or 410: the client begins again.
Refuse ==
    /\ request' = Idle
    /\ link' = NoLink
    /\ view' = [r \in Row |-> Unknown]
    /\ stable' = {} /\ shown' = {}
    /\ UNCHANGED <<cfg, table, writes, clock, reported, horizon, late, ghosts>>

\* decodeSkipTokenValues compares the token's order with the requested one,
\* before the change stamp is put in front of it.
SkipTokenRefused ==
    /\ request = Idle
    /\ link.skip # NoToken
    /\ link.skip.order # RequestedOrder
    /\ Refuse

\* A token is older than its time to live, or its secret has changed.
TokenExpired ==
    /\ request = Idle
    /\ link.skip # NoToken \/ link.delta # NoDelta
    /\ Refuse

Accepted == link.skip # NoToken => link.skip.order = RequestedOrder

\* The filter in memory would have to look at too many rows.
ScanRefused ==
    /\ request = Idle /\ Accepted
    /\ Filtered /\ Cardinality(Selected) > MaxScan
    /\ Refuse

\* A client asks for the collection, the next page or the changes: repository.find,
\* the filter in memory, and the keys to look for afterwards.
ReadRows ==
    /\ request = Idle /\ Accepted
    /\ Filtered => Len(Found) <= MaxScan
    /\ \E kept \in {Kept} :
          request' = [stage |-> "look", rows |-> kept,
                      contents |-> [r \in ToSet(kept) |-> table[r]], missing |-> {},
                      todo |-> IF cfg.delta THEN link.delta.keys ELSE {}]
    /\ IF link.skip = NoToken
       THEN /\ stable' = IF cfg.delta THEN {} ELSE {r \in Present : Passes(table[r])}
            /\ reported' = [r \in Row |-> 0]
            /\ ghosts' = shown \ Present
       ELSE UNCHANGED <<stable, reported, ghosts>>
    /\ UNCHANGED <<cfg, table, writes, clock, link, view, horizon, late, shown>>

\* computeTombstones: one findOne for each key of the token.
LookUp ==
    /\ request.stage = "look" /\ request.todo # {}
    /\ LET r == CHOOSE q \in request.todo : \A p \in request.todo : q <= p
       IN request' = [request EXCEPT !.todo = @ \ {r},
                                     !.missing = @ \cup ({r} \ Present)]
    /\ UNCHANGED <<cfg, table, writes, clock, link, view,
                   stable, reported, horizon, late, shown, ghosts>>

\* applyServerDrivenPaging, createDeltaTokenForRows and the links; the client
\* takes over the rows, and then what was removed.
Answer ==
    /\ request.stage = "look" /\ request.todo = {}
    /\ LET page  == Take(request.rows, cfg.page)
           more  == Len(request.rows) > cfg.page
           delta == IF cfg.delta THEN DeltaToken(page, request.contents, link.delta) ELSE NoDelta
           first == IF link.skip = NoToken THEN delta ELSE link.first
       IN /\ link' = IF more
                     THEN [skip |-> SkipToken(Last(page), request.contents[Last(page)]),
                           delta |-> link.delta, first |-> first]
                     ELSE [skip |-> NoToken, delta |-> first, first |-> NoDelta]
          /\ view' = [r \in Row |->
                         CASE r \in request.missing -> Unknown
                           [] cfg.delta /\ r \in ToSet(page) \ request.missing -> request.contents[r]
                           [] OTHER -> view[r]]
          /\ reported' = [r \in Row |-> IF r \in ToSet(page) \cap stable /\ reported[r] < 2
                                        THEN reported[r] + 1 ELSE reported[r]]
          /\ IF cfg.delta /\ link.skip = NoToken /\ link.delta = NoDelta /\ page = <<>>
             THEN /\ horizon' = [d |-> clock + 1, id |-> NoKey]
                  /\ late' = late \cup Present
             ELSE UNCHANGED <<horizon, late>>
          /\ shown' = IF cfg.delta /\ link.skip = NoToken /\ page # <<>> THEN ToSet(page) ELSE shown
    /\ request' = Idle
    /\ UNCHANGED <<cfg, table, writes, clock, stable, ghosts>>

-----------------------------------------------------------------------------
(* Other requests.                                                         *)

\* A write has its stamp from when it starts; its row is locked from then on.  The
\* stamps of one row grow.
StartWrite(r, s) ==
    /\ cfg.delta
    /\ Cardinality(writes) < MaxWriters
    /\ \A w \in writes : w.row # r
    /\ \E d \in {clock, clock + 1} \cap (table[r].d + 1)..MaxClock :
        /\ clock' = d
        /\ writes' = writes \cup {[row |-> r, content |-> [s |-> s, d |-> d]]}
    /\ UNCHANGED <<cfg, table, request, link, view,
                   stable, reported, horizon, late, shown, ghosts>>

\* A write commits behind others when a larger stamp could already be read.
Behind(w) == \/ w.content.d < horizon.d
             \/ w.content.d = horizon.d /\ w.row <= horizon.id

Commit(w) ==
    /\ table' = [table EXCEPT ![w.row] = w.content]
    /\ writes' = writes \ {w}
    /\ IF Behind(w)
       THEN late' = late \cup {w.row} /\ UNCHANGED horizon
       ELSE late' = late \ {w.row} /\ horizon' = [d |-> w.content.d, id |-> w.row]
    /\ stable' = stable \ {w.row}
    /\ ghosts' = ghosts \ {w.row}
    /\ UNCHANGED <<cfg, clock, request, link, view, reported, shown>>

\* Without delta links nothing depends on the stamp: the row changes at once.
WriteRow(r, s) ==
    /\ ~cfg.delta
    /\ table[r].s # s
    /\ table' = [table EXCEPT ![r] = [s |-> s, d |-> 0]]
    /\ stable' = IF cfg.order = "none" /\ r \in Present /\ s \in cfg.keep
                 THEN stable ELSE stable \ {r}
    /\ UNCHANGED <<cfg, writes, clock, request, link, view,
                   reported, horizon, late, shown, ghosts>>

Delete(r) ==
    /\ r \in Present
    /\ \A w \in writes : w.row # r
    /\ table' = [table EXCEPT ![r].s = Absent]
    /\ stable' = stable \ {r}
    /\ late' = late \ {r}
    /\ UNCHANGED <<cfg, writes, clock, request, link, view,
                   reported, horizon, shown, ghosts>>

Serve == ScanRefused \/ ReadRows \/ LookUp \/ Answer

Write == \/ \E r \in cfg.rows, s \in cfg.values : StartWrite(r, s) \/ WriteRow(r, s)
         \/ \E w \in writes : Commit(w)
         \/ \E r \in Row : Delete(r)

Next == Serve \/ SkipTokenRefused \/ TokenExpired \/ Write

Spec == Init /\ [][Next]_vars /\ WF_vars(Serve)

-----------------------------------------------------------------------------
(* Properties.                                                             *)

TypeOK ==
    /\ cfg \in Configs
    /\ table \in [Row -> Content]
    /\ writes \subseteq [row : Row, content : Content]
    /\ clock \in 0..MaxClock
    /\ request.stage \in {"idle", "look"}
    /\ request.stage = "look" => /\ request.rows \in Seq(Row)
                                 /\ request.contents \in [ToSet(request.rows) -> Content]
                                 /\ request.missing \cup request.todo \subseteq Row
    /\ view \in [Row -> Content]
    /\ reported \in [Row -> 0..2]
    /\ horizon \in [d : 0..MaxClock + 1, id : Row \cup {NoKey}]
    /\ stable \cup late \cup shown \cup ghosts \subseteq Row
    /\ link.skip # NoToken => Len(link.skip.values) = Len(link.skip.order)
    /\ \A t \in {link.delta, link.first} :
          t.last \in -1..MaxClock /\ t.key \in Row \cup {NoKey} /\ t.keys \subseteq Row

\* The client has followed every nextLink of what it asked for.
Complete == request = Idle /\ link.skip = NoToken

\* Following the nextLinks reports each entity that was there all the time, and
\* whose place in the order did not change, exactly once, whatever else is
\* inserted, moved or deleted between two pages (buildSkipTokenConstraint).  Not
\* so upwards: a token with a value never leads to a null.
PagesCoverStableRows ==
    \A r \in stable : /\ reported[r] <= 1
                      /\ Complete => \/ reported[r] = 1
                                     \/ cfg.order = "asc" /\ table[r].s = Null

\* A client that has followed its links knows each entity as it is, or the delta
\* link it holds will report it.  What it can miss is only a write that committed
\* behind a larger stamp, or while an empty first page was answered
\* (createDeltaTokenForRows, buildDeltaPredicate).
OnlyLateChangesAreMissed ==
    Complete /\ link.delta # NoDelta =>
        \A r \in Present : Passes(table[r]) =>
            \/ view[r] = table[r]
            \/ AfterDeltaToken(link.delta, r, table[r])
            \/ r \in late

\* Entities of the page a delta link was given with, deleted before it is called,
\* are reported as removed (computeTombstones).
DeletionsOfThePageAreReported ==
    Complete => \A r \in ghosts : ~Is(view[r])

\* A nextLink the server gave is not answered with 400 while its token is valid
\* (README.md on $skiptoken and on delta links with paging).
NextLinkIsAccepted == request = Idle => Accepted

\* Once nobody writes any more and tokens are accepted, calling the delta links brings the client up to
\* date, but for what came late.
EventuallyUpToDate ==
    cfg.delta /\ []NextLinkIsAccepted /\ <>[][Serve]_vars =>
        <>[](\A r \in Present : Passes(table[r]) => view[r] = table[r] \/ r \in late)

==============================================================================
